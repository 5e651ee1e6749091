--------------------------- MODULE ProcScanProofs ---------------------------
(***************************************************************************)
(* Proofs about ProcScan, for any number of pids and any processes.  While *)
(* the first pkill has noted nothing, every process is still ahead of its  *)
(* walk or was started since the pids last began anew (so that its pid is  *)
(* at most `last`); when it ends only the latter are left.  They fork to   *)
(* higher pids only, so none gets behind the walk of the second pkill.     *)
(***************************************************************************)
EXTENDS ProcScan, TLAPS

(* What a pkill that has signalled nobody, and has nobody to signal, knows *)
(* about the processes.                                                    *)
FirstInv  == \A q \in procs : q > pos \/ q <= last
SecondInv == \A q \in procs : q > pos /\ q <= last

Quiet == at \in {"scan", "kill"} /\ noted = {} /\ ~hit

ScanInv ==
  disturbed = {} =>
    /\ noted \subseteq procs
    /\ Quiet /\ round = 1 => FirstInv
    /\ Quiet /\ round = 2 => SecondInv
    /\ at = "left" => procs = {}

IInv ==
  /\ TypeOK
  /\ at = "kill" => pos = NumPids
  /\ at = "scan" => ~hit
  /\ ScanInv

LEMMA IInvInit == Init => IInv
<1> SUFFICES ASSUME Init PROVE IInv
  OBVIOUS
<1>1. hit \in BOOLEAN
  BY Zenon DEF Init
<1>2. TypeOK
  BY <1>1, PidAssumption DEF Init, TypeOK
<1>3. ScanInv
  BY DEF Init, ScanInv, FirstInv, Quiet, Pids
<1>4. QED
  BY <1>2, <1>3 DEF Init, IInv

(* The next pkill, or the end of the loop.                                 *)
LEMMA FoundStep ==
  ASSUME IInv, at \in {"scan", "kill"}, UNCHANGED <<procs, last>>,
         NEW ok \in BOOLEAN, NEW d \in SUBSET Disturbances, Found(ok, d),
         d = {} => at = "kill" /\ noted = {} /\ ok = hit
  PROVE  IInv'
<1> USE PidAssumption DEF IInv
<1>1. hit' \in BOOLEAN
  BY Zenon DEF TypeOK, Found, NewPkill
<1>2. TypeOK'
  BY <1>1 DEF TypeOK, Found, NewPkill
<1>3. (at' = "kill" => pos' = NumPids) /\ (at' = "scan" => ~hit')
  BY DEF Found, NewPkill
<1>4. SUFFICES ScanInv'
  BY <1>2, <1>3
<1>5. CASE ok
  BY <1>5 DEF Found, NewPkill, ScanInv, Quiet, FirstInv, TypeOK, Pids
<1>6. CASE ~ok /\ d # {}
  BY <1>6 DEF Found, ScanInv
<1>7. CASE ~ok /\ d = {} /\ round = 1
  BY <1>7 DEF Found, NewPkill, ScanInv, Quiet, FirstInv, SecondInv, TypeOK, Pids
<1>8. CASE ~ok /\ d = {} /\ round = 2
  <2>1. at' = "left" /\ disturbed' = disturbed /\ noted' = noted /\ procs' = procs
    BY <1>8 DEF Found, NewPkill
  <2>2. SUFFICES ASSUME disturbed = {} PROVE procs = {}
    BY <1>8, <2>1 DEF ScanInv, Quiet
  <2>3. SecondInv /\ pos = NumPids
    BY <1>8, <2>2 DEF ScanInv, Quiet
  <2>4. QED
    BY <2>3 DEF SecondInv, TypeOK, Pids
<1>9. QED
  BY <1>5, <1>6, <1>7, <1>8 DEF TypeOK

LEMMA BirthStep ==
  ASSUME IInv, NEW p \in Pids, Fork(p) \/ StartedOutside(p) PROVE IInv'
<1> USE PidAssumption DEF IInv
<1>1. TypeOK' /\ (at' = "kill" => pos' = NumPids) /\ (at' = "scan" => ~hit')
  <2>1. /\ UNCHANGED pkillVars /\ procs' = procs \cup {p} /\ last' = p
        /\ disturbed' \in SUBSET Disturbances
    BY DEF TypeOK, Fork, StartedOutside, NewProcess, Disturbances
  <2>2. QED
    BY <2>1 DEF TypeOK, Pids, pkillVars
<1>2. SUFFICES ASSUME disturbed' = {} PROVE ScanInv'
  BY <1>1 DEF ScanInv
<1>3. Fork(p) /\ p > last /\ disturbed = {}
  BY <1>2 DEF Fork, StartedOutside, NewProcess, TypeOK, Pids
<1>4. PICK f \in procs : TRUE
  BY <1>3 DEF Fork
<1>5. procs' = procs \cup {p} /\ last' = p /\ UNCHANGED pkillVars
  BY <1>3 DEF Fork, NewProcess
<1>6. QED
  BY <1>3, <1>4, <1>5 DEF ScanInv, Quiet, FirstInv, SecondInv, TypeOK, Pids, pkillVars

LEMMA IInvNext == IInv /\ [Next]_vars => IInv'
<1> SUFFICES ASSUME IInv, [Next]_vars PROVE IInv'
  OBVIOUS
<1> USE PidAssumption
<1>1. CASE Look
  BY <1>1 DEF IInv, Look, TypeOK, ScanInv, Quiet, FirstInv, SecondInv, Pids
<1>2. CASE LookedAtAll
  BY <1>2 DEF IInv, LookedAtAll, TypeOK, ScanInv, Quiet, FirstInv, SecondInv, Pids
<1>3. ASSUME NEW p \in Pids, Signal(p) PROVE IInv'
  BY <1>3 DEF IInv, Signal, TypeOK, ScanInv, Quiet, FirstInv, SecondInv, Pids
<1>4. CASE PkillExits
  BY <1>4, FoundStep DEF PkillExits, IInv, TypeOK
<1>5. CASE PkillFails
  BY <1>5, FoundStep DEF PkillFails, Disturbances
<1>6. CASE Births
  BY <1>6, BirthStep DEF Births
<1>7. ASSUME NEW p \in Pids, Exit(p) PROVE IInv'
  BY <1>7 DEF IInv, Exit, TypeOK, ScanInv, Quiet, FirstInv, SecondInv, Pids, Disturbances, pkillVars
<1>8. CASE UNCHANGED vars
  BY <1>8 DEF IInv, TypeOK, ScanInv, Quiet, FirstInv, SecondInv, vars, pkillVars
<1>9. QED
  BY <1>1, <1>2, <1>3, <1>4, <1>5, <1>6, <1>7, <1>8 DEF Next, Loop

(* Every reachable state of the loop of pkills satisfies the invariant.    *)
THEOREM Invariant == Spec => []IInv
  BY IInvInit, IInvNext, PTL DEF Spec

(* For any number of pids and whatever the user's processes do: if the     *)
(* loop of pkills (http.go:371-386) is left undisturbed, no process of the *)
(* user is left, although either pkill alone can be raced by a fork.       *)
THEOREM NoneSurvives == Spec => []TwoPkillsSuffice
<1>1. IInv => TwoPkillsSuffice
  BY DEF IInv, ScanInv, TwoPkillsSuffice
<1>2. QED
  BY <1>1, Invariant, PTL
=============================================================================
