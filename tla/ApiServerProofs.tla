--------------------------- MODULE ApiServerProofs ---------------------------
(***************************************************************************)
(* Proofs about ApiServer, for any number of requests (also infinitely     *)
(* many), vehicles and slots: the two limits count exactly the requests    *)
(* that hold a slot, and a request at Tesla has a vehicle.                 *)
(***************************************************************************)
EXTENDS ApiServer, FiniteSetTheorems, WellFoundedInduction, TLAPS

Holders   == {r \in Requests : req[r].slot}
DataOf(i) == {r \in Requests : req[r].st = "data" /\ req[r].at = i}

(* Both limits count sets that stay finite.                                *)
SlotInv ==
  /\ IsFiniteSet(Holders)
  /\ \A i \in Entries : IsFiniteSet(DataOf(i))
  /\ SlotsAccounted

(* What main's loop and the task of an entry have done.  A task reads the  *)
(* loop variable once its entry has been reached, so never an earlier one. *)
TaskOf(i) ==
  /\ i > loop => api[i] = "none"
  /\ api[i] \in {"fetching", "ready"} => asks[i] >= i
  /\ value[i] # 0 => value[i] = asks[i] /\ Vehicles[value[i]] \in Account
                     /\ api[i] \in {"fetching", "ready"}
  /\ api[i] = "ready" => value[i] # 0

TaskInv ==
  /\ main # "loop" => loop = Len(Vehicles)
  /\ \A i \in Entries : TaskOf(i)

(* A request takes its slot in the limiter; one that waits has an entry to *)
(* wait for, and one at Tesla holds a slot of an entry whose vehicle is    *)
(* known.                                                                  *)
RequestOf(r) ==
  /\ req[r].st # "new" => main \in {"run", "exit"}
  /\ req[r].at # 0 <=> req[r].st = "data"
  /\ req[r].slot => req[r].st \notin {"new", "limit"}
  /\ req[r].st = "wait" => \E i \in Entries : Match(r, i)
  /\ req[r].st = "data" => api[req[r].at] = "ready"

RequestInv == \A r \in Requests : RequestOf(r)

IInv == TypeOK /\ SlotInv /\ TaskInv /\ RequestInv

-----------------------------------------------------------------------------
LEMMA EntryType == Len(Vehicles) \in Nat /\ (\A i \in Entries : i \in Nat /\ i >= 1 /\ i <= Len(Vehicles))
  BY ApiAssumption DEF Entries

LEMMA BlankType ==
  ASSUME NEW st \in {"new", "done"}
  PROVE  /\ Blank(st) \in Request /\ Blank(st).st = st
         /\ Blank(st).at = 0 /\ ~Blank(st).slot
<1>1. 0 \in 0..Len(Vehicles)
  BY EntryType
<1>2. TRUE \in BOOLEAN /\ FALSE \in BOOLEAN
  BY Zenon
<1>3. QED
  BY <1>1, <1>2 DEF Blank, Request, Kinds

LEMMA IInvInit == Init => IInv
<1> SUFFICES ASSUME Init PROVE IInv
  OBVIOUS
<1>0. \A r \in Requests : req[r] = Blank("new")
  BY DEF Init
<1>1. TypeOK
  <2>1. req \in [Requests -> Request]
    BY BlankType DEF Init
  <2>2. QED
    BY <2>1, ApiAssumption, EntryType DEF Init, TypeOK
<1>2. Holders = {} /\ \A i \in Entries : DataOf(i) = {}
  BY <1>0, BlankType DEF Holders, DataOf
<1>3. SlotInv
  <2>1. SlotsAccounted
    BY <1>2, FS_EmptySet DEF SlotsAccounted, Holders, DataOf, Init
  <2>2. QED
    BY <1>2, <2>1, FS_EmptySet DEF SlotInv
<1>4. TaskInv
  BY DEF Init, TaskInv, TaskOf
<1>5. RequestInv
  BY <1>0, BlankType DEF RequestInv, RequestOf
<1>6. QED
  BY <1>1, <1>3, <1>4, <1>5 DEF IInv

-----------------------------------------------------------------------------
(* The entry lo.Find returns is well defined: some match is the first.     *)

LEMMA Least ==
  ASSUME NEW T, T \subseteq Nat, T # {} PROVE \E m \in T : \A n \in T : m <= n
<1>1. PICK m \in T : \A n \in T : ~(<<n, m>> \in OpToRel(<, Nat))
  BY NatLessThanWellFounded, WFMin, Zenon
<1>2. \A n \in T : n \in Nat /\ m \in Nat /\ ~(n < m)
  BY <1>1 DEF OpToRel
<1>3. QED
  BY <1>2

LEMMA EntryFound ==
  ASSUME NEW r \in Requests, \E i \in Entries : Match(r, i)
  PROVE  EntryOf(r) \in Entries
<1> DEFINE T == {i \in Entries : Match(r, i)}
<1>1. T \subseteq Nat /\ T # {}
  BY EntryType
<1> HIDE DEF T
<1>2. PICK m \in T : \A n \in T : m <= n
  BY <1>1, Least
<1>3. m \in Entries /\ Match(r, m) /\ \A j \in 1..(m - 1) : ~Match(r, j)
  <2>1. m \in Entries /\ Match(r, m)
    BY DEF T
  <2>2. ASSUME NEW j \in 1..(m - 1) PROVE ~Match(r, j)
    <3>1. j \in Entries /\ ~(m <= j)
      BY <2>1, <2>2, EntryType DEF Entries
    <3>2. QED
      BY <1>2, <3>1 DEF T
  <2>3. QED
    BY <2>1, <2>2
<1>4. QED
  BY <1>3 DEF EntryOf

-----------------------------------------------------------------------------
(* The tasks.  No request is touched.                                      *)

LEMMA TaskSlots ==
  ASSUME IInv, UNCHANGED <<sem, vsem, req>> PROVE SlotInv'
<1>1. Holders' = Holders /\ \A i \in Entries : DataOf(i)' = DataOf(i)
  BY DEF Holders, DataOf
<1>2. SlotsAccounted'
  BY DEF IInv, SlotInv, SlotsAccounted
<1>3. QED
  BY <1>1, <1>2 DEF IInv, SlotInv

LEMMA NewVehicleApiStep == ASSUME IInv, NewVehicleApi PROVE IInv'
<1> USE DEF NewVehicleApi
<1>1. loop \in Nat /\ loop' = loop + 1 /\ loop' \in Entries /\ main = "loop" /\ main' = main
  BY EntryType DEF IInv, TypeOK, Entries
<1>2. PICK a \in {"spawned", "nil"} : api' = [api EXCEPT ![loop'] = a]
  OBVIOUS
<1>3. TypeOK'
  BY <1>1, <1>2, EntryType DEF IInv, TypeOK, Entries
<1>4. TaskInv'
  <2> SUFFICES ASSUME NEW i \in Entries PROVE TaskOf(i)'
    BY <1>1 DEF TaskInv
  <2>1. TaskOf(i) /\ TaskOf(loop + 1)
    BY <1>1 DEF IInv, TaskInv
  <2>2. api[loop + 1] = "none"
    BY <1>1, <2>1 DEF TaskOf
  <2>3. CASE i = loop + 1
    BY <1>1, <1>2, <2>1, <2>2, <2>3 DEF TaskOf, IInv, TypeOK
  <2>4. CASE i # loop + 1
    BY <1>1, <1>2, <2>1, <2>4, EntryType DEF TaskOf, IInv, TypeOK
  <2>5. QED
    BY <2>3, <2>4
<1>5. RequestInv'
  <2>1. \A r \in Requests : req[r].st = "new"
    BY <1>1 DEF IInv, RequestInv, RequestOf
  <2>2. QED
    BY <2>1 DEF IInv, RequestInv, RequestOf
<1>6. QED
  BY <1>3, <1>4, <1>5, TaskSlots DEF IInv

LEMMA TaskSteps == ASSUME IInv, NEW i \in Entries, TaskStep(i) PROVE IInv'
<1> USE DEF TaskStep, TaskStarts, Fetched, TaskReady
<1>0. UNCHANGED <<loop, main, sem, vsem, req>>
  OBVIOUS
<1>1. TypeOK'
  BY EntryType DEF IInv, TypeOK
<1>2. TaskInv'
  <2> SUFFICES ASSUME NEW j \in Entries PROVE TaskOf(j)'
    BY <1>0 DEF IInv, TaskInv
  <2>1. TaskOf(i) /\ TaskOf(j) /\ loop \in Nat /\ i \in Nat
    BY EntryType DEF IInv, TaskInv, TypeOK
  <2>2. CASE TaskStarts(i)
    <3>1. i <= loop
      BY <2>1, <2>2 DEF TaskOf
    <3>2. value[i] = 0
      BY <2>1, <2>2 DEF TaskOf
    <3>3. QED
      BY <2>1, <2>2, <3>1, <3>2 DEF IInv, TypeOK, TaskOf
  <2>3. CASE Fetched(i)
    BY <2>1, <2>3 DEF IInv, TypeOK, TaskOf
  <2>4. CASE TaskReady(i)
    BY <2>1, <2>4 DEF IInv, TypeOK, TaskOf
  <2>5. QED
    BY <2>2, <2>3, <2>4
<1>3. RequestInv'
  <2> SUFFICES ASSUME NEW r \in Requests PROVE RequestOf(r)'
    BY DEF RequestInv
  <2>1. RequestOf(r)
    BY DEF IInv, RequestInv
  <2>2. \A j \in Entries : (api[j] = "nil" <=> api'[j] = "nil")
                           /\ (api[j] = "ready" => api'[j] = "ready")
    BY DEF IInv, TypeOK
  <2>3. \A j \in Entries : Match(r, j) => Match(r, j)'
    BY <1>0, <2>2, EntryType DEF Match, Entries
  <2>4. req[r].st = "data" => req[r].at \in Entries
    BY <2>1, EntryType DEF RequestOf, IInv, TypeOK, Request, Entries
  <2>5. QED
    BY <1>0, <2>1, <2>2, <2>3, <2>4 DEF RequestOf
<1>4. QED
  BY <1>0, <1>1, <1>2, <1>3, TaskSlots DEF IInv

LEMMA RunStep == ASSUME IInv, Run PROVE IInv'
<1> USE DEF Run
<1>1. TypeOK'
  BY DEF IInv, TypeOK
<1>2. TaskInv'
  BY DEF IInv, TaskInv, TaskOf
<1>3. RequestInv'
  <2>1. \A r \in Requests : req[r].st = "new"
    BY DEF IInv, RequestInv, RequestOf
  <2>2. QED
    BY <2>1 DEF IInv, RequestInv, RequestOf
<1>4. QED
  BY <1>1, <1>2, <1>3, TaskSlots DEF IInv

-----------------------------------------------------------------------------
(* The requests.  No task is touched; q is the request's next record.      *)

LEMMA SameTasks == ASSUME IInv, UNCHANGED <<loop, api, asks, value>>,
                          UNCHANGED main \/ main = "run" PROVE TaskInv'
  BY DEF IInv, TaskInv, TaskOf

LEMMA NextRequest ==
  ASSUME IInv, NEW r \in Requests, NEW q \in Request, req' = [req EXCEPT ![r] = q]
  PROVE  /\ req' \in [Requests -> Request] /\ req'[r] = q
         /\ \A s \in Requests : s # r => req'[s] = req[s]
  BY DEF IInv, TypeOK

LEMMA OtherRequests ==
  ASSUME IInv, NEW r \in Requests, NEW q \in Request, req' = [req EXCEPT ![r] = q],
         UNCHANGED <<main, api>>, RequestOf(r)'
  PROVE  RequestInv'
<1> SUFFICES ASSUME NEW s \in Requests, s # r PROVE RequestOf(s)'
  BY DEF RequestInv
<1>1. req'[s] = req[s]
  BY NextRequest
<1>2. \A i \in Entries : Match(s, i) => Match(s, i)'
  BY <1>1 DEF Match
<1>3. QED
  BY <1>1, <1>2 DEF IInv, RequestInv, RequestOf

(* A request goes on, without a slot more or less.                         *)
LEMMA MoveStep ==
  ASSUME IInv, main = "run", NEW r \in Requests, NEW q \in Request, req' = [req EXCEPT ![r] = q],
         UNCHANGED <<vehicleVars, sem, vsem>>,
         req[r].st # "data", q.st \notin {"data", "new"}, q.at = req[r].at, q.slot = req[r].slot,
         q.st = "limit" => req[r].st = "new",
         q.st = "wait" => \E i \in Entries : Match(r, i)'
  PROVE  IInv'
<1> USE DEF vehicleVars
<1>1. /\ req' \in [Requests -> Request] /\ req'[r] = q
      /\ \A s \in Requests : s # r => req'[s] = req[s]
  BY NextRequest
<1>2. TypeOK'
  BY <1>1 DEF IInv, TypeOK
<1>3. RequestInv'
  <2>1. RequestOf(r)'
    BY <1>1 DEF IInv, RequestInv, RequestOf
  <2>2. QED
    BY <2>1, OtherRequests
<1>4. Holders' = Holders /\ \A i \in Entries : DataOf(i)' = DataOf(i)
  BY <1>1 DEF Holders, DataOf
<1>5. SlotInv'
  BY <1>4 DEF IInv, SlotInv, SlotsAccounted, Holders, DataOf
<1>6. QED
  BY <1>2, <1>3, <1>5, SameTasks DEF IInv

LEMMA GoStep ==
  ASSUME IInv, main = "run", NEW r \in Requests, req[r].st # "data",
         NEW st \in {"auth", "run", "wait", "rt", "ip", "kexec"}, Go(r, st),
         UNCHANGED <<vehicleVars, sem, vsem>>,
         st = "wait" => \E i \in Entries : Match(r, i)
  PROVE  IInv'
<1> DEFINE q == [req[r] EXCEPT !.st = st]
<1>1. /\ req[r] \in Request /\ q \in Request /\ q.st = st /\ q.at = req[r].at
      /\ q.slot = req[r].slot /\ q.vin = req[r].vin
  BY DEF IInv, TypeOK, Request
<1>2. req' = [req EXCEPT ![r] = q]
  BY DEF Go, IInv, TypeOK
<1> HIDE DEF q
<1>3. st = "wait" => \E i \in Entries : Match(r, i)'
  BY <1>1, <1>2, NextRequest DEF Match, vehicleVars
<1>4. QED
  BY <1>1, <1>2, <1>3, MoveStep

(* The end of a request gives back what it held.                           *)
LEMMA FinishStep ==
  ASSUME IInv, main = "run", NEW r \in Requests, req[r].st # "new", Finish(r), UNCHANGED vehicleVars
  PROVE  IInv'
<1> DEFINE q == Blank("done")
<1>1. q \in Request /\ q.st = "done" /\ q.at = 0 /\ ~q.slot
  BY BlankType
<1>2. req' = [req EXCEPT ![r] = q]
  BY DEF Finish
<1> HIDE DEF q
<1>3. /\ req' \in [Requests -> Request] /\ req'[r] = q
      /\ \A s \in Requests : s # r => req'[s] = req[s]
  BY <1>1, <1>2, NextRequest
<1>4. RequestInv'
  <2>1. RequestOf(r)'
    BY <1>1, <1>3 DEF RequestOf, vehicleVars
  <2>2. QED
    BY <1>1, <1>2, <2>1, OtherRequests DEF vehicleVars
<1>5. IsFiniteSet(Holders') /\ sem' = Cardinality(Holders') /\ sem' \in 0..Limit
  <2>1. Holders' = Holders \ {r} /\ (r \in Holders <=> req[r].slot)
    BY <1>1, <1>3 DEF Holders
  <2>2. IsFiniteSet(Holders) /\ sem = Cardinality(Holders) /\ sem \in 0..Limit
    BY DEF IInv, TypeOK, SlotInv, SlotsAccounted, Holders
  <2>3. IsFiniteSet(Holders') /\ Cardinality(Holders') \in Nat
        /\ Cardinality(Holders') = IF r \in Holders THEN sem - 1 ELSE sem
    BY <2>1, <2>2, FS_RemoveElement, FS_CardinalityType
  <2>4. QED
    BY <2>1, <2>2, <2>3, ApiAssumption DEF Finish
<1>6. ASSUME NEW i \in Entries
      PROVE  IsFiniteSet(DataOf(i)') /\ vsem'[i] = Cardinality(DataOf(i)') /\ vsem'[i] \in 0..VehicleCap
  <2>1. DataOf(i)' = DataOf(i) \ {r} /\ (r \in DataOf(i) <=> req[r].at = i)
    BY <1>1, <1>3, EntryType DEF DataOf, IInv, RequestInv, RequestOf
  <2>2. IsFiniteSet(DataOf(i)) /\ vsem[i] = Cardinality(DataOf(i)) /\ vsem[i] \in 0..VehicleCap
    BY DEF IInv, TypeOK, SlotInv, SlotsAccounted, DataOf
  <2>3. IsFiniteSet(DataOf(i)') /\ Cardinality(DataOf(i)') \in Nat
        /\ Cardinality(DataOf(i)') = IF r \in DataOf(i) THEN vsem[i] - 1 ELSE vsem[i]
    BY <2>1, <2>2, FS_RemoveElement, FS_CardinalityType
  <2>4. vsem'[i] = IF req[r].at = i THEN vsem[i] - 1 ELSE vsem[i]
    BY DEF Finish
  <2>5. QED
    BY <2>1, <2>2, <2>3, <2>4, ApiAssumption
<1>7. SlotInv'
  BY <1>5, <1>6 DEF SlotInv, SlotsAccounted, Holders, DataOf
<1>8. TypeOK'
  <2>1. vsem' \in [Entries -> 0..VehicleCap]
    <3>1. DOMAIN vsem' = Entries /\ vsem' = [i \in Entries |-> vsem'[i]]
      BY DEF Finish
    <3>2. QED
      BY <1>6, <3>1
  <2>2. QED
    BY <1>3, <1>5, <2>1 DEF IInv, TypeOK, vehicleVars
<1>9. QED
  BY <1>4, <1>7, <1>8, SameTasks DEF IInv, vehicleVars

(* A slot of the first limit is taken.                                     *)
LEMMA TakeSlotStep ==
  ASSUME IInv, main = "run", NEW r \in Requests, req[r].st = "limit", ~req[r].slot, sem < Limit,
         sem' = sem + 1, req' = [req EXCEPT ![r].st = "auth", ![r].slot = TRUE],
         UNCHANGED <<vehicleVars, vsem>>
  PROVE  IInv'
<1> DEFINE q == [req[r] EXCEPT !.st = "auth", !.slot = TRUE]
<1>0. TRUE \in BOOLEAN
  BY Zenon
<1>1. q \in Request /\ q.st = "auth" /\ q.at = req[r].at /\ q.slot
  BY <1>0 DEF IInv, TypeOK, Request
<1>2. req' = [req EXCEPT ![r] = q]
  BY DEF IInv, TypeOK
<1> HIDE DEF q
<1>3. /\ req' \in [Requests -> Request] /\ req'[r] = q
      /\ \A s \in Requests : s # r => req'[s] = req[s]
  BY <1>1, <1>2, NextRequest
<1>4. RequestInv'
  <2>1. RequestOf(r)'
    BY <1>1, <1>3 DEF IInv, RequestInv, RequestOf, vehicleVars
  <2>2. QED
    BY <1>1, <1>2, <2>1, OtherRequests DEF vehicleVars
<1>5. r \notin Holders /\ Holders' = Holders \cup {r} /\ \A i \in Entries : DataOf(i)' = DataOf(i)
  BY <1>1, <1>3 DEF Holders, DataOf
<1>6. IsFiniteSet(Holders') /\ Cardinality(Holders') = Cardinality(Holders) + 1
  BY <1>5, FS_AddElement DEF IInv, SlotInv
<1>7. SlotInv'
  BY <1>5, <1>6 DEF IInv, SlotInv, SlotsAccounted, Holders, DataOf
<1>8. TypeOK'
  BY <1>3, ApiAssumption DEF IInv, TypeOK, vehicleVars
<1>9. QED
  BY <1>4, <1>7, <1>8, SameTasks DEF IInv, vehicleVars

(* A slot of the entry is taken.                                           *)
LEMMA TakeEntryStep ==
  ASSUME IInv, main = "run", NEW r \in Requests, req[r].st = "wait", NEW i \in Entries,
         api[i] = "ready", vsem[i] < VehicleCap, vsem' = [vsem EXCEPT ![i] = @ + 1],
         req' = [req EXCEPT ![r].st = "data", ![r].at = i], UNCHANGED <<vehicleVars, sem>>
  PROVE  IInv'
<1> DEFINE q == [req[r] EXCEPT !.st = "data", !.at = i]
<1>1. q \in Request /\ q.st = "data" /\ q.at = i /\ q.slot = req[r].slot
  <2>1. i \in 0..Len(Vehicles)
    BY EntryType
  <2>2. req[r] \in Request
    BY DEF IInv, TypeOK
  <2>3. QED
    BY <2>1, <2>2 DEF Request
<1>2. req' = [req EXCEPT ![r] = q]
  BY DEF IInv, TypeOK
<1> HIDE DEF q
<1>3. /\ req' \in [Requests -> Request] /\ req'[r] = q
      /\ \A s \in Requests : s # r => req'[s] = req[s]
  BY <1>1, <1>2, NextRequest
<1>4. RequestInv'
  <2>1. RequestOf(r)'
    BY <1>1, <1>3, EntryType DEF IInv, RequestInv, RequestOf, vehicleVars
  <2>2. QED
    BY <1>1, <1>2, <2>1, OtherRequests DEF vehicleVars
<1>5. /\ Holders' = Holders /\ r \notin DataOf(i) /\ DataOf(i)' = DataOf(i) \cup {r}
      /\ \A j \in Entries : j # i => DataOf(j)' = DataOf(j)
  BY <1>1, <1>3 DEF Holders, DataOf
<1>6. IsFiniteSet(DataOf(i)') /\ Cardinality(DataOf(i)') = Cardinality(DataOf(i)) + 1
  BY <1>5, FS_AddElement DEF IInv, SlotInv
<1>7. SlotInv'
  <2>1. vsem'[i] = vsem[i] + 1 /\ \A j \in Entries : j # i => vsem'[j] = vsem[j]
    BY DEF IInv, TypeOK
  <2>2. vsem[i] = Cardinality(DataOf(i)) /\ \A j \in Entries : vsem[j] = Cardinality(DataOf(j))
    BY DEF IInv, SlotInv, SlotsAccounted, DataOf
  <2>3. \A j \in Entries : vsem'[j] = Cardinality(DataOf(j)') /\ IsFiniteSet(DataOf(j)')
    BY <1>5, <1>6, <2>1, <2>2 DEF IInv, SlotInv
  <2>4. sem' = Cardinality(Holders') /\ IsFiniteSet(Holders')
    BY <1>5 DEF IInv, SlotInv, SlotsAccounted, Holders
  <2>5. QED
    BY <2>3, <2>4 DEF SlotInv, SlotsAccounted, Holders, DataOf
<1>8. TypeOK'
  <2>1. vsem' \in [Entries -> 0..VehicleCap]
    BY ApiAssumption DEF IInv, TypeOK
  <2>2. QED
    BY <1>3, <2>1 DEF IInv, TypeOK, vehicleVars
<1>9. QED
  BY <1>4, <1>7, <1>8, SameTasks DEF IInv, vehicleVars

-----------------------------------------------------------------------------
(* The handlers.                                                           *)

LEMMA ArriveStep == ASSUME IInv, NEW r \in Requests, Arrive(r) PROVE IInv'
<1>1. PICK k \in Kinds, v \in Vins \cup {OtherVin} :
        req' = [req EXCEPT ![r].st = "limit", ![r].kind = k, ![r].vin = v]
  BY DEF Arrive
<1> DEFINE q == [req[r] EXCEPT !.st = "limit", !.kind = k, !.vin = v]
<1>2. q \in Request /\ q.st = "limit" /\ q.at = req[r].at /\ q.slot = req[r].slot
  BY DEF IInv, TypeOK, Request
<1>3. req' = [req EXCEPT ![r] = q]
  BY <1>1 DEF IInv, TypeOK
<1> HIDE DEF q
<1>4. QED
  BY <1>2, <1>3, MoveStep DEF Arrive

LEMMA ClientLeavesStep == ASSUME IInv, NEW r \in Requests, ClientLeaves(r) PROVE IInv'
<1> DEFINE q == [req[r] EXCEPT !.here = FALSE]
<1>0. FALSE \in BOOLEAN
  BY Zenon
<1>1. /\ q \in Request /\ q.st = req[r].st /\ q.at = req[r].at
      /\ q.slot = req[r].slot /\ q.vin = req[r].vin
  BY <1>0 DEF IInv, TypeOK, Request
<1>2. req' = [req EXCEPT ![r] = q]
  BY DEF ClientLeaves, IInv, TypeOK
<1> HIDE DEF q
<1>3. \E i \in Entries : Match(r, i)
  BY DEF ClientLeaves, IInv, RequestInv, RequestOf
<1>4. \E i \in Entries : Match(r, i)'
  BY <1>1, <1>2, <1>3, NextRequest DEF Match, ClientLeaves, vehicleVars
<1>5. QED
  BY <1>1, <1>2, <1>4, MoveStep DEF ClientLeaves

LEMMA LimiterStep == ASSUME IInv, NEW r \in Requests, Limiter(r) PROVE IInv'
<1>1. ~req[r].slot
  BY DEF Limiter, IInv, RequestInv, RequestOf
<1>2. CASE Go(r, "auth") /\ UNCHANGED sem
  BY <1>2, GoStep DEF Limiter
<1>3. CASE sem < Limit /\ sem' = sem + 1 /\ req' = [req EXCEPT ![r].st = "auth", ![r].slot = TRUE]
  BY <1>1, <1>3, TakeSlotStep DEF Limiter
<1>4. QED
  BY <1>2, <1>3 DEF Limiter

LEMMA BasicAuthStep == ASSUME IInv, NEW r \in Requests, BasicAuth(r) PROVE IInv'
<1>1. CASE Go(r, "run") /\ UNCHANGED <<sem, vsem>>
  BY <1>1, GoStep DEF BasicAuth
<1>2. CASE Finish(r)
  BY <1>2, FinishStep DEF BasicAuth
<1>3. QED
  BY <1>1, <1>2 DEF BasicAuth

LEMMA FindVehicleStep == ASSUME IInv, NEW r \in Requests, FindVehicle(r) PROVE IInv'
<1>1. CASE (\E i \in Entries : Match(r, i)) /\ Go(r, "wait") /\ UNCHANGED <<sem, vsem>>
  BY <1>1, GoStep DEF FindVehicle
<1>2. CASE Finish(r)
  BY <1>2, FinishStep DEF FindVehicle
<1>3. QED
  BY <1>1, <1>2 DEF FindVehicle

LEMMA VehicleReadyStep == ASSUME IInv, NEW r \in Requests, VehicleReady(r) PROVE IInv'
<1> DEFINE i == EntryOf(r)
<1>1. i \in Entries
  BY EntryFound DEF VehicleReady, IInv, RequestInv, RequestOf
<1>2. CASE /\ vsem[i] < VehicleCap /\ vsem' = [vsem EXCEPT ![i] = @ + 1]
           /\ req' = [req EXCEPT ![r].st = "data", ![r].at = i] /\ UNCHANGED sem
  <2>1. main = "run" /\ req[r].st = "wait" /\ api[i] = "ready" /\ UNCHANGED vehicleVars
    BY DEF VehicleReady
  <2> HIDE DEF i
  <2>2. QED
    BY <1>1, <1>2, <2>1, TakeEntryStep
<1>3. CASE Finish(r)
  BY <1>3, FinishStep DEF VehicleReady
<1>4. QED
  BY <1>2, <1>3 DEF VehicleReady

LEMMA ExtResetStep == ASSUME IInv, NEW r \in Requests, ExtReset(r) PROVE IInv'
<1>1. CASE Finish(r)
  BY <1>1, FinishStep DEF ExtReset
<1>2. CASE Go(r, "rt") /\ UNCHANGED <<sem, vsem>>
  BY <1>2, GoStep DEF ExtReset
<1>3. QED
  BY <1>1, <1>2 DEF ExtReset

(* debugCrash ends the process where the configuration allows it.          *)
LEMMA CrashStep == ASSUME IInv, NEW r \in Requests, Crash(r) PROVE IInv'
<1>1. CASE main' = "exit" /\ UNCHANGED <<sem, vsem, req>>
  <2> USE <1>1 DEF Crash
  <2>1. TypeOK'
    BY DEF IInv, TypeOK
  <2>2. RequestInv'
    BY DEF IInv, RequestInv, RequestOf, Match
  <2>3. TaskInv'
    BY SameTasks
  <2>4. QED
    BY <2>1, <2>2, <2>3, TaskSlots DEF IInv
<1>2. CASE Finish(r) /\ UNCHANGED main
  BY <1>2, FinishStep DEF Crash, vehicleVars
<1>3. QED
  BY <1>1, <1>2 DEF Crash

(* The steps that only pass a request on, and those that only end it.      *)
LEMMA PassingStep ==
  ASSUME IInv, NEW r \in Requests, PublicIp(r) \/ Kexec(r) PROVE IInv'
<1>1. CASE PublicIp(r)
  BY <1>1, GoStep DEF PublicIp
<1>2. CASE Kexec(r)
  BY <1>2, GoStep DEF Kexec
<1>3. QED
  BY <1>1, <1>2

LEMMA EndingStep ==
  ASSUME IInv, NEW r \in Requests, VehicleWaitEnds(r) \/ Immediate(r) \/ Answer(r) PROVE IInv'
<1>1. main = "run" /\ req[r].st # "new" /\ Finish(r) /\ UNCHANGED vehicleVars
  BY DEF VehicleWaitEnds, Immediate, Answer, VehicleData, RtAnswers, IpAnswers, KexecEnds
<1>2. QED
  BY <1>1, FinishStep

-----------------------------------------------------------------------------
LEMMA IInvNext == IInv /\ [Next]_vars => IInv'
<1> SUFFICES ASSUME IInv, [Next]_vars PROVE IInv'
  OBVIOUS
<1>1. CASE NewVehicleApi
  BY <1>1, NewVehicleApiStep
<1>2. CASE Run
  BY <1>2, RunStep
<1>3. CASE \E i \in Entries : TaskStep(i)
  BY <1>3, TaskSteps
<1>4. ASSUME NEW r \in Requests, Arrive(r) \/ ClientLeaves(r) \/ HandlerStep(r) \/ Answer(r)
      PROVE  IInv'
  <2>1. CASE HandlerStep(r)
    BY <2>1, LimiterStep, BasicAuthStep, FindVehicleStep, VehicleReadyStep, ExtResetStep,
       CrashStep, PassingStep, EndingStep DEF HandlerStep
  <2>2. QED
    BY <1>4, <2>1, ArriveStep, ClientLeavesStep, EndingStep
<1>5. CASE UNCHANGED vars
  <2> USE <1>5 DEF vars, vehicleVars
  <2>1. TypeOK'
    BY DEF IInv, TypeOK
  <2>2. TaskInv'
    BY SameTasks
  <2>3. RequestInv'
    BY DEF IInv, RequestInv, RequestOf, Match
  <2>4. QED
    BY <2>1, <2>2, <2>3, TaskSlots DEF IInv
<1>6. QED
  BY <1>1, <1>2, <1>3, <1>4, <1>5 DEF Next

(* The inductive invariant holds in every behaviour of the API server.     *)
THEOREM Invariant == Spec => []IInv
  BY IInvInit, IInvNext, PTL DEF Spec

(* The variables of http.go's server and of the Tesla clients keep their   *)
(* types: both limits stay within 0 and their capacities.                  *)
THEOREM TypeCorrect == Spec => []TypeOK
<1>1. IInv => TypeOK
  BY DEF IInv
<1>2. QED
  BY Invariant, <1>1, PTL

(* However requests end, the slots of the limit (http.go:88) and of every  *)
(* entry (http.go:249-255) count exactly the requests that hold one.       *)
THEOREM NoSlotLeaks == Spec => []SlotsAccounted
<1>1. IInv => SlotsAccounted
  BY DEF IInv, SlotInv
<1>2. QED
  BY Invariant, <1>1, PTL

(* A Data call has a vehicle of the account to ask, that of its entry or   *)
(* of a later one (main.go:53-55, http.go:243-259).                        *)
THEOREM VehicleIsKnown == Spec => []VehicleKnown
<1>1. IInv => VehicleKnown
  <2> SUFFICES ASSUME IInv, NEW r \in Requests, req[r].st = "data", NEW i, i = req[r].at
               PROVE  value[i] >= i /\ Vehicles[value[i]] \in Account
    BY DEF VehicleKnown
  <2>1. i \in Entries /\ api[i] = "ready"
    BY EntryType DEF IInv, TypeOK, Request, RequestInv, RequestOf, Entries
  <2>2. TaskOf(i)
    BY <2>1 DEF IInv, TaskInv
  <2>3. QED
    BY <2>1, <2>2 DEF TaskOf
<1>2. QED
  BY Invariant, <1>1, PTL
=============================================================================
