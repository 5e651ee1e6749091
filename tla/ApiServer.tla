----------------------------- MODULE ApiServer -----------------------------
(***************************************************************************)
(* The HTTP API of homegw-init (http.go): the concurrency limit, the       *)
(* routes and their handlers, and the Tesla clients they use               *)
(* (tesla-api/lib.go, concurrency/value_task.go), which main starts before *)
(* the server.  The kexec handler is the subject of HotUpgrade; here it    *)
(* is a request that may take for ever.                                    *)
(***************************************************************************)
EXTENDS Integers, Sequences, FiniteSets

CONSTANTS
  Vehicles,    \* config.TeslaApi: the sequence of configured VINs
  Account,     \* the VINs the Tesla account knows
  OtherVin,    \* a VIN that is not configured
  Requests,    \* requests to the API
  Limit,       \* concurrent requests (10 in the code)
  VehicleCap,  \* concurrent Data calls of an entry (MAX_CONCURRENCY, 3)
  ClientFails, \* may tesla.NewClient fail?
  AllowCrash   \* config.AllowCrash

Entries == 1..Len(Vehicles)
Vins    == {Vehicles[i] : i \in Entries}

ASSUME ApiAssumption ==
  /\ Vehicles \in Seq(Vins) /\ OtherVin \notin Vins
  /\ Limit \in Nat /\ VehicleCap \in Nat
  /\ ClientFails \in BOOLEAN /\ AllowCrash \in BOOLEAN

Kinds == {"vehicle_data", "ext_reset", "public_ip", "kill_dropbear", "panic", "crash", "kexec"}

VARIABLES
  loop,    \* the entry main's loop variable `vehicle` holds
  main,    \* "loop", "run" (in ApiServer.Run), "off" (Run failed), "exit"
  api,     \* api[i]: "none", "nil" (an error), "spawned", "fetching", "ready"
  asks,    \* asks[i]: the entry whose VIN the fetching goroutine of i read
  value,   \* value[i]: the entry of the vehicle its task found, or 0
  sem,     \* slots of the limit taken
  vsem,    \* vsem[i]: VehicleApi.Sem of entry i
  req      \* req[r]: a request, see Request

Request ==
  [st: {"new", "limit", "auth", "run", "wait", "data", "rt", "ip", "kexec", "done"},
   kind: Kinds, vin: Vins \cup {OtherVin},
   here: BOOLEAN,   \* the request's context is not done
   slot: BOOLEAN,   \* holds a slot of the limit
   at: 0..Len(Vehicles)]  \* the entry whose slot it holds

(* A request of which nothing is known, before it comes and once it ended. *)
Blank(st) == [st |-> st, kind |-> "kexec", vin |-> OtherVin, here |-> TRUE,
              slot |-> FALSE, at |-> 0]

vehicleVars == <<loop, main, api, asks, value>>
vars == <<vehicleVars, sem, vsem, req>>

Init ==
  /\ loop = 0 /\ main = "loop"
  /\ api = [i \in Entries |-> "none"]
  /\ asks = [i \in Entries |-> 0] /\ value = asks /\ vsem = asks
  /\ sem = 0
  /\ req = [r \in Requests |-> Blank("new")]

-----------------------------------------------------------------------------
(* The Tesla clients.                                                      *)

(* One iteration of main's loop.  NewVehicleApi is given the address of    *)
(* the loop variable; an error is logged and the nil entry kept.           *)
NewVehicleApi ==
  /\ main = "loop" /\ loop < Len(Vehicles)
  /\ loop' = loop + 1
  /\ \/ api' = [api EXCEPT ![loop'] = "spawned"]
     \/ ClientFails /\ api' = [api EXCEPT ![loop'] = "nil"]
  /\ UNCHANGED <<main, asks, value, sem, vsem, req>>

(* The task's goroutine starts, and reads the VIN through that address:    *)
(* the loop, with its one variable, may have gone on by then.  A read      *)
(* during the assignment yields the old VIN or the new: all are equally    *)
(* long.                                                                   *)
TaskStarts(i) ==
  /\ main # "exit" /\ api[i] = "spawned"
  /\ api' = [api EXCEPT ![i] = "fetching"] /\ asks' = [asks EXCEPT ![i] = loop]
  /\ UNCHANGED <<loop, main, value, sem, vsem, req>>

(* Mutant: the channel is closed before the value is there.                *)
TaskReady_Early(i) ==
  /\ main # "exit" /\ api[i] = "fetching"
  /\ api' = [api EXCEPT ![i] = "ready"]
  /\ UNCHANGED <<loop, main, asks, value, sem, vsem, req>>

(* fetchVehicle tries until the account lists the VIN; every failure, and  *)
(* a list without it, is another try.  Then the channel is closed.         *)
Fetched(i) ==
  /\ main # "exit" /\ api[i] = "fetching" /\ Vehicles[asks[i]] \in Account
  /\ value' = [value EXCEPT ![i] = asks[i]]
  /\ UNCHANGED <<loop, main, api, asks, sem, vsem, req>>

TaskReady(i) ==
  /\ main # "exit" /\ api[i] = "fetching" /\ value[i] # 0
  /\ api' = [api EXCEPT ![i] = "ready"]
  /\ UNCHANGED <<loop, main, asks, value, sem, vsem, req>>

(* main starts the server after the loop; Run fails on a bad certificate.  *)
Run ==
  /\ main = "loop" /\ loop = Len(Vehicles)
  /\ main' \in {"run", "off"}
  /\ UNCHANGED <<loop, api, asks, value, sem, vsem, req>>

-----------------------------------------------------------------------------
(* Requests.                                                               *)

Go(r, st) == req' = [req EXCEPT ![r].st = st]

Arrive(r) ==
  /\ main = "run" /\ req[r].st = "new"
  /\ \E k \in Kinds, v \in Vins \cup {OtherVin} :
       /\ k # "vehicle_data" => v = OtherVin
       /\ req' = [req EXCEPT ![r].st = "limit", ![r].kind = k, ![r].vin = v]
  /\ UNCHANGED <<vehicleVars, sem, vsem>>

(* The client leaves; that it did so is looked at while waiting.           *)
ClientLeaves(r) ==
  /\ main = "run" /\ req[r].st = "wait" /\ req[r].here
  /\ req' = [req EXCEPT ![r].here = FALSE]
  /\ UNCHANGED <<vehicleVars, sem, vsem>>

(* The handler chain ends with some status, or with none when the client   *)
(* has left; deferred calls give the slots back, after a panic as well.    *)
Finish(r) ==
  /\ req' = [req EXCEPT ![r] = Blank("done")]
  /\ sem' = IF req[r].slot THEN sem - 1 ELSE sem
  /\ vsem' = [i \in Entries |-> IF req[r].at = i THEN vsem[i] - 1 ELSE vsem[i]]

(* Mutant: kexec is subject to the limit as well, which aborts the chain.  *)
Limiter_NoExemption(r) ==
  /\ main = "run" /\ req[r].st = "limit"
  /\ \/ /\ sem < Limit
        /\ sem' = sem + 1 /\ req' = [req EXCEPT ![r].st = "auth", ![r].slot = TRUE]
        /\ UNCHANGED vsem
     \/ sem = Limit /\ Finish(r)
  /\ UNCHANGED vehicleVars

(* kexec is exempt.  Without a slot the answer is 429, but the chain is    *)
(* not aborted: the handler runs all the same.                             *)
Limiter(r) ==
  /\ main = "run" /\ req[r].st = "limit"
  /\ \/ req[r].kind = "kexec" /\ Go(r, "auth") /\ UNCHANGED sem
     \/ /\ req[r].kind # "kexec" /\ sem < Limit
        /\ sem' = sem + 1 /\ req' = [req EXCEPT ![r].st = "auth", ![r].slot = TRUE]
     \/ /\ req[r].kind # "kexec" /\ sem = Limit
        /\ Go(r, "auth") /\ UNCHANGED sem
  /\ UNCHANGED <<vehicleVars, vsem>>

(* Credentials that do not belong to the route's scope end the chain.      *)
BasicAuth(r) ==
  /\ main = "run" /\ req[r].st = "auth"
  /\ \/ Go(r, "run") /\ UNCHANGED <<sem, vsem>>
     \/ Finish(r)
  /\ UNCHANGED vehicleVars

(* lo.Find reads the entries in order: a nil one before the match panics,  *)
(* which gin's Recovery answers with 500.                                  *)
Match(r, i) == Vehicles[i] = req[r].vin /\ \A j \in 1..i : api[j] # "nil"

FindVehicle(r) ==
  /\ main = "run" /\ req[r].st = "run" /\ req[r].kind = "vehicle_data"
  /\ \/ (\E i \in Entries : Match(r, i)) /\ Go(r, "wait") /\ UNCHANGED <<sem, vsem>>
     \/ ~(\E i \in Entries : Match(r, i)) /\ Finish(r)
  /\ UNCHANGED vehicleVars

EntryOf(r) == CHOOSE i \in Entries : Match(r, i) /\ \A j \in 1..(i - 1) : ~Match(r, j)

(* Mutant: a request over the limit gives back a slot it never took.       *)
VehicleReady_DeferFirst(r) ==
  /\ main = "run" /\ req[r].st = "wait" /\ api[EntryOf(r)] = "ready"
  /\ LET i == EntryOf(r) IN
     \/ /\ vsem[i] < VehicleCap
        /\ vsem' = [vsem EXCEPT ![i] = @ + 1]
        /\ req' = [req EXCEPT ![r].st = "data", ![r].at = i] /\ UNCHANGED sem
     \/ /\ vsem[i] = VehicleCap
        /\ req' = [req EXCEPT ![r] = Blank("done")] /\ vsem' = [vsem EXCEPT ![i] = @ - 1]
        /\ sem' = IF req[r].slot THEN sem - 1 ELSE sem
  /\ UNCHANGED vehicleVars

(* Mutant: one Data call more than there are slots.                        *)
VehicleReady_OneMore(r) ==
  /\ main = "run" /\ req[r].st = "wait" /\ api[EntryOf(r)] = "ready"
  /\ LET i == EntryOf(r) IN
     \/ /\ vsem[i] <= VehicleCap
        /\ vsem' = [vsem EXCEPT ![i] = @ + 1]
        /\ req' = [req EXCEPT ![r].st = "data", ![r].at = i] /\ UNCHANGED sem
     \/ vsem[i] > VehicleCap /\ Finish(r)
  /\ UNCHANGED vehicleVars

(* The vehicle is known: take one of the entry's slots, or answer 429.     *)
VehicleReady(r) ==
  /\ main = "run" /\ req[r].st = "wait" /\ api[EntryOf(r)] = "ready"
  /\ LET i == EntryOf(r) IN
     \/ /\ vsem[i] < VehicleCap
        /\ vsem' = [vsem EXCEPT ![i] = @ + 1]
        /\ req' = [req EXCEPT ![r].st = "data", ![r].at = i] /\ UNCHANGED sem
     \/ vsem[i] = VehicleCap /\ Finish(r)
  /\ UNCHANGED vehicleVars

(* Mutant: the wait ends only with the vehicle.                            *)
VehicleWaitEnds_OnlyReady(r) ==
  /\ main = "run" /\ req[r].st = "wait" /\ ~req[r].here /\ api[EntryOf(r)] = "ready"
  /\ Finish(r)
  /\ UNCHANGED vehicleVars

(* The other case of the select: the client has left.                      *)
VehicleWaitEnds(r) ==
  /\ main = "run" /\ req[r].st = "wait" /\ ~req[r].here
  /\ Finish(r)
  /\ UNCHANGED vehicleVars

VehicleData(r) ==
  /\ main = "run" /\ req[r].st = "data"
  /\ Finish(r)
  /\ UNCHANGED vehicleVars

(* debugExtReset: the request to homegw-rt is not tied to the client's.    *)
ExtReset(r) ==
  /\ main = "run" /\ req[r].st = "run" /\ req[r].kind = "ext_reset"
  /\ \/ Finish(r)
     \/ Go(r, "rt") /\ UNCHANGED <<sem, vsem>>
  /\ UNCHANGED vehicleVars

RtAnswers(r) ==
  /\ main = "run" /\ req[r].st = "rt"
  /\ Finish(r)
  /\ UNCHANGED vehicleVars

(* debugGetPublicIp: the request outside ends with the client's.           *)
PublicIp(r) ==
  /\ main = "run" /\ req[r].st = "run" /\ req[r].kind = "public_ip"
  /\ Go(r, "ip")
  /\ UNCHANGED <<vehicleVars, sem, vsem>>

IpAnswers(r) ==
  /\ main = "run" /\ req[r].st = "ip"
  /\ Finish(r)
  /\ UNCHANGED vehicleVars

(* debugKillDropbear and the panic route, which Recovery answers.          *)
Immediate(r) ==
  /\ main = "run" /\ req[r].st = "run" /\ req[r].kind \in {"kill_dropbear", "panic"}
  /\ Finish(r)
  /\ UNCHANGED vehicleVars

Crash(r) ==
  /\ main = "run" /\ req[r].st = "run" /\ req[r].kind = "crash"
  /\ IF AllowCrash THEN main' = "exit" /\ UNCHANGED <<sem, vsem, req>>
                   ELSE Finish(r) /\ UNCHANGED main
  /\ UNCHANGED <<loop, api, asks, value>>

Kexec(r) ==
  /\ main = "run" /\ req[r].st = "run" /\ req[r].kind = "kexec"
  /\ Go(r, "kexec")
  /\ UNCHANGED <<vehicleVars, sem, vsem>>

KexecEnds(r) ==
  /\ main = "run" /\ req[r].st = "kexec"
  /\ Finish(r)
  /\ UNCHANGED vehicleVars

-----------------------------------------------------------------------------
TaskStep(i) == TaskStarts(i) \/ Fetched(i) \/ TaskReady(i)

(* Steps of a handler, and the answers from outside that some wait for.    *)
HandlerStep(r) ==
  \/ Limiter(r) \/ BasicAuth(r) \/ FindVehicle(r) \/ VehicleReady(r) \/ VehicleWaitEnds(r)
  \/ ExtReset(r) \/ PublicIp(r) \/ Immediate(r) \/ Crash(r) \/ Kexec(r)

Answer(r) == VehicleData(r) \/ RtAnswers(r) \/ IpAnswers(r) \/ KexecEnds(r)

Next ==
  \/ NewVehicleApi \/ Run
  \/ \E i \in Entries : TaskStep(i)
  \/ \E r \in Requests : Arrive(r) \/ ClientLeaves(r) \/ HandlerStep(r) \/ Answer(r)

(* Goroutines run; no answer from outside is assumed to come, since none   *)
(* of the clients used has a timeout, and no fetch to succeed.             *)
Fairness == \A r \in Requests : WF_vars(HandlerStep(r))

Spec     == Init /\ [][Next]_vars
FairSpec == Spec /\ Fairness

-----------------------------------------------------------------------------
TypeOK ==
  /\ loop \in 0..Len(Vehicles)
  /\ main \in {"loop", "run", "off", "exit"}
  /\ api \in [Entries -> {"none", "nil", "spawned", "fetching", "ready"}]
  /\ asks \in [Entries -> 0..Len(Vehicles)] /\ value \in [Entries -> 0..Len(Vehicles)]
  /\ sem \in 0..Limit /\ vsem \in [Entries -> 0..VehicleCap]
  /\ req \in [Requests -> Request]

(* Through panics, refusals, bad credentials and clients that leave, the   *)
(* two limits count exactly the requests that hold a slot, so no slot is   *)
(* lost and no entry has more than VehicleCap calls at Tesla (http.go:88,  *)
(* 249-255).  What the first limit does for its requests is LimitEnforced. *)
SlotsAccounted ==
  /\ sem = Cardinality({r \in Requests : req[r].slot})
  /\ \A i \in Entries :
       vsem[i] = Cardinality({r \in Requests : req[r].st = "data" /\ req[r].at = i})

(* A Data call has a vehicle to ask, and it is the one of the entry asked  *)
(* for or of a later one: the task reads the loop variable (main.go:53-55) *)
(* at a time of its own, so for the last entry it is the right one.        *)
VehicleKnown ==
  \A r \in Requests : req[r].st = "data" =>
    LET i == req[r].at IN value[i] >= i /\ Vehicles[value[i]] \in Account

(* A request that waits for a vehicle the account may never list ends, and *)
(* gives its slot back, when its client leaves (http.go:245).              *)
WaitEnds ==
  \A r \in Requests : req[r].st = "wait" /\ ~req[r].here ~>
    (req[r].st # "wait" \/ main = "exit")

(* An upgrade request passes the limit, to be refused by nothing but its   *)
(* credentials, whatever other requests wait for and hold, for ever        *)
(* ("kexec is not subject to rate limiting", http.go:82).                  *)
KexecReached ==
  \A r \in Requests : req[r].st = "limit" /\ req[r].kind = "kexec" ~>
    (req[r].st = "auth" \/ main = "exit")

(* No more than Limit requests other than kexec are past the limit at one  *)
(* time ("max concurrency = 10", "reject requests above this",             *)
(* http.go:78-79).  It fails: the limit's answer does not end the chain    *)
(* (http.go:95), so the request it refuses is handled all the same.        *)
Handled == {r \in Requests : req[r].kind # "kexec" /\ req[r].st \notin {"new", "limit", "done"}}
LimitEnforced == Cardinality(Handled) <= Limit
=============================================================================
