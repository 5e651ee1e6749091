----------------------------- MODULE GpioServer -----------------------------
(***************************************************************************)
(* The real-time GPIO service of homegw-rt (rt_task/gpio_server.rs).       *)
(*                                                                         *)
(* HTTP handlers (tasks) call ext_reset: under an async mutex each puts a  *)
(* ReqPacket on the stack of a blocking thread, sends the packet's ADDRESS *)
(* through a datagram socket to the SCHED_DEADLINE server thread, sleeps   *)
(* on the packet's futex and reads the outcome from it.  The server thread *)
(* loops: raise the lines whose reset deadline has passed, then serve      *)
(* requests until the socket is empty or the loop's time budget is spent.  *)
(*                                                                         *)
(* A packet lives in a stack slot that is reused by later packets, so a    *)
(* server step that touches a packet whose task has returned is visible.   *)
(***************************************************************************)
EXTENDS Integers, FiniteSets, Sequences

CONSTANTS
  Tasks,       \* concurrent ext_reset calls
  PinConfig,   \* config.gpio.pins: pin name -> GpioPinConfig, see PinConfigType
  NumChips,    \* number of /dev/gpiochip<i> devices that open
  Slots,       \* stack slots a ReqPacket can occupy
  HeapCap,     \* capacity of reset_deadlines (8 in the code)
  Hold,        \* ResetReq.hold
  Budget,      \* time a loop iteration may spend on requests
  MaxGap,      \* longest time between two loop iterations (SCHED_DEADLINE)
  MaxTime,     \* BOUND: no request starts at or after this time
  IoctlFails,  \* may GPIO_V2_LINE_SET_VALUES_IOCTL fail on an output line?
  KmsgFails,   \* may a write to /dev/kmsg fail?
  NoTask       \* the mutex is free

PinConfigType ==
  [valid: BOOLEAN,       \* serde accepts the pin's JSON
   chip: Nat,
   free: BOOLEAN,        \* GPIO_V2_GET_LINE_IOCTL succeeds
   direction: {"in", "out"},
   initial_level: {"high", "low", "none"},
   function: {"ext_reset", "liveness_blink"}]

ASSUME GpioAssumption ==
  /\ PinConfig \in [DOMAIN PinConfig -> PinConfigType]
  /\ IsFiniteSet(DOMAIN PinConfig)
  /\ NumChips \in Nat
  /\ HeapCap \in Nat /\ Hold \in Nat \ {0} /\ Budget \in Nat
  /\ MaxGap \in Nat \ {0} /\ MaxTime \in Nat
  /\ IoctlFails \in BOOLEAN /\ KmsgFails \in BOOLEAN
  /\ NoTask \notin Tasks

Pins == DOMAIN PinConfig

(* Operator::new: the pins whose line is opened, by function, and the      *)
(* level requested for it (default_value is 0 unless initial_level = high).*)
Opened(p) ==
  /\ PinConfig[p].valid
  /\ PinConfig[p].chip < NumChips
  /\ PinConfig[p].free

Lines == {p \in Pins : Opened(p) /\ PinConfig[p].function = "ext_reset"}

BlinkLines == {p \in Pins : Opened(p) /\ PinConfig[p].function = "liveness_blink"}

DefaultValue(p) == IF PinConfig[p].initial_level = "high" THEN 1 ELSE 0

(* Setting a value fails for certain on a line opened as an input.         *)
CanSet(p)     == PinConfig[p].direction = "out"
CanFailSet(p) == IoctlFails \/ PinConfig[p].direction = "in"

VARIABLES
  clock,           \* Instant::now()
  \* --- server thread ---
  srv,             \* where the server thread is
  alive,           \* FALSE once the server thread has started to panic
  now,             \* the Instant read at the top of the current iteration
  cur,             \* the packet being served: an address, i.e. a slot
  reset_deadlines, \* BinaryHeap of (Instant, line), at most HeapCap entries
  loopcnt,         \* iteration counter modulo 2, the level of blink lines
  level,           \* level[l] of every external reset line
  \* --- tasks and what they share with the server ---
  task,            \* task[t]: where the ext_reset call t is
  pin,             \* pin[t]: its argument
  slot,            \* slot[t]: where its ReqPacket is
  reply,           \* reply[t]: outcome of its last call
  mutex,           \* GpioService.requests: the task holding it, or NoTask
  rx,              \* addresses in flight in the datagram socket
  mem,             \* mem[s]: the ReqPacket bytes in slot s (stale when free)
  \* --- history, read by the properties only ---
  driven,          \* lines pulled low by a request and not raised since
  lowSince,        \* when the line was last pulled low
  unreleased,      \* lines whose release ioctl failed
  drove            \* tasks whose current call pulled its line low

serverVars  == <<srv, alive, now, cur, reset_deadlines, loopcnt>>
taskVars    == <<task, pin, slot, reply, mutex>>
historyVars == <<driven, lowSince, unreleased, drove>>
vars == <<clock, serverVars, level, taskVars, rx, mem, historyVars>>

Entry  == [at: Nat, line: Lines]
Packet == [pin: Pins, success: BOOLEAN, completion: {0, 1}]

(* A packet exists from the send until its task has seen completion = 1.   *)
Waiting == {"check", "wait", "sleep"}
Live(s) == \E t \in Tasks : task[t] \in Waiting /\ slot[t] = s

InReset(l) == \E e \in reset_deadlines : e.line = l

Init ==
  /\ clock = 0
  /\ srv = "yield" /\ alive = TRUE /\ now = 0
  /\ cur \in Slots
  /\ reset_deadlines = {}
  /\ loopcnt = 0
  /\ level = [l \in Lines |-> DefaultValue(l)]
  /\ task = [t \in Tasks |-> "idle"]
  /\ pin \in [Tasks -> Pins]
  /\ slot \in [Tasks -> Slots]
  /\ reply = [t \in Tasks |-> "none"]
  /\ mutex = NoTask
  /\ rx = <<>>
  /\ mem \in [Slots -> [pin: Pins, success: {FALSE}, completion: {0}]]
  /\ driven = {} /\ unreleased = {} /\ drove = {}
  /\ lowSince = [l \in Lines |-> 0]

-----------------------------------------------------------------------------
(* Time.  The SCHED_DEADLINE reservation runs the server thread again      *)
(* within MaxGap.  Past MaxTime the clock only runs to let resets end.     *)
Tick ==
  /\ clock < MaxTime \/ (srv # "dead" /\ reset_deadlines # {})
  /\ srv # "dead" => clock - now < MaxGap
  /\ clock' = clock + 1
  /\ UNCHANGED <<serverVars, level, taskVars, rx, mem, historyVars>>

-----------------------------------------------------------------------------
(* The server thread.                                                      *)

(* Mutant: the blink lines get the counter itself, not its parity.         *)
LoopTop_NoParity ==
  /\ srv = "yield"
  /\ srv' = "release"
  /\ now' = clock
  /\ loopcnt' = loopcnt + 1
  /\ UNCHANGED <<clock, alive, cur, reset_deadlines, level, taskVars, rx, mem, historyVars>>

(* Mutant: `now` is read once, before the loop.                            *)
LoopTop_StaleNow ==
  /\ srv = "yield"
  /\ srv' = "release"
  /\ loopcnt' = (loopcnt + 1) % 2
  /\ UNCHANGED <<clock, alive, now, cur, reset_deadlines, level, taskVars, rx, mem, historyVars>>

(* sched_yield returns; `now` is read and every blink line is toggled.     *)
LoopTop ==
  /\ srv = "yield"
  /\ srv' = "release"
  /\ now' = clock
  /\ loopcnt' = (loopcnt + 1) % 2
  /\ UNCHANGED <<clock, alive, cur, reset_deadlines, level, taskVars, rx, mem, historyVars>>

(* Has the deadline of entry e passed?                                     *)
Due(e) == e.at <= now

(* Mutant: a Max heap.                                                     *)
Earliest_Max(e) == \A f \in reset_deadlines : e.at >= f.at

(* peek: an entry no other entry is earlier than.                          *)
Earliest(e) == \A f \in reset_deadlines : e.at <= f.at

(* An unwrap panics: the thread ends, its socket and its heap are dropped. *)
Die ==
  /\ srv' = "dead" /\ alive' = FALSE
  /\ rx' = <<>> /\ reset_deadlines' = {}

(* Mutant: the raised line stays in the heap.                              *)
Release_NoPop(e) ==
  /\ srv = "release"
  /\ Earliest(e) /\ Due(e)
  /\ level' = [level EXCEPT ![e.line] = 1]
  /\ driven' = driven \ {e.line}
  /\ UNCHANGED <<clock, serverVars, taskVars, rx, mem, lowSince, unreleased, drove>>

(* while let Some(..) = peek(): raise the line, log a failed ioctl, pop.   *)
Release(e) ==
  /\ srv = "release"
  /\ Earliest(e) /\ Due(e)
  /\ \/ /\ CanSet(e.line)
        /\ level' = [level EXCEPT ![e.line] = 1]
        /\ driven' = driven \ {e.line}
        /\ reset_deadlines' = reset_deadlines \ {e}
        /\ UNCHANGED <<srv, alive, rx, unreleased>>
     \/ /\ CanFailSet(e.line)
        /\ unreleased' = unreleased \cup {e.line}
        /\ UNCHANGED <<level, driven>>
        /\ \/ reset_deadlines' = reset_deadlines \ {e} /\ UNCHANGED <<srv, alive, rx>>
           \/ KmsgFails /\ Die
  /\ UNCHANGED <<clock, now, cur, loopcnt, taskVars, mem, lowSince, drove>>

ReleaseDone ==
  /\ srv = "release"
  /\ reset_deadlines = {} \/ \E e \in reset_deadlines : Earliest(e) /\ ~Due(e)
  /\ srv' = "serve"
  /\ UNCHANGED <<clock, alive, now, cur, reset_deadlines, loopcnt, level, taskVars, rx, mem,
                 historyVars>>

BudgetSpent == clock >= now + Budget

(* Leave the request loop: budget spent, or recv would block.              *)
ServeDone ==
  /\ srv = "serve"
  /\ BudgetSpent \/ rx = <<>>
  /\ srv' = "yield"
  /\ UNCHANGED <<clock, alive, now, cur, reset_deadlines, loopcnt, level, taskVars, rx, mem,
                 historyVars>>

Recv ==
  /\ srv = "serve"
  /\ ~BudgetSpent
  /\ rx # <<>>
  /\ cur' = Head(rx) /\ rx' = Tail(rx)
  /\ srv' = "handle"
  /\ UNCHANGED <<clock, alive, now, reset_deadlines, loopcnt, level, taskVars, mem, historyVars>>

(* `continue` without a reset: unknown pin, pin already in reset, or the   *)
(* ioctl failed.  The last two log to kmsg; a panic there unwinds through  *)
(* the packet's guard, which completes the packet as on any other path.    *)
Refuse ==
  /\ srv = "handle"
  /\ \/ mem[cur].pin \notin Lines /\ UNCHANGED alive
     \/ /\ mem[cur].pin \in Lines
        /\ InReset(mem[cur].pin) \/ CanFailSet(mem[cur].pin)
        /\ alive' \in {TRUE, ~KmsgFails}
  /\ srv' = "complete"
  /\ UNCHANGED <<clock, now, cur, reset_deadlines, loopcnt, level, taskVars, rx, mem, historyVars>>

(* Mutant: no check for a line that is already in reset.                   *)
Drive_InReset ==
  /\ srv = "handle"
  /\ mem[cur].pin \in Lines
  /\ level' = [level EXCEPT ![mem[cur].pin] = 0]
  /\ srv' = "push"
  /\ driven' = driven \cup {mem[cur].pin}
  /\ lowSince' = [lowSince EXCEPT ![mem[cur].pin] = clock]
  /\ unreleased' = unreleased \ {mem[cur].pin}
  /\ drove' = drove \cup {t \in Tasks : task[t] \in Waiting /\ slot[t] = cur}
  /\ UNCHANGED <<clock, alive, now, cur, reset_deadlines, loopcnt, taskVars, rx, mem>>

(* Pull the line low.                                                      *)
Drive ==
  /\ srv = "handle"
  /\ mem[cur].pin \in Lines
  /\ ~InReset(mem[cur].pin)
  /\ CanSet(mem[cur].pin)
  /\ level' = [level EXCEPT ![mem[cur].pin] = 0]
  /\ srv' = "push"
  /\ driven' = driven \cup {mem[cur].pin}
  /\ lowSince' = [lowSince EXCEPT ![mem[cur].pin] = clock]
  /\ unreleased' = unreleased \ {mem[cur].pin}
  /\ drove' = drove \cup {t \in Tasks : task[t] \in Waiting /\ slot[t] = cur}
  /\ UNCHANGED <<clock, alive, now, cur, reset_deadlines, loopcnt, taskVars, rx, mem>>

(* Mutant: the hold counts from the top of the iteration.                  *)
ResetDeadline_FromTop == now + Hold

(* The Instant the line is to be raised at.                                *)
ResetDeadline == clock + Hold

(* Schedule the release; the packet's success is whether the heap had room.*)
Push ==
  /\ srv = "push"
  /\ LET room == Cardinality(reset_deadlines) < HeapCap
     IN /\ reset_deadlines' =
             IF room THEN reset_deadlines \cup {[at |-> ResetDeadline, line |-> mem[cur].pin]}
                     ELSE reset_deadlines
        /\ mem' = [mem EXCEPT ![cur].success = room]
  /\ srv' = "complete"
  /\ UNCHANGED <<clock, alive, now, cur, loopcnt, level, taskVars, rx, historyVars>>

(* Drop of the guard, first half: completion.store(1).                     *)
Complete ==
  /\ srv = "complete"
  /\ mem' = [mem EXCEPT ![cur].completion = 1]
  /\ srv' = "wake"
  /\ UNCHANGED <<clock, alive, now, cur, reset_deadlines, loopcnt, level, taskVars, rx,
                 historyVars>>

(* Second half: FUTEX_WAKE on the address.  The packet's task may have     *)
(* returned already and another packet may be in the slot.                 *)
Wake ==
  /\ srv = "wake"
  /\ task' = [t \in Tasks |->
                IF task[t] = "sleep" /\ slot[t] = cur THEN "check" ELSE task[t]]
  /\ IF alive THEN srv' = "serve" /\ UNCHANGED <<alive, rx, reset_deadlines>> ELSE Die
  /\ UNCHANGED <<clock, now, cur, loopcnt, level, pin, slot, reply, mutex, mem, historyVars>>

-----------------------------------------------------------------------------
(* ext_reset calls.                                                        *)

Request(t, p) ==
  /\ task[t] = "idle"
  /\ clock < MaxTime
  /\ task' = [task EXCEPT ![t] = "lock"]
  /\ pin' = [pin EXCEPT ![t] = p]
  /\ reply' = [reply EXCEPT ![t] = "none"]
  /\ drove' = drove \ {t}
  /\ UNCHANGED <<clock, serverVars, level, slot, mutex, rx, mem, driven, lowSince, unreleased>>

(* The HTTP client goes away while the handler awaits the mutex.  Once the *)
(* blocking closure runs, a dropped handler no longer stops it.            *)
Cancel(t) ==
  /\ task[t] = "lock"
  /\ task' = [task EXCEPT ![t] = "idle"]
  /\ UNCHANGED <<clock, serverVars, level, pin, slot, reply, mutex, rx, mem, historyVars>>

Acquire(t) ==
  /\ task[t] = "lock"
  /\ mutex = NoTask
  /\ mutex' = t
  /\ task' = [task EXCEPT ![t] = "send"]
  /\ UNCHANGED <<clock, serverVars, level, pin, slot, reply, rx, mem, historyVars>>

(* Mutant: success unless the server says otherwise.                       *)
NewPacket_Optimistic(p) == [pin |-> p, success |-> TRUE, completion |-> 0]

NewPacket(p) == [pin |-> p, success |-> FALSE, completion |-> 0]

Send(t) ==
  /\ task[t] = "send"
  /\ srv # "dead"
  /\ \E s \in Slots :
       /\ ~Live(s)
       /\ slot' = [slot EXCEPT ![t] = s]
       /\ mem' = [mem EXCEPT ![s] = NewPacket(pin[t])]
       /\ rx' = Append(rx, s)
  /\ task' = [task EXCEPT ![t] = "check"]
  /\ UNCHANGED <<clock, serverVars, level, pin, reply, mutex, historyVars>>

(* The closure ends: the packet and then the mutex guard are dropped.      *)
Return(t, outcome) ==
  /\ task' = [task EXCEPT ![t] = "idle"]
  /\ reply' = [reply EXCEPT ![t] = outcome]
  /\ mutex' = NoTask
  /\ UNCHANGED <<clock, serverVars, level, pin, slot, rx, mem, historyVars>>

(* The server thread is gone: send(..).unwrap() panics, ext_reset errs.    *)
SendFails(t) ==
  /\ task[t] = "send"
  /\ srv = "dead"
  /\ Return(t, "failed")

(* while completion.load() == 0 ...                                        *)
Check(t) ==
  /\ task[t] = "check"
  /\ mem[slot[t]].completion = 0
  /\ task' = [task EXCEPT ![t] = "wait"]
  /\ UNCHANGED <<clock, serverVars, level, pin, slot, reply, mutex, rx, mem, historyVars>>

(* Mutant: the wait does not compare the value, so a wake can be lost.     *)
FutexWait_NoCompare(t) ==
  /\ task[t] = "wait"
  /\ task' = [task EXCEPT ![t] = "sleep"]
  /\ UNCHANGED <<clock, serverVars, level, pin, slot, reply, mutex, rx, mem, historyVars>>

(* ... { completion.wait(0) }: sleep only if the value is still 0.         *)
FutexWait(t) ==
  /\ task[t] = "wait"
  /\ task' = [task EXCEPT ![t] = IF mem[slot[t]].completion = 0 THEN "sleep" ELSE "check"]
  /\ UNCHANGED <<clock, serverVars, level, pin, slot, reply, mutex, rx, mem, historyVars>>

(* Mutant: the packet is taken for complete when the wait returns.         *)
Interrupt_Returns(t) ==
  /\ task[t] = "sleep"
  /\ Return(t, IF mem[slot[t]].success THEN "ok" ELSE "failed")

(* The wait may be interrupted; its result is ignored.                     *)
Interrupt(t) ==
  /\ task[t] = "sleep"
  /\ task' = [task EXCEPT ![t] = "check"]
  /\ UNCHANGED <<clock, serverVars, level, pin, slot, reply, mutex, rx, mem, historyVars>>

Finish(t) ==
  /\ task[t] = "check"
  /\ mem[slot[t]].completion = 1
  /\ Return(t, IF mem[slot[t]].success THEN "ok" ELSE "failed")

-----------------------------------------------------------------------------
Server ==
  \/ LoopTop
  \/ \E e \in reset_deadlines : Release(e)
  \/ ReleaseDone \/ ServeDone \/ Recv
  \/ Refuse \/ Drive \/ Push \/ Complete \/ Wake

Task(t) ==
  \/ Send(t) \/ SendFails(t) \/ Check(t) \/ FutexWait(t) \/ Finish(t)

Next ==
  \/ Tick
  \/ Server
  \/ \E t \in Tasks : Task(t) \/ Acquire(t) \/ Cancel(t) \/ Interrupt(t)
  \/ \E t \in Tasks, p \in Pins : Request(t, p)

Spec == Init /\ [][Next]_vars

(* The kernel runs the server thread and the blocking threads, time        *)
(* passes, and the tokio mutex serves its waiters in turn.  Clients are    *)
(* under no obligation to send or to stay.                                 *)
FairSpec ==
  /\ Spec
  /\ WF_vars(Tick)
  /\ WF_vars(Server)
  /\ \A t \in Tasks : WF_vars(Task(t)) /\ SF_vars(Acquire(t))
-----------------------------------------------------------------------------
(* Properties.                                                             *)

(* Every variable has its type; the heap never exceeds its fixed capacity  *)
(* (heapless::BinaryHeap<_, _, 8> of gpio_server_thread).                  *)
TypeOK ==
  /\ clock \in Nat /\ now \in Nat
  /\ srv \in {"yield", "release", "serve", "handle", "push", "complete", "wake", "dead"}
  /\ alive \in BOOLEAN
  /\ cur \in Slots
  /\ reset_deadlines \in SUBSET Entry /\ IsFiniteSet(reset_deadlines)
  /\ Cardinality(reset_deadlines) <= HeapCap
  /\ loopcnt \in {0, 1}
  /\ level \in [Lines -> {0, 1}]
  /\ task \in [Tasks -> {"idle", "lock", "send", "check", "wait", "sleep"}]
  /\ pin \in [Tasks -> Pins]
  /\ slot \in [Tasks -> Slots]
  /\ reply \in [Tasks -> {"none", "ok", "failed"}]
  /\ mutex \in Tasks \cup {NoTask}
  /\ rx \in Seq(Slots)
  /\ mem \in [Slots -> Packet]
  /\ driven \in SUBSET Lines /\ unreleased \in SUBSET Lines
  /\ lowSince \in [Lines -> Nat]
  /\ drove \in SUBSET Tasks

(* No use after free: every address in the socket, and the address the     *)
(* server dereferences until it has stored completion, is that of a packet *)
(* whose ext_reset call is still on its blocking thread's stack.           *)
PacketLive ==
  /\ \A i \in 1..Len(rx) : Live(rx[i])
  /\ srv \in {"handle", "push", "complete"} => Live(cur)

(* The answer tells the truth: a call is answered with success if and only *)
(* if it pulled its line low; a failed call left every line alone.         *)
ReplyMatchesEffect ==
  \A t \in Tasks :
    task[t] = "idle" /\ reply[t] # "none" => (reply[t] = "ok" <=> t \in drove)

(* No line is forgotten: while the server thread runs, a line a reset has  *)
(* pulled low has a pending deadline, or is about to get one, unless the   *)
(* ioctl that was to raise it failed.                                      *)
LowIsScheduled ==
  srv # "dead" =>
    \A l \in driven \ unreleased :
      InReset(l) \/ (srv = "push" /\ mem[cur].pin = l)

(* No line is held much longer than Hold: the deadline is taken at most    *)
(* one iteration after the line fell, noticed at most one iteration after  *)
(* it passed and acted on within that iteration.                           *)
HoldAtMost ==
  srv # "dead" =>
    \A l \in driven \ unreleased : clock - lowSince[l] <= Hold + 3 * MaxGap - 1

(* Each line behaves as ResetPulse says: low for at least Hold per reset,  *)
(* raised by nothing else.                                                 *)
Pulse == INSTANCE ResetPulse
PulseSpec == Pulse!Spec

(* A call that has the mutex is answered.                                  *)
Answered == \A t \in Tasks : task[t] = "send" ~> task[t] = "idle"

(* A line that a reset pulled low is raised again.                         *)
Released == \A l \in Lines : l \in driven ~> l \notin driven

(* The server loop never stalls, whatever the requests: the blink lines    *)
(* keep changing level.                                                    *)
Blinks == []<>(loopcnt = 0) /\ []<>(loopcnt = 1)
=============================================================================
