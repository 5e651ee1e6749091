-------------------------- MODULE GpioServerProofs --------------------------
(***************************************************************************)
(* Proofs about GpioServer, for any number of tasks, pins and stack slots. *)
(*                                                                         *)
(* The inductive invariant has five parts, each preserved by every step    *)
(* given the parts before it: TypeOK; PacketInv (who owns the packet in    *)
(* flight); HeapInv (what a pending deadline says about its line); and,    *)
(* when the heap can hold every line, ScheduleInv and ReplyInv.  TimeInv   *)
(* adds how late the server can be.                                        *)
(***************************************************************************)
EXTENDS GpioServer, FiniteSetTheorems, TLAPS

Busy == srv \in {"handle", "push", "complete"}

(* Only the holder of the mutex has a packet, and the address of a packet  *)
(* is in at most one place, the socket or the server, while its completion *)
(* is still 0.                                                             *)
PacketInv ==
  /\ \A t \in Tasks : task[t] \in {"send", "check", "wait", "sleep"} => mutex = t
  /\ \/ rx = <<>>
     \/ \E s \in Slots : rx = <<s>> /\ Live(s) /\ mem[s].completion = 0
  /\ Busy => rx = <<>> /\ Live(cur) /\ mem[cur].completion = 0

(* A line with a deadline is low, has only one, and was low for Hold when  *)
(* the deadline passes; the line about to get one is low and has none.     *)
HeapInv ==
  /\ now <= clock
  /\ \A l \in Lines : lowSince[l] <= clock
  /\ \A e \in reset_deadlines : e.line \in driven /\ e.at >= lowSince[e.line] + Hold
  /\ \A e, f \in reset_deadlines : e.line = f.line => e = f
  /\ srv = "push" =>
       mem[cur].pin \in Lines /\ mem[cur].pin \in driven /\ ~InReset(mem[cur].pin)

(* The heap can hold a deadline for every line.                            *)
HeapFits == Cardinality(Lines) <= HeapCap

(* What the packet says agrees with what was done for it.                  *)
Pending(t) == rx = <<slot[t]>> \/ (srv = "handle" /\ cur = slot[t])

(* For each call: it starts without effect and without an answer, what the *)
(* packet says at completion is what the call did, and so does the answer. *)
ReplyOf(t) ==
  /\ task[t] \in {"lock", "send"} => t \notin drove
  /\ task[t] # "idle" => reply[t] = "none"
  /\ task[t] = "idle" /\ reply[t] # "none" => (reply[t] = "ok" <=> t \in drove)
  /\ task[t] \in Waiting =>
       /\ Pending(t) => t \notin drove /\ ~mem[slot[t]].success
       /\ srv = "push" /\ cur = slot[t] => t \in drove
       /\ (srv = "complete" /\ cur = slot[t]) \/ mem[slot[t]].completion = 1
            => (mem[slot[t]].success <=> t \in drove)

ReplyInv == \A t \in Tasks : ReplyOf(t)

(* The server thread is never late by more than MaxGap.                    *)
TimeInv ==
  srv # "dead" =>
    /\ clock <= now + MaxGap
    /\ \A e \in reset_deadlines :
         /\ e.at <= lowSince[e.line] + MaxGap + Hold
         /\ IF srv = "release" THEN e.at > now - MaxGap ELSE e.at > now
    /\ srv = "push" => lowSince[mem[cur].pin] >= now

-----------------------------------------------------------------------------
(* Type correctness.                                                       *)

LEMMA LinesFinite == IsFiniteSet(Lines) /\ Lines \subseteq Pins
  BY FS_Subset, GpioAssumption DEF Lines, Pins

LEMMA EmptyRx == <<>> \in Seq(Slots)
  OBVIOUS

LEMMA OneNotEmpty == \A s \in Slots : <<s>> # <<>>
<1> TAKE s \in Slots
<1>1. Len(<<s>>) = 1 /\ Len(<<>>) = 0
  OBVIOUS
<1>2. QED
  BY <1>1

LEMMA DefaultValueType == \A p \in Pins : DefaultValue(p) \in {0, 1}
  BY DEF DefaultValue

LEMMA TypeInit == Init => TypeOK
<1> SUFFICES ASSUME Init PROVE TypeOK
  OBVIOUS
<1>1. IsFiniteSet({}) /\ Cardinality({}) = 0
  BY FS_EmptySet
<1>2. level \in [Lines -> {0, 1}]
  BY LinesFinite, DefaultValueType DEF Init
<1>3. mem \in [Slots -> Packet]
  BY DEF Init, Packet
<1>4. QED
  BY <1>1, <1>2, <1>3, GpioAssumption DEF Init, TypeOK

LEMMA TypeStep == TypeOK /\ HeapInv /\ [Next]_vars => TypeOK'
<1> SUFFICES ASSUME TypeOK, HeapInv, [Next]_vars PROVE TypeOK'
  OBVIOUS
<1> USE GpioAssumption
<1>1. CASE Tick
  BY <1>1 DEF TypeOK, Tick, serverVars, taskVars, historyVars
<1>2. CASE LoopTop
  BY <1>2 DEF TypeOK, LoopTop, taskVars, historyVars
<1>3. ASSUME NEW e \in reset_deadlines, Release(e) PROVE TypeOK'
  <2>1. /\ IsFiniteSet(reset_deadlines \ {e})
        /\ Cardinality(reset_deadlines \ {e}) = Cardinality(reset_deadlines) - 1
    BY FS_RemoveElement DEF TypeOK
  <2>2. IsFiniteSet({}) /\ Cardinality({}) = 0
    BY FS_EmptySet
  <2>3. Cardinality(reset_deadlines) \in Nat
    BY FS_CardinalityType DEF TypeOK
  <2>4. e.line \in Lines
    BY DEF TypeOK, Entry
  <2>5. /\ reset_deadlines' \in SUBSET Entry /\ IsFiniteSet(reset_deadlines')
        /\ Cardinality(reset_deadlines') <= HeapCap
    <3>1. reset_deadlines' = reset_deadlines \ {e} \/ reset_deadlines' = {}
      BY <1>3 DEF Release, Die
    <3>2. reset_deadlines \in SUBSET Entry /\ Cardinality(reset_deadlines) <= HeapCap
      BY DEF TypeOK
    <3>3. CASE reset_deadlines' = reset_deadlines \ {e}
      BY <3>3, <3>2, <2>1, <2>3
    <3>4. CASE reset_deadlines' = {}
      BY <3>4, <2>2
    <3>5. QED
      BY <3>1, <3>3, <3>4
  <2>6. /\ level' \in [Lines -> {0, 1}]
        /\ driven' \in SUBSET Lines /\ unreleased' \in SUBSET Lines
    BY <1>3, <2>4 DEF TypeOK, Release
  <2>7. \/ UNCHANGED <<srv, alive, rx>>
        \/ srv' = "dead" /\ alive' = FALSE /\ rx' = <<>>
    BY <1>3, Zenon DEF Release, Die
  <2>8. rx' \in Seq(Slots)
    BY <2>7, EmptyRx, Zenon DEF TypeOK
  <2>9. srv' \in {srv, "dead"} /\ alive' \in BOOLEAN
    BY <2>7 DEF TypeOK
  <2>10. QED
    BY <1>3, <2>5, <2>6, <2>8, <2>9 DEF TypeOK, Release, taskVars
<1>4. CASE ReleaseDone
  BY <1>4 DEF TypeOK, ReleaseDone, taskVars, historyVars
<1>5. CASE ServeDone
  BY <1>5 DEF TypeOK, ServeDone, taskVars, historyVars
<1>6. CASE Recv
  BY <1>6 DEF TypeOK, Recv, taskVars, historyVars
<1>7. CASE Refuse
  BY <1>7 DEF TypeOK, Refuse, taskVars, historyVars
<1>8. CASE Drive
  BY <1>8 DEF TypeOK, Drive, taskVars
<1>9. CASE Push
  <2> DEFINE x == [at |-> ResetDeadline, line |-> mem[cur].pin]
  <2>1. x \in Entry
    BY <1>9 DEF TypeOK, HeapInv, Push, Entry, ResetDeadline
  <2>2. /\ IsFiniteSet(reset_deadlines \cup {x})
        /\ Cardinality(reset_deadlines \cup {x}) \in
             {Cardinality(reset_deadlines), Cardinality(reset_deadlines) + 1}
    BY FS_AddElement DEF TypeOK
  <2>3. Cardinality(reset_deadlines) \in Nat
    BY FS_CardinalityType DEF TypeOK
  <2>4. /\ reset_deadlines' \in SUBSET Entry /\ IsFiniteSet(reset_deadlines')
        /\ Cardinality(reset_deadlines') <= HeapCap
    <3>1. CASE Cardinality(reset_deadlines) < HeapCap
      <4>1. reset_deadlines' = reset_deadlines \cup {x}
        BY <1>9, <3>1 DEF Push
      <4>2. QED
        BY <3>1, <4>1, <2>1, <2>2, <2>3 DEF TypeOK
    <3>2. CASE ~(Cardinality(reset_deadlines) < HeapCap)
      BY <1>9, <3>2 DEF TypeOK, Push
    <3>3. QED
      BY <3>1, <3>2
  <2>5. mem' \in [Slots -> Packet]
    <3>1. PICK room \in BOOLEAN : mem' = [mem EXCEPT ![cur].success = room]
      <4> DEFINE hasRoom == Cardinality(reset_deadlines) < HeapCap
      <4>1. hasRoom \in BOOLEAN /\ mem' = [mem EXCEPT ![cur].success = hasRoom]
        BY <1>9 DEF Push
      <4> HIDE DEF hasRoom
      <4>2. QED
        BY <4>1
    <3>2. QED
      BY <3>1 DEF TypeOK, Packet
  <2>6. QED
    BY <1>9, <2>4, <2>5 DEF TypeOK, Push, taskVars, historyVars
<1>10. CASE Complete
  BY <1>10 DEF TypeOK, Complete, Packet, taskVars, historyVars
<1>11. CASE Wake
  <2>1. IsFiniteSet({}) /\ Cardinality({}) = 0
    BY FS_EmptySet
  <2>2. task' \in [Tasks -> {"idle", "lock", "send", "check", "wait", "sleep"}]
    BY <1>11 DEF TypeOK, Wake
  <2>3. CASE alive
    BY <1>11, <2>2, <2>3 DEF TypeOK, Wake, historyVars
  <2>4. CASE ~alive
    <3>1. rx' = <<>> /\ reset_deadlines' = {} /\ srv' = "dead" /\ alive' = FALSE
      BY <1>11, <2>4 DEF Wake, Die
    <3>2. rx' \in Seq(Slots)
      BY <3>1, EmptyRx, Zenon
    <3>3. /\ reset_deadlines' \in SUBSET Entry /\ IsFiniteSet(reset_deadlines')
          /\ Cardinality(reset_deadlines') <= HeapCap
      BY <3>1, <2>1
    <3>4. srv' = "dead" /\ alive' \in BOOLEAN
      BY <3>1
    <3>5. QED
      BY <1>11, <2>2, <3>2, <3>3, <3>4 DEF TypeOK, Wake, historyVars
  <2>5. QED
    BY <2>3, <2>4
<1>12. ASSUME NEW t \in Tasks, Task(t) \/ Acquire(t) \/ Cancel(t) \/ Interrupt(t)
       PROVE TypeOK'
  <2>1. CASE Send(t)
    <3>1. PICK s \in Slots : /\ slot' = [slot EXCEPT ![t] = s]
                             /\ mem' = [mem EXCEPT ![s] = NewPacket(pin[t])]
                             /\ rx' = Append(rx, s)
      BY <2>1 DEF Send
    <3>2. NewPacket(pin[t]) \in Packet
      BY DEF TypeOK, NewPacket, Packet
    <3>3. mem' \in [Slots -> Packet] /\ rx' \in Seq(Slots) /\ slot' \in [Tasks -> Slots]
      BY <3>1, <3>2 DEF TypeOK
    <3>4. QED
      BY <2>1, <3>3 DEF TypeOK, Send, serverVars, historyVars
  <2>2. CASE SendFails(t)
    BY <2>2 DEF TypeOK, SendFails, Return, serverVars, historyVars
  <2>3. CASE Check(t)
    BY <2>3 DEF TypeOK, Check, serverVars, historyVars
  <2>4. CASE FutexWait(t)
    BY <2>4 DEF TypeOK, FutexWait, serverVars, historyVars
  <2>5. CASE Finish(t)
    BY <2>5 DEF TypeOK, Finish, Return, serverVars, historyVars
  <2>6. CASE Acquire(t)
    BY <2>6 DEF TypeOK, Acquire, serverVars, historyVars
  <2>7. CASE Cancel(t)
    BY <2>7 DEF TypeOK, Cancel, serverVars, historyVars
  <2>8. CASE Interrupt(t)
    BY <2>8 DEF TypeOK, Interrupt, serverVars, historyVars
  <2>9. QED
    BY <1>12, <2>1, <2>2, <2>3, <2>4, <2>5, <2>6, <2>7, <2>8 DEF Task
<1>13. ASSUME NEW t \in Tasks, NEW p \in Pins, Request(t, p) PROVE TypeOK'
  BY <1>13 DEF TypeOK, Request, serverVars
<1>14. CASE UNCHANGED vars
  BY <1>14 DEF TypeOK, vars, serverVars, taskVars, historyVars
<1>15. QED
  BY <1>1, <1>2, <1>3, <1>4, <1>5, <1>6, <1>7, <1>8, <1>9, <1>10, <1>11, <1>12, <1>13, <1>14
  DEF Next, Server

-----------------------------------------------------------------------------
(* The packet protocol.                                                    *)

(* At most one call has a packet.                                          *)
LEMMA OneWaiting ==
  ASSUME PacketInv, NEW t \in Tasks, NEW u \in Tasks,
         task[t] \in {"send", "check", "wait", "sleep"},
         task[u] \in {"send", "check", "wait", "sleep"}
  PROVE  t = u
  BY DEF PacketInv

LEMMA PacketInit == Init => PacketInv
  BY DEF Init, PacketInv, Busy

LEMMA PacketStep == TypeOK /\ PacketInv /\ [Next]_vars => PacketInv'
<1> SUFFICES ASSUME TypeOK, PacketInv, [Next]_vars PROVE PacketInv'
  OBVIOUS
<1> USE GpioAssumption
<1>1. CASE UNCHANGED <<srv, cur, task, slot, mutex, rx, mem>>
  BY <1>1 DEF PacketInv, Live, Busy
<1>2. CASE Tick \/ UNCHANGED vars
  BY <1>1, <1>2 DEF Tick, vars, serverVars, taskVars
<1>3. CASE LoopTop \/ ReleaseDone \/ ServeDone
  BY <1>3 DEF LoopTop, ReleaseDone, ServeDone, PacketInv, Live, Busy, taskVars
<1>4. ASSUME NEW e \in reset_deadlines, Release(e) PROVE PacketInv'
  <2>1. UNCHANGED <<task, slot, mutex, mem, cur>> /\ srv = "release"
    BY <1>4 DEF Release, taskVars
  <2>2. UNCHANGED <<srv, rx>> \/ (srv' = "dead" /\ rx' = <<>>)
    BY <1>4, Zenon DEF Release, Die
  <2>3. QED
    BY <2>1, <2>2 DEF PacketInv, Live, Busy
<1>5. CASE Recv
  <2>1. PICK s \in Slots : rx = <<s>> /\ Live(s) /\ mem[s].completion = 0
    BY <1>5 DEF Recv, PacketInv
  <2>2. cur' = s /\ rx' = <<>>
    BY <1>5, <2>1 DEF Recv
  <2>3. QED
    BY <1>5, <2>1, <2>2 DEF Recv, PacketInv, Live, Busy, taskVars
<1>6. CASE Refuse \/ Drive
  BY <1>6 DEF Refuse, Drive, PacketInv, Live, Busy, taskVars
<1>7. CASE Push
  <2>1. mem'[cur].completion = mem[cur].completion
    BY <1>7 DEF Push, TypeOK, Packet
  <2>2. QED
    BY <1>7, <2>1 DEF Push, PacketInv, Live, Busy, taskVars
<1>8. CASE Complete
  BY <1>8 DEF Complete, PacketInv, Live, Busy, taskVars
<1>9. CASE Wake
  <2>1. \A t \in Tasks : /\ task'[t] \in Waiting <=> task[t] \in Waiting
                         /\ task'[t] = "send" <=> task[t] = "send"
    BY <1>9 DEF Wake, TypeOK, Waiting
  <2>2. \A s \in Slots : Live(s)' <=> Live(s)
    BY <1>9, <2>1 DEF Wake, Live
  <2>3. UNCHANGED <<mutex, mem, cur>> /\ ~Busy' /\ (rx' = rx \/ rx' = <<>>)
    BY <1>9 DEF Wake, Die, Busy
  <2>4. QED
    BY <2>1, <2>2, <2>3 DEF PacketInv, Waiting
<1>10. ASSUME NEW t \in Tasks, Task(t) \/ Acquire(t) \/ Cancel(t) \/ Interrupt(t)
       PROVE PacketInv'
  <2>1. CASE Send(t)
    <3>1. \A u \in Tasks : task[u] \notin Waiting
      BY <2>1, OneWaiting DEF Send, Waiting
    <3>2. rx = <<>> /\ ~Busy
      BY <3>1 DEF PacketInv, Live
    <3>3. PICK s \in Slots : /\ slot' = [slot EXCEPT ![t] = s]
                             /\ mem' = [mem EXCEPT ![s] = NewPacket(pin[t])]
                             /\ rx' = Append(rx, s)
      BY <2>1 DEF Send
    <3>4. rx' = <<s>> /\ mem'[s].completion = 0
      BY <3>2, <3>3 DEF TypeOK, NewPacket
    <3>5. task'[t] = "check" /\ slot'[t] = s
      BY <2>1, <3>3 DEF Send, TypeOK
    <3>6. Live(s)'
      BY <3>5 DEF Live, Waiting
    <3>7. ~Busy'
      BY <2>1, <3>2 DEF Send, Busy, serverVars
    <3>8. \A u \in Tasks : task'[u] \in {"send", "check", "wait", "sleep"} => mutex' = u
      BY <2>1 DEF Send, TypeOK, PacketInv
    <3>9. QED
      BY <3>4, <3>6, <3>7, <3>8 DEF PacketInv
  <2>2. CASE SendFails(t) \/ Finish(t)
    <3>1. \A u \in Tasks : u # t => task[u] \notin {"send", "check", "wait", "sleep"}
      BY <2>2, OneWaiting DEF SendFails, Finish
    <3>2. rx = <<>> /\ ~Busy
      BY <2>2, <3>1 DEF SendFails, Finish, PacketInv, Live, Waiting
    <3>3. \A u \in Tasks : task'[u] \notin {"send", "check", "wait", "sleep"}
      BY <2>2, <3>1 DEF SendFails, Finish, Return, TypeOK
    <3>4. QED
      BY <2>2, <3>2, <3>3 DEF SendFails, Finish, Return, PacketInv, Busy, serverVars
  <2>3. CASE Check(t) \/ FutexWait(t) \/ Interrupt(t)
    <3>1. \A u \in Tasks : /\ task'[u] \in Waiting <=> task[u] \in Waiting
                           /\ task'[u] = "send" <=> task[u] = "send"
      BY <2>3 DEF Check, FutexWait, Interrupt, TypeOK, Waiting
    <3>2. \A s \in Slots : Live(s)' <=> Live(s)
      BY <2>3, <3>1 DEF Check, FutexWait, Interrupt, Live
    <3>3. UNCHANGED <<mutex, mem, cur, srv, rx>>
      BY <2>3 DEF Check, FutexWait, Interrupt, serverVars
    <3>4. QED
      BY <3>1, <3>2, <3>3 DEF PacketInv, Waiting, Busy, TypeOK
  <2>4. CASE Acquire(t)
    <3>1. \A u \in Tasks : task[u] \notin Waiting /\ task[u] # "send"
      BY <2>4 DEF Acquire, PacketInv, Waiting
    <3>2. rx = <<>> /\ ~Busy
      BY <3>1 DEF PacketInv, Live
    <3>3. QED
      BY <2>4, <3>1, <3>2 DEF Acquire, PacketInv, Busy, Waiting, TypeOK, serverVars
  <2>5. CASE Cancel(t)
    BY <2>5 DEF Cancel, PacketInv, Live, Busy, Waiting, TypeOK, serverVars
  <2>6. QED
    BY <1>10, <2>1, <2>2, <2>3, <2>4, <2>5 DEF Task
<1>11. ASSUME NEW t \in Tasks, NEW p \in Pins, Request(t, p) PROVE PacketInv'
  BY <1>11 DEF Request, PacketInv, Live, Busy, Waiting, TypeOK, serverVars
<1>12. QED
  BY <1>2, <1>3, <1>4, <1>5, <1>6, <1>7, <1>8, <1>9, <1>10, <1>11 DEF Next, Server

-----------------------------------------------------------------------------
(* Deadlines.                                                              *)

LEMMA HeapInit == Init => HeapInv
  BY DEF Init, HeapInv

(* While the server is at "push", no step of a task touches its packet.    *)
LEMMA PacketStable ==
  ASSUME TypeOK, PacketInv, NEW t \in Tasks, Send(t)
  PROVE  ~Busy
<1>1. \A u \in Tasks : task[u] \notin Waiting
  BY OneWaiting DEF Send, Waiting
<1>2. QED
  BY <1>1 DEF PacketInv, Live

LEMMA HeapStep == TypeOK /\ PacketInv /\ HeapInv /\ [Next]_vars => HeapInv'
<1> SUFFICES ASSUME TypeOK, PacketInv, HeapInv, [Next]_vars PROVE HeapInv'
  OBVIOUS
<1> USE GpioAssumption
<1>1. CASE UNCHANGED <<clock, now, srv, cur, reset_deadlines, mem, driven, lowSince>>
  BY <1>1 DEF HeapInv, InReset
<1>2. CASE UNCHANGED vars
  BY <1>1, <1>2 DEF vars, serverVars, historyVars
<1>3. CASE Tick
  BY <1>3 DEF Tick, HeapInv, InReset, TypeOK, serverVars, historyVars
<1>4. CASE LoopTop \/ ReleaseDone \/ ServeDone \/ Recv \/ Refuse
  <2>1. /\ UNCHANGED <<clock, reset_deadlines, driven, lowSince>>
        /\ srv' # "push"
        /\ now' \in {now, clock}
    BY <1>4 DEF LoopTop, ReleaseDone, ServeDone, Recv, Refuse, historyVars
  <2>2. QED
    BY <2>1 DEF HeapInv, TypeOK
<1>5. ASSUME NEW e \in reset_deadlines, Release(e) PROVE HeapInv'
  <2>1. /\ UNCHANGED <<clock, now, lowSince>>
        /\ srv' # "push"
        /\ reset_deadlines' \subseteq reset_deadlines \ {e} \/ reset_deadlines' = {}
        /\ driven' = driven \ {e.line} \/ driven' = driven
    BY <1>5 DEF Release, Die
  <2>2. \A f \in reset_deadlines' : f \in reset_deadlines /\ f # e
    BY <2>1
  <2>3. \A f \in reset_deadlines' : f.line \in driven'
    BY <2>1, <2>2 DEF HeapInv
  <2>4. QED
    BY <2>1, <2>2, <2>3 DEF HeapInv
<1>6. CASE Drive
  <2> DEFINE l == mem[cur].pin
  <2>1. /\ l \in Lines /\ ~InReset(l)
        /\ driven' = driven \cup {l} /\ lowSince' = [lowSince EXCEPT ![l] = clock]
        /\ UNCHANGED <<clock, now, cur, mem, reset_deadlines>>
        /\ srv' = "push"
    BY <1>6 DEF Drive
  <2>2. \A e \in reset_deadlines : e.line # l
    BY <2>1 DEF InReset
  <2>3. (mem[cur].pin)' = l
    BY <2>1
  <2> HIDE DEF l
  <2>4. \A e \in reset_deadlines : lowSince'[e.line] = lowSince[e.line]
    BY <2>1, <2>2 DEF TypeOK, Entry
  <2>5. \A k \in Lines : lowSince'[k] <= clock
    BY <2>1 DEF HeapInv, TypeOK
  <2>6. QED
    BY <2>1, <2>2, <2>3, <2>4, <2>5 DEF HeapInv, InReset
<1>7. CASE Push
  <2> DEFINE l == mem[cur].pin
             x == [at |-> ResetDeadline, line |-> l]
  <2>1. /\ reset_deadlines' \subseteq reset_deadlines \cup {x}
        /\ UNCHANGED <<clock, now, driven, lowSince>>
        /\ srv' # "push"
    BY <1>7 DEF Push, historyVars
  <2>2. l \in Lines /\ l \in driven /\ \A e \in reset_deadlines : e.line # l
    BY <1>7 DEF Push, HeapInv, InReset
  <2>3. x.line = l /\ x.at >= lowSince[l] + Hold
    BY <2>2 DEF HeapInv, ResetDeadline, TypeOK
  <2> HIDE DEF x, l
  <2>4. \A e \in reset_deadlines' : e.line \in driven /\ e.at >= lowSince[e.line] + Hold
    BY <2>1, <2>2, <2>3 DEF HeapInv
  <2>5. \A e, f \in reset_deadlines' : e.line = f.line => e = f
    BY <2>1, <2>2, <2>3 DEF HeapInv
  <2>6. QED
    BY <2>1, <2>4, <2>5 DEF HeapInv
<1>8. CASE Complete \/ Wake
  <2>1. /\ UNCHANGED <<clock, now, driven, lowSince>>
        /\ srv' # "push"
        /\ reset_deadlines' \subseteq reset_deadlines
    BY <1>8 DEF Complete, Wake, Die, historyVars
  <2>2. QED
    BY <2>1 DEF HeapInv
<1>9. ASSUME NEW t \in Tasks, Task(t) \/ Acquire(t) \/ Cancel(t) \/ Interrupt(t)
      PROVE HeapInv'
  <2>1. CASE Send(t)
    <3>1. ~Busy
      BY <2>1, PacketStable
    <3>2. QED
      BY <2>1, <3>1 DEF Send, HeapInv, Busy, serverVars, historyVars
  <2>2. CASE ~Send(t)
    BY <1>1, <1>9, <2>2
    DEF Task, SendFails, Check, FutexWait, Finish, Acquire, Cancel, Interrupt, Return,
        serverVars, historyVars
  <2>3. QED
    BY <2>1, <2>2
<1>10. ASSUME NEW t \in Tasks, NEW p \in Pins, Request(t, p) PROVE HeapInv'
  BY <1>1, <1>10 DEF Request, serverVars
<1>11. QED
  BY <1>2, <1>3, <1>4, <1>5, <1>6, <1>7, <1>8, <1>9, <1>10 DEF Next, Server

(* The parts that hold whatever the capacity of the heap.                  *)
Inv == TypeOK /\ PacketInv /\ HeapInv

LEMMA InvHolds == Spec => []Inv
<1>1. Init => Inv
  BY TypeInit, PacketInit, HeapInit DEF Inv
<1>2. Inv /\ [Next]_vars => Inv'
  BY TypeStep, PacketStep, HeapStep DEF Inv
<1>3. QED
  BY <1>1, <1>2, PTL DEF Spec

(* Every variable of gpio_server.rs's model keeps its type and the deadline*)
(* heap never exceeds its capacity.                                        *)
THEOREM TypeCorrect == Spec => []TypeOK
  BY InvHolds, PTL DEF Inv

(* No use after free: the server thread only follows the address of a      *)
(* packet that is still on the stack of a blocked ext_reset call.          *)
THEOREM PacketsAreLive == Spec => []PacketLive
<1>1. Inv => PacketLive
  <2> SUFFICES ASSUME Inv PROVE PacketLive
    OBVIOUS
  <2>1. \A i \in 1..Len(rx) : Live(rx[i])
    <3>1. CASE rx = <<>>
      BY <3>1
    <3>2. CASE \E s \in Slots : rx = <<s>> /\ Live(s)
      <4>1. PICK s \in Slots : rx = <<s>> /\ Live(s)
        BY <3>2
      <4>2. \A i \in 1..Len(rx) : rx[i] = s
        BY <4>1
      <4>3. QED
        BY <4>1, <4>2
    <3>3. QED
      BY <3>1, <3>2 DEF Inv, PacketInv
  <2>2. QED
    BY <2>1 DEF Inv, PacketInv, PacketLive, Busy
<1>2. QED
  BY <1>1, InvHolds, PTL

-----------------------------------------------------------------------------
(* Refinement.                                                             *)

LEMMA PulseStep == Inv /\ [Next]_vars => [Pulse!Next]_(Pulse!vars)
<1> SUFFICES ASSUME Inv, [Next]_vars PROVE [Pulse!Next]_(Pulse!vars)
  OBVIOUS
<1> USE GpioAssumption
<1>1. CASE UNCHANGED <<clock, level, driven, lowSince>>
  BY <1>1 DEF Pulse!vars
<1>2. CASE Tick
  BY <1>2 DEF Tick, Pulse!Next, Pulse!Tick, historyVars
<1>3. ASSUME NEW e \in reset_deadlines, Release(e) PROVE [Pulse!Next]_(Pulse!vars)
  <2>1. CASE UNCHANGED <<level, driven>>
    BY <1>1, <1>3, <2>1 DEF Release
  <2>2. CASE /\ level' = [level EXCEPT ![e.line] = 1]
             /\ driven' = driven \ {e.line}
    <3>1. e.line \in Lines /\ e.line \in driven /\ e.at \in Nat
      BY DEF Inv, TypeOK, HeapInv, Entry
    <3>2. clock - lowSince[e.line] >= Hold
      BY <1>3, <3>1 DEF Release, Due, Inv, TypeOK, HeapInv
    <3>3. Pulse!End(e.line)
      BY <1>3, <2>2, <3>1, <3>2 DEF Release, Pulse!End
    <3>4. QED
      BY <3>1, <3>3 DEF Pulse!Next
  <2>3. QED
    BY <1>3, <2>1, <2>2 DEF Release
<1>4. CASE Drive
  <2>1. Pulse!Begin(mem[cur].pin) /\ mem[cur].pin \in Lines
    BY <1>4 DEF Drive, Pulse!Begin
  <2>2. QED
    BY <2>1 DEF Pulse!Next
<1>5. CASE LoopTop \/ ReleaseDone \/ ServeDone \/ Recv \/ Refuse \/ Push \/ Complete \/ Wake
  BY <1>1, <1>5
  DEF LoopTop, ReleaseDone, ServeDone, Recv, Refuse, Push, Complete, Wake, historyVars
<1>6. ASSUME NEW t \in Tasks, Task(t) \/ Acquire(t) \/ Cancel(t) \/ Interrupt(t)
      PROVE [Pulse!Next]_(Pulse!vars)
  BY <1>1, <1>6
  DEF Task, Send, SendFails, Check, FutexWait, Finish, Acquire, Cancel, Interrupt, Return,
      historyVars
<1>7. ASSUME NEW t \in Tasks, NEW p \in Pins, Request(t, p) PROVE [Pulse!Next]_(Pulse!vars)
  BY <1>1, <1>7 DEF Request
<1>8. CASE UNCHANGED vars
  BY <1>1, <1>8 DEF vars, historyVars
<1>9. QED
  BY <1>2, <1>3, <1>4, <1>5, <1>6, <1>7, <1>8 DEF Next, Server

(* GpioServer implements ResetPulse: whatever the requests, the failures   *)
(* and the scheduling, a reset keeps its line low for at least Hold and    *)
(* nothing else raises it.                                                 *)
THEOREM ImplementsPulse == Spec => PulseSpec
<1>1. Init => Pulse!Init
  BY LinesFinite, DefaultValueType DEF Init, Pulse!Init
<1>2. QED
  BY <1>1, PulseStep, InvHolds, PTL DEF Spec, PulseSpec, Pulse!Spec

-----------------------------------------------------------------------------
(* Results that need a heap with room for every line.                      *)

(* There is room for the line that is about to be scheduled.               *)
LEMMA HeapHasRoom ==
  ASSUME HeapFits, Inv, srv = "push"
  PROVE  Cardinality(reset_deadlines) < HeapCap
<1> DEFINE l == mem[cur].pin
           Others == Lines \ {l}
           f == [e \in reset_deadlines |-> e.line]
<1>1. l \in Lines /\ \A e \in reset_deadlines : e.line # l
  BY DEF Inv, HeapInv, InReset
<1>2. f \in Injection(reset_deadlines, Others)
  <2>1. f \in [reset_deadlines -> Others]
    BY <1>1 DEF Inv, TypeOK, Entry
  <2>2. \A a, b \in reset_deadlines : f[a] = f[b] => a = b
    BY DEF Inv, HeapInv
  <2>3. QED
    BY <2>1, <2>2 DEF Injection, IsInjective
<1>3. IsFiniteSet(Others) /\ Cardinality(Others) = Cardinality(Lines) - 1
  BY <1>1, LinesFinite, FS_RemoveElement
<1>4. Cardinality(reset_deadlines) <= Cardinality(Others)
  <2> HIDE DEF f, Others
  <2>1. QED
    BY <1>2, <1>3, FS_Injection
<1>5. Cardinality(Lines) \in Nat /\ Cardinality(reset_deadlines) \in Nat
  BY LinesFinite, FS_CardinalityType DEF Inv, TypeOK
<1>6. QED
  BY <1>3, <1>4, <1>5, GpioAssumption DEF HeapFits

LEMMA ScheduleStep ==
  ASSUME HeapFits, Inv, LowIsScheduled, [Next]_vars
  PROVE  LowIsScheduled'
<1> USE GpioAssumption
<1>1. CASE /\ UNCHANGED <<reset_deadlines, driven, unreleased>>
           /\ srv # "push" /\ srv' # "push"
           /\ srv' # "dead" => srv # "dead"
  BY <1>1 DEF LowIsScheduled, InReset
<1>2. CASE UNCHANGED <<srv, cur, mem, reset_deadlines, driven, unreleased>>
  BY <1>2 DEF LowIsScheduled, InReset
<1>3. CASE Tick \/ UNCHANGED vars
  BY <1>2, <1>3 DEF Tick, vars, serverVars, historyVars
<1>4. CASE LoopTop \/ ReleaseDone \/ ServeDone \/ Recv \/ Refuse \/ Complete
  BY <1>1, <1>4 DEF LoopTop, ReleaseDone, ServeDone, Recv, Refuse, Complete, historyVars
<1>5. ASSUME NEW e \in reset_deadlines, Release(e) PROVE LowIsScheduled'
  <2>1. CASE srv' = "dead"
    BY <2>1 DEF LowIsScheduled
  <2>2. CASE srv' # "dead"
    <3>1. /\ srv = "release"
          /\ reset_deadlines' = reset_deadlines \ {e}
          /\ driven' \ unreleased' \subseteq (driven \ unreleased) \ {e.line}
      BY <1>5, <2>2 DEF Release, Die
    <3>2. SUFFICES ASSUME NEW l \in driven' \ unreleased' PROVE InReset(l)'
      BY DEF LowIsScheduled
    <3>3. PICK f \in reset_deadlines : f.line = l
      BY <3>1 DEF LowIsScheduled, InReset
    <3>4. f # e
      BY <3>1, <3>3
    <3>5. QED
      BY <3>1, <3>3, <3>4 DEF InReset
  <2>3. QED
    BY <2>1, <2>2
<1>6. CASE Drive
  <2>1. /\ UNCHANGED <<cur, mem, reset_deadlines>> /\ srv = "handle" /\ srv' = "push"
        /\ driven' \ unreleased' \subseteq (driven \ unreleased) \cup {mem[cur].pin}
    BY <1>6 DEF Drive
  <2>2. QED
    BY <2>1 DEF LowIsScheduled, InReset
<1>7. CASE Push
  <2> DEFINE x == [at |-> ResetDeadline, line |-> mem[cur].pin]
  <2>1. /\ srv = "push" /\ UNCHANGED <<driven, unreleased>>
        /\ reset_deadlines' = reset_deadlines \cup {x}
    BY <1>7, HeapHasRoom DEF Push, historyVars
  <2>2. x.line = mem[cur].pin
    OBVIOUS
  <2> HIDE DEF x
  <2>3. QED
    BY <2>1, <2>2 DEF LowIsScheduled, InReset
<1>8. CASE Wake
  <2>1. CASE alive
    BY <1>1, <1>8, <2>1 DEF Wake, historyVars
  <2>2. CASE ~alive
    BY <1>8, <2>2 DEF Wake, Die, LowIsScheduled
  <2>3. QED
    BY <2>1, <2>2
<1>9. ASSUME NEW t \in Tasks, Task(t) \/ Acquire(t) \/ Cancel(t) \/ Interrupt(t)
      PROVE LowIsScheduled'
  <2>1. CASE Send(t)
    <3>1. ~Busy
      BY <2>1, PacketStable DEF Inv
    <3>2. QED
      BY <1>1, <2>1, <3>1 DEF Send, Busy, serverVars, historyVars
  <2>2. CASE ~Send(t)
    BY <1>2, <1>9, <2>2
    DEF Task, SendFails, Check, FutexWait, Finish, Acquire, Cancel, Interrupt, Return,
        serverVars, historyVars
  <2>3. QED
    BY <2>1, <2>2
<1>10. ASSUME NEW t \in Tasks, NEW p \in Pins, Request(t, p) PROVE LowIsScheduled'
  BY <1>2, <1>10 DEF Request, serverVars
<1>11. QED
  BY <1>3, <1>4, <1>5, <1>6, <1>7, <1>8, <1>9, <1>10 DEF Next, Server

(* No line is forgotten, if the heap has room for every line: each line    *)
(* that a reset pulled low has a pending release.                          *)
THEOREM LowLinesScheduled == HeapFits => (Spec => []LowIsScheduled)
<1> SUFFICES ASSUME HeapFits PROVE Spec => []LowIsScheduled
  OBVIOUS
<1>1. Init => LowIsScheduled
  BY DEF Init, LowIsScheduled
<1>2. Inv /\ LowIsScheduled /\ [Next]_vars => LowIsScheduled'
  BY ScheduleStep
<1>3. QED
  BY <1>1, <1>2, InvHolds, PTL DEF Spec

-----------------------------------------------------------------------------
(* Timeliness.                                                             *)

LEMMA TimeStep ==
  ASSUME Inv, TimeInv, [Next]_vars
  PROVE  TimeInv'
<1> USE GpioAssumption
<1>0. /\ clock \in Nat /\ now \in Nat /\ lowSince \in [Lines -> Nat]
      /\ \A e \in reset_deadlines : e.line \in Lines /\ e.at \in Nat /\ lowSince[e.line] \in Nat
  BY DEF Inv, TypeOK, Entry
<1>1. CASE UNCHANGED <<clock, now, srv, cur, reset_deadlines, mem, lowSince>>
  BY <1>1 DEF TimeInv
<1>2. CASE UNCHANGED vars
  BY <1>1, <1>2 DEF vars, serverVars, historyVars
<1>3. CASE Tick
  BY <1>0, <1>3 DEF Tick, TimeInv, serverVars, historyVars
<1>4. CASE LoopTop
  <2>1. /\ srv = "yield" /\ srv' = "release" /\ now' = clock
        /\ UNCHANGED <<clock, reset_deadlines, lowSince>>
    BY <1>4 DEF LoopTop, historyVars
  <2>2. QED
    BY <1>0, <2>1 DEF TimeInv
<1>5. ASSUME NEW e \in reset_deadlines, Release(e) PROVE TimeInv'
  <2>1. /\ UNCHANGED <<clock, now, lowSince>> /\ srv = "release"
        /\ srv' = "dead" \/ (srv' = "release" /\ reset_deadlines' \subseteq reset_deadlines)
    BY <1>5 DEF Release, Die
  <2>2. QED
    BY <2>1 DEF TimeInv
<1>6. CASE ReleaseDone
  <2>1. /\ UNCHANGED <<clock, now, lowSince, reset_deadlines>>
        /\ srv = "release" /\ srv' = "serve"
        /\ reset_deadlines = {} \/ \E e \in reset_deadlines : Earliest(e) /\ ~Due(e)
    BY <1>6 DEF ReleaseDone, historyVars
  <2>2. \A f \in reset_deadlines : f.at > now
    <3>1. SUFFICES ASSUME NEW f \in reset_deadlines PROVE f.at > now
      OBVIOUS
    <3>2. PICK e \in reset_deadlines : Earliest(e) /\ ~Due(e)
      BY <2>1
    <3>3. QED
      BY <1>0, <3>2 DEF Earliest, Due
  <2>3. QED
    BY <2>1, <2>2 DEF TimeInv
<1>7. CASE ServeDone \/ Recv \/ Refuse \/ Complete
  <2>1. /\ UNCHANGED <<clock, now, lowSince, reset_deadlines>>
        /\ srv' \notin {"release", "push"} /\ srv \notin {"release", "dead"}
    BY <1>7 DEF ServeDone, Recv, Refuse, Complete, historyVars
  <2>2. QED
    BY <2>1 DEF TimeInv
<1>8. CASE Drive
  <2> DEFINE l == mem[cur].pin
  <2>1. /\ l \in Lines /\ ~InReset(l)
        /\ lowSince' = [lowSince EXCEPT ![l] = clock]
        /\ UNCHANGED <<clock, now, cur, mem, reset_deadlines>>
        /\ srv = "handle" /\ srv' = "push"
    BY <1>8 DEF Drive
  <2>2. \A e \in reset_deadlines : e.line # l
    BY <2>1 DEF InReset
  <2>3. (mem[cur].pin)' = l
    BY <2>1
  <2>4. now <= clock
    BY DEF Inv, HeapInv
  <2> HIDE DEF l
  <2>5. lowSince'[l] = clock /\ \A e \in reset_deadlines : lowSince'[e.line] = lowSince[e.line]
    BY <1>0, <2>1, <2>2
  <2>6. QED
    BY <2>1, <2>3, <2>4, <2>5 DEF TimeInv
<1>9. CASE Push
  <2> DEFINE l == mem[cur].pin
             x == [at |-> ResetDeadline, line |-> l]
  <2>1. /\ reset_deadlines' \subseteq reset_deadlines \cup {x}
        /\ UNCHANGED <<clock, now, lowSince>>
        /\ srv = "push" /\ srv' = "complete"
    BY <1>9 DEF Push, historyVars
  <2>2. l \in Lines /\ now <= clock /\ clock <= now + MaxGap /\ lowSince[l] >= now
    BY <2>1 DEF Inv, HeapInv, TimeInv
  <2>3. x.line = l /\ x.at = clock + Hold
    BY DEF ResetDeadline
  <2> HIDE DEF x, l
  <2>4. x.at > now /\ x.at <= lowSince[x.line] + MaxGap + Hold
    BY <1>0, <2>2, <2>3
  <2>5. QED
    BY <2>1, <2>4 DEF TimeInv
<1>10. CASE Wake
  <2>1. /\ UNCHANGED <<clock, now, lowSince>> /\ srv = "wake"
        /\ srv' = "dead" \/ (srv' = "serve" /\ UNCHANGED reset_deadlines)
    BY <1>10 DEF Wake, Die, historyVars
  <2>2. QED
    BY <2>1 DEF TimeInv
<1>11. ASSUME NEW t \in Tasks, Task(t) \/ Acquire(t) \/ Cancel(t) \/ Interrupt(t)
       PROVE TimeInv'
  <2>1. CASE Send(t)
    <3>1. ~Busy
      BY <2>1, PacketStable DEF Inv
    <3>2. QED
      BY <2>1, <3>1 DEF Send, Busy, TimeInv, serverVars, historyVars
  <2>2. CASE ~Send(t)
    BY <1>1, <1>11, <2>2
    DEF Task, SendFails, Check, FutexWait, Finish, Acquire, Cancel, Interrupt, Return,
        serverVars, historyVars
  <2>3. QED
    BY <2>1, <2>2
<1>12. ASSUME NEW t \in Tasks, NEW p \in Pins, Request(t, p) PROVE TimeInv'
  BY <1>1, <1>12 DEF Request, serverVars
<1>13. QED
  BY <1>2, <1>3, <1>4, <1>5, <1>6, <1>7, <1>8, <1>9, <1>10, <1>11, <1>12 DEF Next, Server

(* No line is held much longer than Hold, if the heap has room for every   *)
(* line and the SCHED_DEADLINE thread runs at least every MaxGap.          *)
THEOREM LinesHeldAtMost == HeapFits => (Spec => []HoldAtMost)
<1> SUFFICES ASSUME HeapFits PROVE Spec => []HoldAtMost
  OBVIOUS
<1>1. Init => TimeInv
  BY GpioAssumption DEF Init, TimeInv
<1>2. Inv /\ TimeInv /\ [Next]_vars => TimeInv'
  BY TimeStep
<1>3. Inv /\ TimeInv /\ LowIsScheduled => HoldAtMost
  <2> SUFFICES ASSUME Inv, TimeInv, LowIsScheduled, srv # "dead",
                      NEW l \in driven \ unreleased
               PROVE  clock - lowSince[l] <= Hold + 3 * MaxGap - 1
    BY DEF HoldAtMost
  <2>1. /\ clock \in Nat /\ now \in Nat /\ lowSince[l] \in Nat
        /\ MaxGap \in Nat \ {0} /\ Hold \in Nat
        /\ clock <= now + MaxGap
    BY GpioAssumption DEF Inv, TypeOK, TimeInv
  <2>2. CASE InReset(l)
    <3>1. PICK e \in reset_deadlines : e.line = l
      BY <2>2 DEF InReset
    <3>2. e.at \in Nat /\ e.at <= lowSince[l] + MaxGap + Hold /\ e.at > now - MaxGap
      BY <2>1, <3>1 DEF Inv, TypeOK, Entry, TimeInv
    <3>3. QED
      BY <2>1, <3>2
  <2>3. CASE srv = "push" /\ mem[cur].pin = l
    <3>1. lowSince[l] >= now
      BY <2>3 DEF TimeInv
    <3>2. QED
      BY <2>1, <3>1
  <2>4. QED
    BY <2>2, <2>3 DEF LowIsScheduled
<1>4. Spec => []TimeInv
  BY <1>1, <1>2, InvHolds, PTL DEF Spec
<1>5. QED
  BY <1>3, <1>4, InvHolds, LowLinesScheduled, PTL

-----------------------------------------------------------------------------
(* Answers.                                                                *)

LEMMA ReplyStep ==
  ASSUME HeapFits, Inv, ReplyInv, [Next]_vars
  PROVE  ReplyInv'
<1> USE GpioAssumption
<1> SUFFICES ASSUME NEW u \in Tasks PROVE ReplyOf(u)'
  BY DEF ReplyInv
<1>0. ReplyOf(u)
  BY DEF ReplyInv
<1>1. CASE /\ UNCHANGED <<mem, task, slot, reply, drove>>
           /\ rx' = rx \/ rx' = <<>>
           /\ srv' \notin {"handle", "push", "complete"}
  <2>1. slot[u] \in Slots
    BY DEF Inv, TypeOK
  <2>2. Pending(u)' => Pending(u)
    BY <1>1, <2>1, OneNotEmpty DEF Pending
  <2>3. QED
    BY <1>0, <1>1, <2>2 DEF ReplyOf
<1>2. CASE UNCHANGED <<mem, task, slot, reply, drove, rx, srv, cur>>
  BY <1>0, <1>2 DEF ReplyOf, Pending
<1>3. CASE Tick \/ UNCHANGED vars
  BY <1>2, <1>3 DEF Tick, vars, serverVars, taskVars, historyVars
<1>4. CASE LoopTop \/ ReleaseDone \/ ServeDone
  BY <1>1, <1>4 DEF LoopTop, ReleaseDone, ServeDone, taskVars, historyVars
<1>5. ASSUME NEW e \in reset_deadlines, Release(e) PROVE ReplyOf(u)'
  BY <1>1, <1>5 DEF Release, Die, taskVars
<1>6. CASE Recv
  <2>1. PICK s \in Slots : rx = <<s>>
    BY <1>6 DEF Recv, Inv, PacketInv
  <2>2. /\ cur' = s /\ rx' = <<>> /\ srv' = "handle"
        /\ UNCHANGED <<mem, task, slot, reply, drove>>
    BY <1>6, <2>1 DEF Recv, taskVars, historyVars
  <2>3. Pending(u)' => Pending(u)
    BY <2>1, <2>2 DEF Pending, Inv, TypeOK
  <2>4. QED
    BY <1>0, <2>2, <2>3 DEF ReplyOf
<1>7. CASE Refuse
  <2>1. /\ srv = "handle" /\ srv' = "complete" /\ rx = <<>>
        /\ UNCHANGED <<mem, task, slot, reply, drove, rx, cur>>
    BY <1>7 DEF Refuse, Inv, PacketInv, Busy, taskVars, historyVars
  <2>2. QED
    BY <1>0, <2>1 DEF ReplyOf, Pending
<1>8. CASE Drive
  <2>1. /\ srv = "handle" /\ srv' = "push" /\ rx = <<>> /\ mem[cur].completion = 0
        /\ UNCHANGED <<mem, task, slot, reply, rx, cur>>
        /\ drove' = drove \cup {t \in Tasks : task[t] \in Waiting /\ slot[t] = cur}
    BY <1>8 DEF Drive, Inv, PacketInv, Busy, taskVars
  <2>2. ~Pending(u)'
    BY <2>1 DEF Pending
  <2>3. QED
    BY <1>0, <2>1, <2>2 DEF ReplyOf, Waiting
<1>9. CASE Push
  <2>1. /\ srv = "push" /\ srv' = "complete" /\ rx = <<>> /\ mem[cur].completion = 0
        /\ UNCHANGED <<task, slot, reply, drove, rx, cur>>
        /\ mem' = [mem EXCEPT ![cur].success = TRUE]
    BY <1>9, HeapHasRoom DEF Push, Inv, PacketInv, Busy, taskVars, historyVars
  <2>2. ~Pending(u)'
    BY <2>1 DEF Pending
  <2>3. slot[u] = cur => mem'[slot[u]].success = TRUE
    BY <2>1 DEF Inv, TypeOK, Packet
  <2>4. slot[u] # cur => mem'[slot[u]] = mem[slot[u]]
    BY <2>1 DEF Inv, TypeOK
  <2>5. slot[u] = cur => mem'[slot[u]].completion = 0
    BY <2>1 DEF Inv, TypeOK, Packet
  <2>6. QED
    BY <1>0, <2>1, <2>2, <2>3, <2>4, <2>5 DEF ReplyOf
<1>10. CASE Complete
  <2>1. /\ srv = "complete" /\ srv' = "wake" /\ rx = <<>>
        /\ UNCHANGED <<task, slot, reply, drove, rx, cur>>
        /\ mem' = [mem EXCEPT ![cur].completion = 1]
    BY <1>10 DEF Complete, Inv, PacketInv, Busy, taskVars, historyVars
  <2>2. ~Pending(u)'
    BY <2>1 DEF Pending
  <2>3. mem'[slot[u]].success = mem[slot[u]].success
    BY <2>1 DEF Inv, TypeOK, Packet
  <2>4. slot[u] # cur => mem'[slot[u]] = mem[slot[u]]
    BY <2>1 DEF Inv, TypeOK
  <2>5. QED
    BY <1>0, <2>1, <2>2, <2>3, <2>4 DEF ReplyOf
<1>11. CASE Wake
  <2>1. /\ task'[u] = task[u] \/ (task[u] = "sleep" /\ task'[u] = "check")
        /\ UNCHANGED <<mem, slot, reply, drove, cur>>
        /\ rx' = rx \/ rx' = <<>>
        /\ srv' \in {"serve", "dead"}
    BY <1>11 DEF Wake, Die, Inv, TypeOK, historyVars
  <2>2. slot[u] \in Slots
    BY DEF Inv, TypeOK
  <2>3. Pending(u)' => Pending(u)
    BY <2>1, <2>2, OneNotEmpty DEF Pending
  <2>4. QED
    BY <1>0, <2>1, <2>3 DEF ReplyOf, Waiting
<1>12. ASSUME NEW t \in Tasks, Task(t) \/ Acquire(t) \/ Cancel(t) \/ Interrupt(t)
       PROVE ReplyOf(u)'
  <2>1. CASE Send(t)
    <3>1. ~Busy /\ rx = <<>>
      BY <2>1, PacketStable, OneWaiting DEF Inv, PacketInv, Live, Send, Waiting
    <3>2. PICK s \in Slots : /\ slot' = [slot EXCEPT ![t] = s]
                             /\ mem' = [mem EXCEPT ![s] = NewPacket(pin[t])]
      BY <2>1 DEF Send
    <3>3. u # t => task[u] \notin Waiting
      BY <2>1, OneWaiting DEF Inv, Send, Waiting
    <3>4. UNCHANGED <<srv, cur, reply, drove>> /\ task' = [task EXCEPT ![t] = "check"]
      BY <2>1 DEF Send, serverVars, historyVars
    <3>5. CASE u = t
      <4>1. slot'[u] = s /\ mem'[s] = NewPacket(pin[t]) /\ task[u] = "send" /\ task'[u] = "check"
        BY <2>1, <3>2, <3>4, <3>5 DEF Inv, TypeOK, Send
      <4>2. ~mem'[slot'[u]].success /\ mem'[slot'[u]].completion = 0
        BY <4>1 DEF NewPacket
      <4>3. QED
        BY <1>0, <3>1, <3>4, <4>1, <4>2 DEF ReplyOf, Busy
    <3>6. CASE u # t
      BY <1>0, <3>3, <3>4, <3>6 DEF ReplyOf, Inv, TypeOK
    <3>7. QED
      BY <3>5, <3>6
  <2>2. CASE SendFails(t)
    <3>1. /\ UNCHANGED <<mem, slot, drove, rx, srv, cur>>
          /\ task[t] = "send"
          /\ task' = [task EXCEPT ![t] = "idle"]
          /\ reply' = [reply EXCEPT ![t] = "failed"]
      BY <2>2 DEF SendFails, Return, serverVars, historyVars
    <3>2. CASE u = t
      <4>1. task'[u] = "idle" /\ reply'[u] = "failed" /\ u \notin drove
        BY <1>0, <3>1, <3>2 DEF ReplyOf, Inv, TypeOK
      <4>2. QED
        BY <3>1, <4>1 DEF ReplyOf, Waiting
    <3>3. CASE u # t
      <4>1. task'[u] = task[u] /\ reply'[u] = reply[u]
        BY <3>1, <3>3 DEF Inv, TypeOK
      <4>2. QED
        BY <1>0, <3>1, <4>1 DEF ReplyOf, Pending
    <3>4. QED
      BY <3>2, <3>3
  <2>3. CASE Finish(t)
    <3>1. /\ UNCHANGED <<mem, slot, drove, rx, srv, cur>>
          /\ task' = [task EXCEPT ![t] = "idle"]
          /\ task[t] = "check" /\ mem[slot[t]].completion = 1
          /\ reply' = [reply EXCEPT ![t] = IF mem[slot[t]].success THEN "ok" ELSE "failed"]
      BY <2>3 DEF Finish, Return, serverVars, historyVars
    <3>2. CASE u = t
      <4>1. task'[u] = "idle" /\ (reply'[u] = "ok" <=> mem[slot[u]].success)
        BY <3>1, <3>2 DEF Inv, TypeOK
      <4>2. mem[slot[u]].success <=> u \in drove
        BY <1>0, <3>1, <3>2 DEF ReplyOf, Waiting
      <4>3. QED
        BY <3>1, <4>1, <4>2 DEF ReplyOf, Waiting
    <3>3. CASE u # t
      <4>1. task'[u] = task[u] /\ reply'[u] = reply[u]
        BY <3>1, <3>3 DEF Inv, TypeOK
      <4>2. QED
        BY <1>0, <3>1, <4>1 DEF ReplyOf, Pending
    <3>4. QED
      BY <3>2, <3>3
  <2>4. CASE Check(t) \/ FutexWait(t) \/ Interrupt(t)
    <3>1. /\ UNCHANGED <<mem, slot, reply, drove, rx, srv, cur>>
          /\ task'[u] = task[u] \/ (task[u] \in Waiting /\ task'[u] \in Waiting)
      BY <2>4 DEF Check, FutexWait, Interrupt, Waiting, Inv, TypeOK, serverVars, historyVars
    <3>2. QED
      BY <1>0, <3>1 DEF ReplyOf, Pending, Waiting
  <2>5. CASE Acquire(t) \/ Cancel(t)
    <3>1. /\ UNCHANGED <<mem, slot, reply, drove, rx, srv, cur>>
          /\ task'[u] = task[u] \/ (task[u] = "lock" /\ task'[u] \in {"send", "idle"})
      BY <2>5 DEF Acquire, Cancel, Inv, TypeOK, serverVars, historyVars
    <3>2. QED
      BY <1>0, <3>1 DEF ReplyOf, Pending, Waiting
  <2>6. QED
    BY <1>12, <2>1, <2>2, <2>3, <2>4, <2>5 DEF Task
<1>13. ASSUME NEW t \in Tasks, NEW p \in Pins, Request(t, p) PROVE ReplyOf(u)'
  BY <1>0, <1>13 DEF Request, ReplyOf, Pending, Waiting, Inv, TypeOK, serverVars
<1>14. QED
  BY <1>3, <1>4, <1>5, <1>6, <1>7, <1>8, <1>9, <1>10, <1>11, <1>12, <1>13 DEF Next, Server

(* The answer tells the truth, if the heap has room for every line: a call *)
(* succeeds exactly when it pulled its line low.                           *)
THEOREM RepliesMatch == HeapFits => (Spec => []ReplyMatchesEffect)
<1> SUFFICES ASSUME HeapFits PROVE Spec => []ReplyMatchesEffect
  OBVIOUS
<1>1. Init => ReplyInv
  BY DEF Init, ReplyInv, ReplyOf, Waiting
<1>2. Inv /\ ReplyInv /\ [Next]_vars => ReplyInv'
  BY ReplyStep
<1>3. ReplyInv => ReplyMatchesEffect
  BY DEF ReplyInv, ReplyOf, ReplyMatchesEffect
<1>4. QED
  BY <1>1, <1>2, <1>3, InvHolds, PTL DEF Spec
=============================================================================
