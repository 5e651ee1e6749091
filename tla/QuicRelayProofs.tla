--------------------------- MODULE QuicRelayProofs ---------------------------
(***************************************************************************)
(* Proofs about QuicRelay, for any set of connections (also an infinite    *)
(* one), any number of slots and of streams: the slots of the server are   *)
(* accounted for, and a connection relays one stream at a time.            *)
(***************************************************************************)
EXTENDS QuicRelay, FiniteSetTheorems, TLAPS

(* The semaphore counts the connections being served.  That there are only *)
(* finitely many is part of the invariant: no step adds more than one.     *)
SlotInv == IsFiniteSet(Serving) /\ SlotsAccounted

(* The one slot of a connection is taken from before its goroutine waits   *)
(* for a stream until that stream is gone; only a stream being copied has  *)
(* copies or an SSH connection.                                            *)
StreamOf(c) ==
  /\ pc[c] = "accept" => str[c] = "none" /\ one[c] = 1
  /\ str[c] # "none" => one[c] = 1
  /\ str[c] # "copy" => toQuic[c] = "off" /\ toSsh[c] = "off" /\ ~sshd[c]

StreamInv == \A c \in Conns : StreamOf(c)

IInv == TypeOK /\ SlotInv /\ StreamInv

-----------------------------------------------------------------------------
LEMMA FlagTypes ==
  ASSUME TypeOK
  PROVE  /\ up \in [Conns -> BOOLEAN] /\ sshd \in [Conns -> BOOLEAN]
         /\ fin \in [Conns -> BOOLEAN] /\ deadline \in [Conns -> BOOLEAN]
         /\ toQuic \in [Conns -> {"off", "read", "write"}]
         /\ toSsh \in [Conns -> {"off", "read", "write"}]
  BY DEF TypeOK

LEMMA IInvInit == Init => IInv
<1> SUFFICES ASSUME Init PROVE IInv
  OBVIOUS
<1>1. TypeOK
  BY QuicAssumption DEF Init, TypeOK
<1>2. Serving = {}
  BY DEF Init, Serving
<1>3. SlotInv
  BY <1>2, FS_EmptySet DEF SlotInv, SlotsAccounted, Init
<1>4. StreamInv
  BY DEF Init, StreamInv, StreamOf
<1>5. QED
  BY <1>1, <1>3, <1>4 DEF IInv

(* Every step of one connection's client, goroutines or SSH server.        *)
ConnStep(c) ==
  \/ Client(c) \/ Accept(c) \/ Serve(c) \/ Stream(c) \/ Copy(c)
  \/ SshdCloses(c)

-----------------------------------------------------------------------------
(* The slots of the server.                                                *)

LEMMA SameSlots ==
  ASSUME SlotInv, UNCHANGED <<acc, sem>>, Serving' = Serving PROVE SlotInv'
  BY DEF SlotInv, SlotsAccounted

(* The accept loop: a slot is taken ahead, handed on, or kept at the end.  *)
LEMMA LoopSlots ==
  ASSUME IInv, StartQuicServer \/ TakeSlot \/ AcceptError PROVE SlotInv' /\ sem' \in 0..QuicCap
<1>1. Serving' = Serving
  BY DEF StartQuicServer, TakeSlot, AcceptError, Serving
<1>2. Cardinality(Serving) \in Nat /\ IsFiniteSet(Serving)
  BY FS_CardinalityType DEF IInv, SlotInv
<1>3. SlotsAccounted'
  BY <1>1, <1>2 DEF IInv, SlotInv, SlotsAccounted, StartQuicServer, TakeSlot, AcceptError, TypeOK
<1>4. QED
  BY <1>1, <1>2, <1>3, QuicAssumption DEF SlotInv, IInv, TypeOK, StartQuicServer, TakeSlot, AcceptError

LEMMA AcceptSlots ==
  ASSUME IInv, NEW c \in Conns, Accept(c) PROVE SlotInv'
<1>1. c \notin Serving /\ Serving' = Serving \cup {c}
  BY DEF IInv, TypeOK, Accept, Serving
<1>2. IsFiniteSet(Serving) /\ Cardinality(Serving) \in Nat
  BY FS_CardinalityType DEF IInv, SlotInv
<1>3. IsFiniteSet(Serving') /\ Cardinality(Serving') = Cardinality(Serving) + 1
  BY <1>1, <1>2, FS_AddElement
<1>4. SlotsAccounted'
  BY <1>2, <1>3 DEF IInv, SlotInv, SlotsAccounted, Accept
<1>5. QED
  BY <1>3, <1>4 DEF SlotInv

(* A serving goroutine has a slot to give back.                            *)
LEMMA ReturnSlots ==
  ASSUME IInv, NEW c \in Conns, conn[c] \in {"h3", "relay"}, Return(c)
  PROVE  SlotInv' /\ sem' \in 0..QuicCap
<1>1. c \in Serving /\ Serving' = Serving \ {c}
  BY DEF IInv, TypeOK, Return, Serving
<1>2. IsFiniteSet(Serving) /\ Cardinality(Serving) \in Nat
  BY FS_CardinalityType DEF IInv, SlotInv
<1>3. IsFiniteSet(Serving') /\ Cardinality(Serving') = Cardinality(Serving) - 1
  BY <1>1, <1>2, FS_RemoveElement
<1>4. Cardinality(Serving') \in Nat
  BY <1>3, FS_CardinalityType
<1>5. SlotsAccounted'
  <2>1. acc' = acc /\ sem' = sem - 1
    BY DEF Return
  <2>2. SlotsAccounted
    BY DEF IInv, SlotInv
  <2>3. QED
    BY <1>2, <1>3, <2>1, <2>2 DEF SlotsAccounted
<1>6. sem' \in 0..QuicCap
  BY <1>2, <1>3, <1>4, QuicAssumption DEF IInv, TypeOK, SlotInv, SlotsAccounted, Return
<1>7. QED
  BY <1>3, <1>5, <1>6 DEF SlotInv

LEMMA ConnSlots ==
  ASSUME IInv, NEW c \in Conns, ConnStep(c) PROVE SlotInv' /\ sem' \in 0..QuicCap
<1>1. CASE Accept(c)
  BY <1>1, AcceptSlots DEF IInv, TypeOK, Accept
<1>2. CASE H3Done(c) \/ RelayDone(c)
  BY <1>2, ReturnSlots DEF H3Done, RelayDone
<1>3. CASE Connect(c)
  <2>1. Serving' = Serving
    BY <1>3 DEF IInv, TypeOK, Connect, Serving
  <2>2. QED
    BY <1>3, <2>1, SameSlots DEF IInv, TypeOK, Connect
<1>4. CASE UNCHANGED <<acc, sem, conn>>
  <2>1. Serving' = Serving
    BY <1>4 DEF Serving
  <2>2. QED
    BY <1>4, <2>1, SameSlots DEF IInv, TypeOK
<1>5. QED
  BY <1>1, <1>2, <1>3, <1>4
     DEF ConnStep, Client, Serve, Stream, Copy, Lose, ClientCloses, RelayAccept, RelaySlot, Dial,
         DialError, StreamEnds, SshdCloses, ToQuicReads, ToQuicWritten, ToQuicEnds, ToQuicStopped,
         ToQuicMoves, ToSshReads, ToSshWritten, ToSshEnds, ToSshReturns, ToSshMoves

-----------------------------------------------------------------------------
(* Types and streams.                                                      *)

LEMMA ConnTypes == ASSUME IInv, NEW c \in Conns, ConnStep(c) PROVE TypeOK'
<1>0. TypeOK /\ sem' \in 0..QuicCap
  BY ConnSlots DEF IInv
<1> USE <1>0 DEF ConnStep, Client, Serve, Stream, Copy, Connect, Lose, ClientCloses, RelayAccept,
                 Accept, H3Done, RelaySlot, RelayDone, Return, Dial, DialError, StreamEnds,
                 SshdCloses, ToQuicReads, ToQuicWritten, ToQuicEnds, ToQuicStopped, ToQuicMoves,
                 ToSshReads, ToSshWritten, ToSshEnds, ToSshReturns, ToSshMoves, streamVars
<1>1. acc' \in {"off", "slot", "accept", "ended"}
  BY DEF TypeOK
<1>2. conn' \in [Conns -> {"away", "waiting", "h3", "relay", "gone"}]
  BY DEF TypeOK
<1>3. pc' \in [Conns -> {"slot", "accept"}] /\ str' \in [Conns -> {"none", "dial", "copy"}]
  BY DEF TypeOK
<1>4. one' \in [Conns -> {0, 1}]
  BY DEF TypeOK
<1>5. opened' \in [Conns -> 0..MaxStreams]
  BY QuicAssumption DEF TypeOK
<1>6. up' \in [Conns -> BOOLEAN] /\ fin' \in [Conns -> BOOLEAN]
  BY FlagTypes
<1>7. /\ toQuic' \in [Conns -> {"off", "read", "write"}]
      /\ toSsh' \in [Conns -> {"off", "read", "write"}]
  BY FlagTypes
<1>8. sshd' \in [Conns -> BOOLEAN] /\ deadline' \in [Conns -> BOOLEAN]
  BY FlagTypes
<1>9. QED
  BY ONLY <1>0, <1>1, <1>2, <1>3, <1>4, <1>5, <1>6, <1>7, <1>8 DEF TypeOK

LEMMA ConnStreams == ASSUME IInv, NEW c \in Conns, ConnStep(c) PROVE StreamInv'
<1> SUFFICES ASSUME NEW d \in Conns PROVE StreamOf(d)'
  BY DEF StreamInv
<1>0. StreamOf(c) /\ StreamOf(d)
  BY DEF IInv, StreamInv
<1> USE <1>0, FlagTypes DEF IInv, TypeOK, StreamOf, streamVars
<1>1. CASE Client(c)
  BY <1>1 DEF Client, Connect, Lose, ClientCloses, RelayAccept
<1>2. CASE Accept(c)
  BY <1>2 DEF Accept
<1>3. CASE Serve(c)
  BY <1>3 DEF Serve, H3Done, RelaySlot, RelayDone
<1>4. CASE Stream(c)
  BY <1>4 DEF Stream, Dial, DialError
<1>5. CASE Copy(c)
  <2>1. CASE StreamEnds(c)
    BY <2>1 DEF StreamEnds
  <2>2. CASE UNCHANGED <<one, str, pc, sshd>> /\ UNCHANGED toSsh
    BY <1>5, <2>2 DEF Copy, ToQuicReads, ToQuicWritten, ToQuicEnds, ToQuicStopped, ToQuicMoves,
                      ToSshReads, ToSshWritten, ToSshEnds, ToSshReturns, ToSshMoves, StreamEnds
  <2>3. CASE UNCHANGED <<one, str, pc, sshd>> /\ UNCHANGED toQuic
    BY <1>5, <2>3 DEF Copy, ToQuicReads, ToQuicWritten, ToQuicEnds, ToQuicStopped, ToQuicMoves,
                      ToSshReads, ToSshWritten, ToSshEnds, ToSshReturns, ToSshMoves, StreamEnds
  <2>4. QED
    BY <1>5, <2>1, <2>2, <2>3
       DEF Copy, ToQuicReads, ToQuicWritten, ToQuicEnds, ToQuicStopped, ToQuicMoves, ToSshReads,
           ToSshWritten, ToSshEnds, ToSshReturns, ToSshMoves
<1>6. CASE SshdCloses(c)
  BY <1>6 DEF SshdCloses
<1>7. QED
  BY <1>1, <1>2, <1>3, <1>4, <1>5, <1>6 DEF ConnStep

-----------------------------------------------------------------------------
LEMMA IInvNext == IInv /\ [Next]_vars => IInv'
<1> SUFFICES ASSUME IInv, [Next]_vars PROVE IInv'
  OBVIOUS
<1>1. CASE StartQuicServer \/ TakeSlot \/ AcceptError
  <2>1. TypeOK'
    BY <1>1, LoopSlots DEF IInv, TypeOK, streamVars, StartQuicServer, TakeSlot, AcceptError
  <2>2. StreamInv'
    BY <1>1 DEF IInv, StreamInv, StreamOf, streamVars, StartQuicServer, TakeSlot, AcceptError
  <2>3. QED
    BY <1>1, <2>1, <2>2, LoopSlots DEF IInv
<1>2. ASSUME NEW c \in Conns, ConnStep(c) PROVE IInv'
  BY <1>2, ConnSlots, ConnTypes, ConnStreams DEF IInv
<1>3. CASE UNCHANGED vars
  <2>1. TypeOK' /\ StreamInv'
    BY <1>3 DEF IInv, TypeOK, StreamInv, StreamOf, vars, streamVars
  <2>2. Serving' = Serving
    BY <1>3 DEF Serving, vars
  <2>3. QED
    BY <1>3, <2>1, <2>2, SameSlots DEF IInv, vars
<1>4. QED
  BY <1>1, <1>2, <1>3 DEF Next, ConnStep

(* Every reachable state satisfies the inductive invariant.                *)
THEOREM Invariant == Spec => []IInv
  BY IInvInit, IInvNext, PTL DEF Spec

(* Every reachable state is well typed; in particular the semaphore is     *)
(* never released more often than it was taken.                            *)
THEOREM TypeCorrect == Spec => []TypeOK
<1>1. IInv => TypeOK
  BY DEF IInv
<1>2. QED
  BY <1>1, Invariant, PTL

(* No slot leaks and none is given back twice, in whatever order clients   *)
(* leave and goroutines return: the slots taken are those of the           *)
(* connections being served and at most the one the accept loop holds.     *)
THEOREM NoSlotLeaks == Spec => []SlotsAccounted
<1>1. IInv => SlotsAccounted
  BY DEF IInv, SlotInv
<1>2. QED
  BY <1>1, Invariant, PTL

(* A connection that waits for its next stream has nothing left of the     *)
(* previous one: no goroutine, no copy, no SSH connection.                 *)
THEOREM OneStreamAtATime == Spec => []OneStream
<1>1. IInv => OneStream
  BY DEF IInv, StreamInv, StreamOf, OneStream
<1>2. QED
  BY <1>1, Invariant, PTL
=============================================================================
