---------------------------- MODULE LogSinkProofs ----------------------------
(***************************************************************************)
(* Proofs about LogSink, for any set of loggers and any capacity of the    *)
(* queue, the batches and the pipe: the broker gets every accepted message *)
(* in order, a Fatal call that has synced lost nothing accepted before,    *)
(* and the kernel's log waits for the first delivery.                      *)
(*                                                                         *)
(* Sequences are described element by element in QueueInv; the equation of *)
(* DeliveredInOrder is derived from it at the end.                         *)
(***************************************************************************)
EXTENDS LogSink, TLAPS

(* The output's lock covers Write and Sync.                                *)
LockInv == \A w \in Writers : pc[w] \in {"writing", "counting", "syncing"} => lock = w

(* issuedMessages lags behind the queue by the one message whose writer    *)
(* has not counted it yet, and that writer holds the lock.                 *)
CountInv ==
  accepted = issued + (IF \E w \in Writers : pc[w] = "counting" THEN 1 ELSE 0)

(* Sync waits for what it owes, and leaves when that is completed.         *)
SyncOf(w) ==
  /\ pc[w] \notin {"syncing", "exit"} => due[w] = 0
  /\ pc[w] = "syncing" => due[w] = target[w]
  /\ pc[w] = "exit" => due[w] <= completed

SyncInv == \A w \in Writers : SyncOf(w)

(* The batch and the queue hold the accepted messages not yet completed.   *)
QueueInv ==
  /\ accepted = completed + Len(batch) + Len(msgChan)
  /\ \A i \in 1..Len(batch) : batch[i] = completed + i
  /\ \A i \in 1..Len(msgChan) : msgChan[i] = completed + Len(batch) + i
  /\ sender = "recv" => batch = <<>>
  /\ sender \in {"fill", "send", "backoff", "complete"} => Len(batch) >= 1

(* The broker has what was completed, and the batch if an attempt to send  *)
(* it has succeeded, with its answer lost or not.                          *)
StoredInv ==
  /\ \/ stored = 1..completed
     \/ sender \in {"send", "backoff", "complete"} /\ stored = 1..(completed + Len(batch))
  /\ sender = "complete" => stored = 1..(completed + Len(batch))

KernelInv == kernel # "waiting" => completed > 0

IInv ==
  /\ TypeOK /\ LockInv /\ CountInv /\ SyncInv
  /\ QueueInv /\ StoredInv /\ KernelInv

-----------------------------------------------------------------------------
LEMMA NoMessages == <<>> \in Seq(Nat) /\ Len(<<>>) = 0
  OBVIOUS

LEMMA HeadTail ==
  ASSUME NEW s \in Seq(Nat), s # <<>>
  PROVE  /\ Len(s) \in Nat \ {0} /\ Head(s) = s[1] /\ Head(s) \in Nat
         /\ <<Head(s)>> \in Seq(Nat) /\ Len(<<Head(s)>>) = 1 /\ <<Head(s)>>[1] = s[1]
         /\ Tail(s) \in Seq(Nat) /\ Len(Tail(s)) = Len(s) - 1
         /\ \A i \in 1..Len(Tail(s)) : Tail(s)[i] = s[i + 1]
  OBVIOUS

LEMMA AppendTo ==
  ASSUME NEW s \in Seq(Nat), NEW m \in Nat
  PROVE  /\ Append(s, m) \in Seq(Nat) /\ Len(Append(s, m)) = Len(s) + 1
         /\ Append(s, m)[Len(s) + 1] = m
         /\ \A i \in 1..Len(s) : Append(s, m)[i] = s[i]
  OBVIOUS

LEMMA AsFunction == \A s \in Seq(Nat) : s = [i \in 1..Len(s) |-> s[i]]
  OBVIOUS

LEMMA Lengths ==
  ASSUME IInv
  PROVE  /\ Len(msgChan) <= QueueCap /\ Len(batch) <= BatchCap
         /\ Len(msgChan) \in Nat /\ Len(batch) \in Nat
         /\ QueueCap \in Nat /\ BatchCap \in Nat /\ BatchCap >= 1
  BY SinkAssumption DEF IInv, TypeOK

LEMMA IInvInit == Init => IInv
<1> SUFFICES ASSUME Init PROVE IInv
  OBVIOUS
<1> USE SinkAssumption, NoMessages DEF Init
<1>0. exited \in BOOLEAN /\ rtUp \in BOOLEAN
  BY Zenon
<1>1. TypeOK
  BY <1>0 DEF TypeOK
<1>2. LockInv /\ CountInv
  BY DEF LockInv, CountInv
<1>3. SyncInv
  BY DEF SyncInv, SyncOf
<1>4. QueueInv /\ KernelInv
  BY DEF QueueInv, KernelInv
<1>5. StoredInv
  BY DEF StoredInv
<1>6. QED
  BY <1>1, <1>2, <1>3, <1>4, <1>5 DEF IInv

-----------------------------------------------------------------------------
(* The sender.                                                             *)

(* What is in a batch that follows the completed messages.                 *)
LEMMA MessagesOf ==
  ASSUME TypeOK, QueueInv
  PROVE  1..completed \cup Messages(batch) = 1..(completed + Len(batch))
<1>1. completed \in Nat /\ Len(batch) \in Nat
  BY DEF TypeOK
<1>2. ASSUME NEW m \in 1..(completed + Len(batch)), m > completed PROVE m \in Messages(batch)
  <2>1. m - completed \in 1..Len(batch) /\ batch[m - completed] = m
    BY <1>1, <1>2 DEF QueueInv
  <2>2. QED
    BY <2>1 DEF Messages
<1>3. ASSUME NEW m \in Messages(batch) PROVE m \in 1..(completed + Len(batch))
  BY <1>1 DEF Messages, QueueInv
<1>4. QED
  BY <1>1, <1>2, <1>3

(* A step of the sender leaves the calls and the relays alone.             *)
LEMMA SenderFrame ==
  ASSUME IInv, UNCHANGED <<sink, issued, accepted, callVars, exited, relayVars>>,
         completed' \in Nat, completed' >= completed
  PROVE  LockInv' /\ CountInv' /\ SyncInv' /\ KernelInv'
<1> USE DEF IInv, callVars, relayVars
<1>1. LockInv' /\ CountInv'
  BY DEF LockInv, CountInv
<1>2. SyncInv'
  BY DEF SyncInv, SyncOf, TypeOK
<1>3. KernelInv'
  BY DEF KernelInv, TypeOK
<1>4. QED
  BY <1>1, <1>2, <1>3

LEMMA SenderSteps == IInv /\ SenderStep => IInv'
<1> SUFFICES ASSUME IInv, SenderStep PROVE IInv'
  OBVIOUS
<1> USE SinkAssumption DEF callVars, relayVars
<1>1. CASE Receive
  <2>0. /\ sender = "recv" /\ sender' = "fill"
        /\ UNCHANGED <<sink, issued, completed, stored, accepted, callVars, exited, relayVars>>
    BY <1>1 DEF Receive
  <2>1. msgChan \in Seq(Nat) /\ msgChan # <<>> /\ Len(msgChan) \in Nat \ {0}
    BY <1>1 DEF IInv, TypeOK, Receive
  <2>2. /\ batch' \in Seq(Nat) /\ Len(batch') = 1 /\ batch'[1] = msgChan[1]
        /\ msgChan' \in Seq(Nat) /\ Len(msgChan') = Len(msgChan) - 1
        /\ \A i \in 1..Len(msgChan') : msgChan'[i] = msgChan[i + 1]
    BY <1>1, <2>1, HeadTail DEF Receive
  <2>3. TypeOK'
    <3>1. Len(msgChan') <= QueueCap /\ Len(batch') <= BatchCap
      BY <2>1, <2>2, Lengths
    <3>2. QED
      BY <2>0, <2>2, <3>1 DEF IInv, TypeOK
  <2>4. LockInv' /\ CountInv' /\ SyncInv' /\ KernelInv'
    BY <2>0, SenderFrame DEF IInv, TypeOK
  <2>5. Len(batch) = 0 /\ accepted \in Nat /\ completed \in Nat
    BY <2>0, NoMessages DEF IInv, TypeOK, QueueInv
  <2>6. QueueInv'
    <3>1. msgChan[1] = completed + 1 /\ accepted = completed + Len(msgChan)
      BY <2>1, <2>5 DEF IInv, QueueInv
    <3>2. \A i \in 1..Len(msgChan') : msgChan'[i] = completed + 1 + i
      BY <2>1, <2>2, <2>5 DEF IInv, QueueInv
    <3>3. QED
      BY <2>0, <2>1, <2>2, <2>5, <3>1, <3>2 DEF QueueInv
  <2>7. StoredInv'
    BY <2>0 DEF IInv, StoredInv
  <2>8. QED
    BY <2>3, <2>4, <2>6, <2>7 DEF IInv
<1>2. CASE Fill /\ Len(batch) < BatchCap /\ msgChan # <<>>
  <2>0. /\ sender = "fill" /\ sender' = "fill"
        /\ UNCHANGED <<sink, issued, completed, stored, accepted, callVars, exited, relayVars>>
    BY <1>2 DEF Fill
  <2>1. /\ msgChan \in Seq(Nat) /\ msgChan # <<>> /\ Len(msgChan) \in Nat \ {0}
        /\ batch \in Seq(Nat) /\ Len(batch) \in Nat /\ accepted \in Nat /\ completed \in Nat
    BY <1>2 DEF IInv, TypeOK
  <2>2. /\ batch' \in Seq(Nat) /\ Len(batch') = Len(batch) + 1 /\ batch'[Len(batch')] = msgChan[1]
        /\ \A i \in 1..Len(batch) : batch'[i] = batch[i]
    <3>1. batch' = Append(batch, Head(msgChan)) /\ Head(msgChan) \in Nat /\ Head(msgChan) = msgChan[1]
      BY <1>2, <2>1, HeadTail DEF Fill
    <3>2. QED
      BY ONLY <2>1, <3>1, AppendTo
  <2>3. /\ msgChan' \in Seq(Nat) /\ Len(msgChan') = Len(msgChan) - 1
        /\ \A i \in 1..Len(msgChan') : msgChan'[i] = msgChan[i + 1]
    BY <1>2, <2>1, HeadTail DEF Fill
  <2>4. TypeOK'
    <3>1. Len(msgChan') <= QueueCap /\ Len(batch') <= BatchCap
      BY <1>2, <2>1, <2>2, <2>3, Lengths
    <3>2. QED
      BY <2>0, <2>2, <2>3, <3>1 DEF IInv, TypeOK
  <2>5. LockInv' /\ CountInv' /\ SyncInv' /\ KernelInv'
    BY <2>0, SenderFrame DEF IInv, TypeOK
  <2>6. QueueInv'
    <3>1. msgChan[1] = completed + Len(batch) + 1
          /\ accepted = completed + Len(batch) + Len(msgChan)
      BY <2>1 DEF IInv, QueueInv
    <3>2. \A i \in 1..Len(msgChan') : msgChan'[i] = completed + Len(batch') + i
      BY <2>1, <2>2, <2>3 DEF IInv, QueueInv
    <3>3. \A i \in 1..Len(batch') : batch'[i] = completed + i
      <4>1. ASSUME NEW i \in 1..Len(batch) PROVE batch'[i] = completed + i
        BY <2>2, <4>1 DEF IInv, QueueInv
      <4>2. \A i \in 1..Len(batch') : i \in 1..Len(batch) \/ i = Len(batch')
        BY <2>1, <2>2
      <4>3. batch'[Len(batch')] = completed + Len(batch')
        BY <2>1, <2>2, <3>1
      <4>4. QED
        BY <4>1, <4>2, <4>3
    <3>4. QED
      BY <2>0, <2>1, <2>2, <2>3, <3>1, <3>2, <3>3 DEF QueueInv
  <2>7. StoredInv'
    BY <2>0 DEF IInv, StoredInv
  <2>8. QED
    BY <2>4, <2>5, <2>6, <2>7 DEF IInv
<1>3. CASE Fill /\ ~(Len(batch) < BatchCap /\ msgChan # <<>>)
  <2> USE <1>3 DEF Fill
  <2>1. TypeOK' /\ QueueInv' /\ StoredInv'
    BY DEF IInv, TypeOK, QueueInv, StoredInv
  <2>2. LockInv' /\ CountInv' /\ SyncInv' /\ KernelInv'
    BY SenderFrame DEF IInv, TypeOK
  <2>3. QED
    BY <2>1, <2>2 DEF IInv
<1>4. CASE SendOk \/ SendFails
  <2> USE <1>4 DEF SendOk, SendFails
  <2>1. stored' \in {stored, stored \cup Messages(batch)}
        /\ (sender' = "complete" => stored' = stored \cup Messages(batch))
        /\ sender' \in {"complete", "backoff"}
    OBVIOUS
  <2>2. completed \in Nat /\ Len(batch) \in Nat /\ sender = "send"
    BY DEF IInv, TypeOK
  <2>3. stored \cup Messages(batch) = 1..(completed + Len(batch))
    <3>1. CASE stored = 1..completed
      BY <3>1, MessagesOf DEF IInv
    <3>2. CASE stored = 1..(completed + Len(batch))
      BY <3>2, MessagesOf DEF IInv
    <3>3. QED
      BY <2>2, <3>1, <3>2 DEF IInv, StoredInv
  <2>4. stored' \in SUBSET Nat
    BY <2>1, <2>2, <2>3 DEF IInv, TypeOK
  <2>5. TypeOK' /\ QueueInv'
    BY <2>1, <2>2, <2>4 DEF IInv, TypeOK, QueueInv
  <2>6. StoredInv'
    BY <2>1, <2>2, <2>3 DEF IInv, StoredInv
  <2>7. LockInv' /\ CountInv' /\ SyncInv' /\ KernelInv'
    BY SenderFrame DEF IInv, TypeOK
  <2>8. QED
    BY <2>5, <2>6, <2>7 DEF IInv
<1>5. CASE Retry
  <2> USE <1>5 DEF Retry
  <2>1. TypeOK' /\ QueueInv' /\ StoredInv'
    BY DEF IInv, TypeOK, QueueInv, StoredInv
  <2>2. LockInv' /\ CountInv' /\ SyncInv' /\ KernelInv'
    BY SenderFrame DEF IInv, TypeOK
  <2>3. QED
    BY <2>1, <2>2 DEF IInv
<1>6. CASE Complete
  <2> USE <1>6, NoMessages DEF Complete
  <2>1. completed \in Nat /\ Len(batch) \in Nat /\ completed' = completed + Len(batch)
    BY DEF IInv, TypeOK
  <2>2. TypeOK'
    BY <2>1 DEF IInv, TypeOK
  <2>3. LockInv' /\ CountInv' /\ SyncInv' /\ KernelInv'
    BY <2>1, SenderFrame
  <2>4. QueueInv'
    BY <2>1 DEF IInv, TypeOK, QueueInv
  <2>5. StoredInv'
    BY <2>1 DEF IInv, StoredInv
  <2>6. QED
    BY <2>2, <2>3, <2>4, <2>5 DEF IInv
<1>7. QED
  BY <1>1, <1>2, <1>3, <1>4, <1>5, <1>6 DEF SenderStep

-----------------------------------------------------------------------------
(* The writers.                                                            *)

Labels == {"idle", "write", "writing", "counting", "sync", "syncing", "exit"}

LEMMA SameQueue ==
  ASSUME IInv, UNCHANGED <<msgChan, completed, sender, batch, stored, accepted>>
  PROVE  QueueInv' /\ StoredInv'
  BY DEF IInv, QueueInv, StoredInv

(* A writer that neither starts nor ends counting goes elsewhere.          *)
LEMMA CountMove ==
  ASSUME IInv, NEW w \in Writers, NEW l, pc[w] # "counting", l # "counting",
         pc' = [pc EXCEPT ![w] = l], UNCHANGED <<accepted, issued>>
  PROVE  CountInv'
<1>1. (\E v \in Writers : pc'[v] = "counting") <=> (\E v \in Writers : pc[v] = "counting")
  BY DEF IInv, TypeOK
<1>2. QED
  BY <1>1 DEF IInv, CountInv

(* Nobody but the holder of the lock is counting.                          *)
LEMMA OneCounts ==
  ASSUME IInv, NEW w \in Writers, lock = w PROVE \A v \in Writers : pc[v] = "counting" => v = w
  BY DEF IInv, LockInv

(* A call that has not synced yet moves on without changing what is due.   *)
LEMMA SyncMove ==
  ASSUME IInv, NEW w \in Writers, pc[w] \notin {"syncing", "exit"},
         NEW l \in Labels \ {"syncing"}, pc' = [pc EXCEPT ![w] = l],
         UNCHANGED <<target, due, completed>>
  PROVE  SyncInv'
<1>1. due[w] = 0 /\ completed \in Nat
  BY DEF IInv, TypeOK, SyncInv, SyncOf
<1>2. QED
  BY <1>1 DEF IInv, TypeOK, SyncInv, SyncOf, Labels

LEMMA CallStep ==
  ASSUME IInv, NEW w \in Writers, NEW f \in BOOLEAN, Call(w, f)
  PROVE  /\ LockInv' /\ CountInv' /\ SyncInv' /\ QueueInv' /\ StoredInv'
         /\ pc' \in [Writers -> Labels] /\ fatal' \in [Writers -> BOOLEAN]
<1> USE DEF Call, sinkVars
<1>1. pc' \in [Writers -> Labels]
  BY DEF IInv, TypeOK, Labels
<1>2. fatal' \in [Writers -> BOOLEAN]
  BY DEF IInv, TypeOK
<1>3. LockInv'
  BY DEF IInv, TypeOK, LockInv
<1>4. CountInv'
  BY CountMove
<1>5. SyncInv'
  BY SyncMove DEF Labels
<1>6. QueueInv' /\ StoredInv'
  BY SameQueue
<1>7. QED
  BY <1>1, <1>2, <1>3, <1>4, <1>5, <1>6

LEMMA LogStep == ASSUME IInv, NEW w \in Loggers, Log(w) PROVE IInv'
<1>1. PICK f \in BOOLEAN : Call(w, f)
  BY DEF Log
<1>2. /\ LockInv' /\ CountInv' /\ SyncInv' /\ QueueInv' /\ StoredInv'
      /\ pc' \in [Writers -> Labels] /\ fatal' \in [Writers -> BOOLEAN]
  BY <1>1, CallStep DEF Writers
<1>3. TypeOK'
  <2>1. calls' \in Nat
    BY DEF IInv, TypeOK, Log
  <2>2. QED
    BY <1>1, <1>2, <2>1 DEF IInv, TypeOK, Log, Call, sinkVars, Labels
<1>4. KernelInv'
  BY <1>1 DEF IInv, KernelInv, Log, Call, sinkVars
<1>5. QED
  BY <1>2, <1>3, <1>4 DEF IInv

LEMMA LockWriteStep == ASSUME IInv, NEW w \in Writers, LockWrite(w) PROVE IInv'
<1> USE DEF LockWrite, Acquire, sinkVars, relayVars
<1>1. TypeOK'
  BY DEF IInv, TypeOK
<1>2. LockInv'
  BY SinkAssumption DEF IInv, TypeOK, LockInv, Writers
<1>3. CountInv'
  BY CountMove
<1>4. SyncInv'
  BY SyncMove DEF Labels
<1>5. QueueInv' /\ StoredInv' /\ KernelInv'
  BY SameQueue DEF IInv, KernelInv
<1>6. QED
  BY <1>1, <1>2, <1>3, <1>4, <1>5 DEF IInv

LEMMA WriteStep == ASSUME IInv, NEW w \in Writers, Write(w) PROVE IInv'
<1>0. /\ pc[w] = "writing" /\ lock = w
      /\ UNCHANGED <<sink, issued, completed, sender, batch, stored, fatal, target, due, exited,
                      relayVars>>
  BY DEF IInv, LockInv, Write
<1>1. KernelInv'
  BY <1>0 DEF IInv, KernelInv, relayVars
<1>2. CASE Len(msgChan) < QueueCap /\ msgChan' = Append(msgChan, accepted + 1)
           /\ accepted' = accepted + 1 /\ pc' = [pc EXCEPT ![w] = "counting"] /\ lock' = lock
  <2>1. accepted \in Nat /\ completed \in Nat /\ msgChan \in Seq(Nat)
    BY DEF IInv, TypeOK
  <2>2. /\ msgChan' \in Seq(Nat) /\ Len(msgChan') = Len(msgChan) + 1
        /\ msgChan'[Len(msgChan')] = accepted + 1
        /\ \A i \in 1..Len(msgChan) : msgChan'[i] = msgChan[i]
    <3>1. accepted + 1 \in Nat
      BY <2>1
    <3>2. QED
      BY ONLY <1>2, <2>1, <3>1, AppendTo
  <2>3. TypeOK'
    <3>1. Len(msgChan') <= QueueCap
      BY <1>2, <2>2, Lengths
    <3>2. pc' \in [Writers -> Labels] /\ accepted' \in Nat
      BY <1>2, <2>1 DEF IInv, TypeOK, Labels
    <3>3. TypeOK
      BY DEF IInv
    <3>4. QED
      BY ONLY <1>0, <1>2, <2>2, <3>1, <3>2, <3>3 DEF TypeOK, Labels, relayVars
  <2>4. LockInv'
    BY <1>0, <1>2 DEF IInv, TypeOK, LockInv
  <2>5. CountInv'
    <3>1. ~\E v \in Writers : pc[v] = "counting"
      BY <1>0, OneCounts
    <3>2. \E v \in Writers : pc'[v] = "counting"
      BY <1>2 DEF IInv, TypeOK
    <3>3. QED
      BY <1>0, <1>2, <3>1, <3>2 DEF IInv, CountInv, TypeOK
  <2>6. SyncInv'
    BY <1>0, <1>2, SyncMove DEF Labels
  <2>7. QueueInv'
    <3>1. accepted = completed + Len(batch) + Len(msgChan)
      BY DEF IInv, QueueInv
    <3>2. Len(batch) \in Nat /\ Len(msgChan) \in Nat
      BY Lengths
    <3>3. \A i \in 1..Len(msgChan') : msgChan'[i] = completed + Len(batch) + i
      <4>1. ASSUME NEW i \in 1..Len(msgChan) PROVE msgChan'[i] = completed + Len(batch) + i
        BY <2>2, <4>1 DEF IInv, QueueInv
      <4>2. \A i \in 1..Len(msgChan') : i \in 1..Len(msgChan) \/ i = Len(msgChan')
        BY <2>2, <3>2
      <4>3. msgChan'[Len(msgChan')] = completed + Len(batch) + Len(msgChan')
        BY <2>1, <2>2, <3>1, <3>2
      <4>4. QED
        BY <4>1, <4>2, <4>3
    <3>4. accepted' = completed' + Len(batch') + Len(msgChan')
      BY <1>0, <1>2, <2>1, <2>2, <3>1, <3>2
    <3>5. QED
      BY <1>0, <3>3, <3>4 DEF IInv, QueueInv
  <2>8. StoredInv'
    BY <1>0 DEF IInv, StoredInv
  <2>9. QED
    BY <1>1, <2>3, <2>4, <2>5, <2>6, <2>7, <2>8 DEF IInv
<1>3. ASSUME NEW l \in {"sync", "exit", "idle"}, pc' = [pc EXCEPT ![w] = l], lock' = None,
             UNCHANGED <<accepted, msgChan>>
      PROVE  IInv'
  <2> USE <1>0, <1>3
  <2>1. TypeOK'
    BY DEF IInv, TypeOK, relayVars
  <2>2. LockInv'
    BY DEF IInv, TypeOK, LockInv
  <2>3. CountInv'
    BY CountMove
  <2>4. SyncInv'
    BY SyncMove DEF Labels
  <2>5. QueueInv' /\ StoredInv'
    BY SameQueue
  <2>6. QED
    BY <1>1, <2>1, <2>2, <2>3, <2>4, <2>5 DEF IInv
<1>4. QED
  BY <1>2, <1>3 DEF Write, WriteReturns, WriteFails

LEMMA CountStep == ASSUME IInv, NEW w \in Writers, Count(w) PROVE IInv'
<1>0. /\ pc[w] = "counting" /\ lock = w /\ lock' = None /\ issued' = issued + 1
      /\ UNCHANGED <<sink, msgChan, completed, sender, batch, stored, accepted,
                      fatal, target, due, exited, relayVars>>
  BY DEF IInv, LockInv, Count, WriteReturns
<1>1. PICK l \in {"sync", "idle"} : pc' = [pc EXCEPT ![w] = l]
  BY DEF Count, WriteReturns
<1>2. TypeOK'
  BY <1>0, <1>1 DEF IInv, TypeOK, relayVars
<1>3. LockInv'
  BY <1>0, <1>1 DEF IInv, TypeOK, LockInv
<1>4. CountInv'
  <2>1. accepted = issued + 1 /\ issued \in Nat
    BY <1>0 DEF IInv, CountInv, TypeOK
  <2>2. ~\E v \in Writers : pc'[v] = "counting"
    BY <1>0, <1>1, OneCounts DEF IInv, TypeOK
  <2>3. QED
    BY <1>0, <2>1, <2>2 DEF CountInv
<1>5. SyncInv'
  BY <1>0, <1>1, SyncMove DEF Labels
<1>6. QueueInv' /\ StoredInv' /\ KernelInv'
  BY <1>0, SameQueue DEF IInv, KernelInv, relayVars
<1>7. QED
  BY <1>2, <1>3, <1>4, <1>5, <1>6 DEF IInv

(* With the lock free nobody is counting, so issuedMessages is exact when  *)
(* Sync reads it.                                                          *)
LEMMA LockSyncStep == ASSUME IInv, NEW w \in Writers, LockSync(w) PROVE IInv'
<1> USE DEF LockSync, Acquire, sinkVars, relayVars
<1>1. TypeOK'
  BY DEF IInv, TypeOK
<1>2. LockInv'
  BY SinkAssumption DEF IInv, TypeOK, LockInv, Writers
<1>3. CountInv'
  BY CountMove
<1>4. accepted = issued
  <2>1. ~\E v \in Writers : pc[v] = "counting"
    BY SinkAssumption DEF IInv, LockInv, Writers
  <2>2. QED
    BY <2>1 DEF IInv, CountInv, TypeOK
<1>5. SyncInv'
  BY <1>4 DEF IInv, TypeOK, SyncInv, SyncOf
<1>6. QueueInv' /\ StoredInv' /\ KernelInv'
  BY SameQueue DEF IInv, KernelInv
<1>7. QED
  BY <1>1, <1>2, <1>3, <1>5, <1>6 DEF IInv

LEMMA SyncReturnsStep == ASSUME IInv, NEW w \in Writers, SyncReturns(w) PROVE IInv'
<1> USE DEF SyncReturns, sinkVars, relayVars
<1>1. TypeOK'
  BY DEF IInv, TypeOK
<1>2. LockInv'
  BY DEF IInv, TypeOK, LockInv
<1>3. CountInv'
  BY CountMove
<1>4. SyncInv'
  BY DEF IInv, TypeOK, SyncInv, SyncOf
<1>5. QueueInv' /\ StoredInv' /\ KernelInv'
  BY SameQueue DEF IInv, KernelInv
<1>6. QED
  BY <1>1, <1>2, <1>3, <1>4, <1>5 DEF IInv

-----------------------------------------------------------------------------
(* The process, homegw-rt and the relays.                                  *)

(* Steps that touch neither the queue nor the calls.                       *)
LEMMA QuietStep ==
  ASSUME IInv, TypeOK', KernelInv',
         UNCHANGED <<msgChan, issued, completed, sender, batch, stored, accepted, callVars>>
  PROVE  IInv'
<1> USE DEF callVars
<1>1. LockInv' /\ CountInv' /\ SyncInv'
  BY DEF IInv, LockInv, CountInv, SyncInv, SyncOf
<1>2. QED
  BY <1>1, SameQueue DEF IInv

LEMMA ProcessStep ==
  ASSUME IInv, SetupLogging \/ (\E w \in Writers : Exit(w)) \/ RtStart \/ RtLogs \/ RtEnds
               \/ RtEof \/ KmsgEnds \/ UNCHANGED vars
  PROVE  IInv'
<1> USE DEF SetupLogging, InitKafkaSink, Exit, RtStart, RtLogs, RtEnds, RtEof, KmsgEnds,
            vars, sinkVars, relayVars
<1>1. UNCHANGED <<msgChan, issued, completed, sender, batch, stored, accepted, callVars>>
  OBVIOUS
<1>2. exited' \in BOOLEAN /\ rtUp' \in BOOLEAN
  BY Zenon DEF IInv, TypeOK
<1>3. pipe' \in Nat /\ rtLines' \in Nat
  BY DEF IInv, TypeOK
<1>4. TypeOK'
  BY <1>1, <1>2, <1>3 DEF IInv, TypeOK, callVars
<1>5. KernelInv'
  BY DEF IInv, KernelInv
<1>6. QED
  BY <1>1, <1>4, <1>5, QuietStep

(* The relays log as any goroutine does; that of /dev/kmsg waits until a   *)
(* batch has been completed.                                               *)
LEMMA RelaySteps ==
  ASSUME IInv, RtRelay \/ RtFatal \/ KmsgOpen \/ KmsgRelay PROVE IInv'
<1>0. {rt, kmsg} \subseteq Writers /\ FALSE \in BOOLEAN /\ TRUE \in BOOLEAN
  BY Zenon DEF Writers
<1>1. CASE kernel' = "on" /\ kernel = "waiting" /\ KmsgOpen
           /\ UNCHANGED <<sinkVars, callVars, exited>>
  <2>1. TypeOK' /\ KernelInv'
    BY <1>1 DEF IInv, TypeOK, KernelInv, KmsgOpen, sinkVars, callVars
  <2>2. QED
    BY <1>1, <2>1, QuietStep DEF sinkVars
<1>2. ASSUME NEW w \in Writers, NEW f \in BOOLEAN, Call(w, f),
             pipe' \in Nat, kLines' \in Nat, UNCHANGED <<rtUp, calls, rtLines>>,
             scan' \in {"off", "on", "ended"}, kernel' \in {"waiting", "on", "ended"},
             kernel' # "waiting" => completed > 0
      PROVE  IInv'
  <2>1. /\ LockInv' /\ CountInv' /\ SyncInv' /\ QueueInv' /\ StoredInv'
        /\ pc' \in [Writers -> Labels] /\ fatal' \in [Writers -> BOOLEAN]
    BY <1>2, CallStep
  <2>2. TypeOK'
    BY <1>2, <2>1 DEF IInv, TypeOK, Call, sinkVars, Labels
  <2>3. KernelInv'
    BY <1>2 DEF KernelInv, Call, sinkVars
  <2>4. QED
    BY <2>1, <2>2, <2>3 DEF IInv
<1>3. CASE RtRelay
  <2>1. pipe' \in Nat /\ scan' \in {"off", "on", "ended"} /\ UNCHANGED <<rtUp, kernel, calls, rtLines, kLines>>
    BY <1>3 DEF RtRelay, IInv, TypeOK
  <2>2. Call(rt, FALSE)
    BY <1>3 DEF RtRelay
  <2>3. QED
    BY <1>0, <1>2, <2>1, <2>2 DEF IInv, TypeOK, KernelInv
<1>4. CASE RtFatal
  <2>1. Call(rt, TRUE) /\ UNCHANGED relayVars
    BY <1>4 DEF RtFatal
  <2>2. QED
    BY <1>0, <1>2, <2>1 DEF relayVars, IInv, TypeOK, KernelInv
<1>5. CASE KmsgOpen /\ Call(kmsg, FALSE) /\ kernel' = "ended"
  BY <1>0, <1>2, <1>5 DEF KmsgOpen, IInv, TypeOK
<1>6. CASE KmsgRelay
  <2>1. kLines' \in Nat
    BY <1>6 DEF KmsgRelay, IInv, TypeOK
  <2>call. /\ Call(kmsg, FALSE) /\ kernel = "on"
        /\ UNCHANGED <<rtUp, pipe, scan, kernel, calls, rtLines>>
    BY <1>6 DEF KmsgRelay
  <2>2. QED
    BY <1>0, <1>2, <2>1, <2>call DEF IInv, TypeOK, KernelInv
<1>7. QED
  BY <1>1, <1>3, <1>4, <1>5, <1>6 DEF KmsgOpen

-----------------------------------------------------------------------------
LEMMA IInvNext == IInv /\ [Next]_vars => IInv'
<1> SUFFICES ASSUME IInv, [Next]_vars PROVE IInv'
  OBVIOUS
<1>1. ASSUME NEW w \in Loggers, Log(w) PROVE IInv'
  BY <1>1, LogStep
<1>2. ASSUME NEW w \in Writers, WriterStep(w) PROVE IInv'
  BY <1>2, LockWriteStep, WriteStep, CountStep, LockSyncStep, SyncReturnsStep, ProcessStep
     DEF WriterStep
<1>3. CASE SenderStep
  BY <1>3, SenderSteps
<1>4. CASE SetupLogging \/ RtStart \/ RtLogs \/ RtEnds \/ RtEof \/ KmsgEnds \/ UNCHANGED vars
  BY <1>4, ProcessStep
<1>5. CASE RtRelay \/ RtFatal \/ KmsgOpen \/ KmsgRelay
  BY <1>5, RelaySteps
<1>6. QED
  BY <1>1, <1>2, <1>3, <1>4, <1>5 DEF Next, RelayStep, Ended

(* Every reachable state satisfies the inductive invariant.                *)
THEOREM Invariant == Spec => []IInv
  BY IInvInit, IInvNext, PTL DEF Spec

(* Every reachable state is well typed; in particular neither the queue    *)
(* nor a batch outgrows its capacity.                                      *)
THEOREM TypeCorrect == Spec => []TypeOK
<1>1. IInv => TypeOK
  BY DEF IInv
<1>2. QED
  BY <1>1, Invariant, PTL

(* Through retries, lost answers and full queues, what the broker has is a *)
(* prefix of the accepted messages, and the rest is batched or queued in   *)
(* order: nothing accepted is lost or overtaken.                           *)
THEOREM InOrder == Spec => []DeliveredInOrder
<1>1. ASSUME IInv PROVE DeliveredInOrder
  <2> DEFINE rest == [i \in 1..(accepted - completed) |-> completed + i]
  <2>1. /\ batch \in Seq(Nat) /\ msgChan \in Seq(Nat) /\ accepted \in Nat /\ completed \in Nat
        /\ Len(batch) \in Nat /\ Len(msgChan) \in Nat
    BY <1>1, Lengths DEF IInv, TypeOK
  <2>2. accepted - completed = Len(batch) + Len(msgChan)
    BY <1>1, <2>1 DEF IInv, QueueInv
  <2>3. batch \o msgChan = rest
    <3>1. batch \o msgChan \in Seq(Nat) /\ Len(batch \o msgChan) = Len(batch) + Len(msgChan)
      BY <2>1
    <3>2. ASSUME NEW i \in 1..(accepted - completed) PROVE (batch \o msgChan)[i] = completed + i
      <4>1. CASE i <= Len(batch)
        <5>1. (batch \o msgChan)[i] = batch[i]
          BY <2>1, <2>2, <4>1
        <5>2. QED
          BY <1>1, <2>1, <2>2, <4>1, <5>1 DEF IInv, QueueInv
      <4>2. CASE i > Len(batch)
        <5>1. (batch \o msgChan)[i] = msgChan[i - Len(batch)]
          BY <2>1, <2>2, <4>2
        <5>2. i - Len(batch) \in 1..Len(msgChan)
          BY <2>1, <2>2, <4>2
        <5>3. msgChan[i - Len(batch)] = completed + Len(batch) + (i - Len(batch))
          BY <1>1, <5>2 DEF IInv, QueueInv
        <5>4. QED
          BY <2>1, <2>2, <5>1, <5>3
      <4>3. i <= Len(batch) \/ i > Len(batch)
        BY <2>1
      <4>4. QED
        BY <4>1, <4>2, <4>3
    <3>3. batch \o msgChan = [i \in 1..Len(batch \o msgChan) |-> (batch \o msgChan)[i]]
      BY <3>1, AsFunction
    <3>4. QED
      BY <2>2, <3>1, <3>2, <3>3
  <2>4. \E n \in completed..accepted : stored = 1..n
    <3>1. completed \in completed..accepted /\ completed + Len(batch) \in completed..accepted
      BY <2>1, <2>2
    <3>2. QED
      BY <1>1, <3>1 DEF IInv, StoredInv
  <2>5. QED
    BY <2>3, <2>4 DEF DeliveredInOrder
<1>2. QED
  BY <1>1, Invariant, PTL

(* Everything the queue had accepted when a Fatal call's Sync began is     *)
(* with the broker when that call ends the process, for any number of      *)
(* concurrent writers.                                                     *)
THEOREM FatalSynced == Spec => []SyncDelivers
<1>1. ASSUME IInv PROVE SyncDelivers
  <2> SUFFICES ASSUME NEW w \in Writers, pc[w] = "exit" PROVE 1..due[w] \subseteq stored
    BY DEF SyncDelivers
  <2>1. due[w] \in Nat /\ completed \in Nat /\ due[w] <= completed /\ Len(batch) \in Nat
    BY <1>1, Lengths DEF IInv, TypeOK, SyncInv, SyncOf
  <2>2. 1..completed \subseteq stored
    BY <1>1, <2>1 DEF IInv, StoredInv
  <2>3. QED
    BY <2>1, <2>2
<1>2. QED
  BY <1>1, Invariant, PTL

(* The kernel's log is not relayed before the broker has got a message.    *)
THEOREM KernelLogAfterDelivery == Spec => []KernelLogWaits
<1>1. ASSUME IInv PROVE KernelLogWaits
  <2>1. completed \in Nat /\ Len(batch) \in Nat
    BY <1>1, Lengths DEF IInv, TypeOK
  <2>2. completed > 0 => 1 \in stored
    BY <1>1, <2>1 DEF IInv, StoredInv
  <2>3. QED
    BY <1>1, <2>2 DEF IInv, KernelInv, KernelLogWaits
<1>2. QED
  BY <1>1, Invariant, PTL
=============================================================================
