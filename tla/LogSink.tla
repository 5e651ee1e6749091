------------------------------ MODULE LogSink ------------------------------
(***************************************************************************)
(* The Kafka log sink (homegw-libs/kafka-sink/lib.go) and its writers: the *)
(* goroutines of homegw-init, the relay of homegw-rt's log pipe            *)
(* (rt-control/lib.go) and the relay of /dev/kmsg (main.go).               *)
(*                                                                         *)
(* zap calls Write, and for a Fatal entry that Write took then Sync, each  *)
(* under the one lock of its output; after a Fatal entry it ends the       *)
(* process.  Messages are numbered in the order in which the queue accepts *)
(* them.  The sampler of zap may leave a call out: such a call never       *)
(* reaches the sink.                                                       *)
(***************************************************************************)
EXTENDS Integers, Sequences

CONSTANTS
  Loggers,   \* goroutines of homegw-init that log
  rt, kmsg,  \* the two relay goroutines
  None,      \* the lock is free
  QueueCap,  \* capacity of msgChan (1024 in the code)
  BatchCap,  \* messages that make up 256 KiB
  PipeCap,   \* lines the log pipe of homegw-rt holds
  MaxCalls,  \* BOUND: log calls of Loggers
  MaxLines   \* BOUND: lines logged by homegw-rt, and by the kernel

ASSUME SinkAssumption ==
  /\ QueueCap \in Nat \ {0} /\ BatchCap \in Nat \ {0} /\ PipeCap \in Nat \ {0}
  /\ MaxCalls \in Nat /\ MaxLines \in Nat
  /\ rt # kmsg /\ {rt, kmsg} \cap Loggers = {} /\ None \notin Loggers \cup {rt, kmsg}

Writers == Loggers \cup {rt, kmsg}

VARIABLES
  \* --- the sink ---
  sink,       \* "unset", "none" (no Kafka URL) or "open"
  msgChan,    \* queue of accepted messages
  issued,     \* issuedMessages
  completed,  \* completedMessages and TotalCompletedMessages
  sender,     \* where the sender goroutine is
  batch,      \* messages joined into the one being sent
  stored,     \* messages the broker has (a repeated one is stored twice)
  \* --- the writers ---
  lock,       \* holder of the output's lock
  pc,         \* where each log call is
  fatal,      \* is it a Fatal call?
  target,     \* currentIssuedMessages of its Sync
  exited,     \* the process has ended
  \* --- what is relayed ---
  rtUp,       \* homegw-rt runs
  pipe,       \* lines in its log pipe
  scan,       \* the pipe's scanner: "off", "on", "ended"
  kernel,     \* the /dev/kmsg relay: "waiting", "on", "ended"
  calls, rtLines, kLines,  \* bounded by MaxCalls and MaxLines
  \* --- history ---
  accepted,   \* messages the queue has accepted
  due         \* those it had accepted when the call's Sync began

sinkVars  == <<sink, msgChan, issued, completed, sender, batch, stored, accepted>>
relayVars == <<rtUp, pipe, scan, kernel, calls, rtLines, kLines>>
callVars  == <<lock, pc, fatal, target, due>>
vars == <<sinkVars, callVars, exited, relayVars>>

Init ==
  /\ sink = "unset" /\ msgChan = <<>> /\ issued = 0 /\ completed = 0
  /\ sender = "recv" /\ batch = <<>> /\ stored = {} /\ accepted = 0
  /\ lock = None /\ exited = FALSE
  /\ target = [w \in Writers |-> 0] /\ due = target
  /\ pc = [w \in Writers |-> "idle"] /\ fatal = [w \in Writers |-> FALSE]
  /\ rtUp = FALSE /\ pipe = 0 /\ scan = "off" /\ kernel = "waiting"
  /\ calls = 0 /\ rtLines = 0 /\ kLines = 0

(* A URL without a topic is an error, fatal to setupLogging, and a         *)
(* producer that cannot be made is a panic: nothing else has run by then.  *)
InitKafkaSink ==
  \/ sink' = "open" /\ exited' = FALSE
  \/ sink' = "unset" /\ exited' = TRUE

(* setupLogging: without a URL there is no sink.                           *)
SetupLogging ==
  /\ sink = "unset" /\ ~exited
  /\ InitKafkaSink \/ (sink' = "none" /\ exited' = FALSE)
  /\ UNCHANGED <<msgChan, issued, completed, sender, batch, stored, accepted,
                 callVars, relayVars>>

Running == ~exited /\ sink # "unset"

-----------------------------------------------------------------------------
(* The writers.                                                            *)

(* A goroutine calls the logger.                                           *)
Call(w, f) ==
  /\ Running /\ pc[w] = "idle"
  /\ pc' = [pc EXCEPT ![w] = "write"]
  /\ fatal' = [fatal EXCEPT ![w] = f]
  /\ UNCHANGED <<sinkVars, lock, target, due, exited>>

Log(w) ==
  /\ calls < MaxCalls /\ calls' = calls + 1
  /\ \E f \in BOOLEAN : Call(w, f)
  /\ UNCHANGED <<rtUp, pipe, scan, kernel, rtLines, kLines>>

(* zap's lock around Write, and around Sync.                               *)
Acquire(w, from, to) ==
  /\ Running /\ pc[w] = from /\ lock = None
  /\ lock' = w /\ pc' = [pc EXCEPT ![w] = to]

LockWrite(w) ==
  /\ Acquire(w, "write", "writing")
  /\ UNCHANGED <<sinkVars, fatal, target, due, exited, relayVars>>

(* Write returns and the lock is released; a Fatal call goes on to Sync.   *)
WriteReturns(w) ==
  /\ lock' = None
  /\ pc' = [pc EXCEPT ![w] = IF fatal[w] THEN "sync" ELSE "idle"]

(* With an error, zap neither retries nor syncs: a Fatal call ends the     *)
(* process at once.                                                        *)
WriteFails(w) ==
  /\ lock' = None
  /\ pc' = [pc EXCEPT ![w] = IF fatal[w] THEN "exit" ELSE "idle"]

(* Mutant: one message more than the queue holds.                          *)
Write_OneMore(w) ==
  /\ Running /\ pc[w] = "writing"
  /\ \/ /\ sink = "open" /\ Len(msgChan) <= QueueCap
        /\ accepted' = accepted + 1 /\ msgChan' = Append(msgChan, accepted + 1)
        /\ pc' = [pc EXCEPT ![w] = "counting"]
        /\ UNCHANGED lock
     \/ /\ sink = "open" /\ Len(msgChan) > QueueCap
        /\ WriteFails(w) /\ UNCHANGED <<accepted, msgChan>>
     \/ sink = "none" /\ WriteReturns(w) /\ UNCHANGED <<accepted, msgChan>>
  /\ UNCHANGED <<sink, issued, completed, sender, batch, stored, fatal, target, due, exited, relayVars>>

(* Mutant: a full queue makes Write wait.                                  *)
Write_Blocks(w) ==
  /\ Running /\ pc[w] = "writing"
  /\ \/ /\ sink = "open" /\ Len(msgChan) < QueueCap
        /\ accepted' = accepted + 1 /\ msgChan' = Append(msgChan, accepted + 1)
        /\ pc' = [pc EXCEPT ![w] = "counting"]
        /\ UNCHANGED lock
     \/ sink = "none" /\ WriteReturns(w) /\ UNCHANGED <<accepted, msgChan>>
  /\ UNCHANGED <<sink, issued, completed, sender, batch, stored, fatal, target, due, exited, relayVars>>

(* Mutant: a rejected message counts as issued.                            *)
Write_CountsRejected(w) ==
  /\ Running /\ pc[w] = "writing"
  /\ \/ /\ sink = "open" /\ Len(msgChan) < QueueCap
        /\ accepted' = accepted + 1 /\ msgChan' = Append(msgChan, accepted + 1)
        /\ pc' = [pc EXCEPT ![w] = "counting"]
        /\ UNCHANGED <<lock, issued>>
     \/ /\ sink = "open" /\ Len(msgChan) = QueueCap
        /\ issued' = issued + 1
        /\ WriteFails(w) /\ UNCHANGED <<accepted, msgChan>>
     \/ sink = "none" /\ WriteReturns(w) /\ UNCHANGED <<accepted, msgChan, issued>>
  /\ UNCHANGED <<sink, completed, sender, batch, stored, fatal, target, due, exited, relayVars>>

(* Write offers the message to the queue, and gives up when it is full.    *)
Write(w) ==
  /\ Running /\ pc[w] = "writing"
  /\ \/ /\ sink = "open" /\ Len(msgChan) < QueueCap
        /\ accepted' = accepted + 1 /\ msgChan' = Append(msgChan, accepted + 1)
        /\ pc' = [pc EXCEPT ![w] = "counting"]
        /\ UNCHANGED lock
     \/ /\ sink = "open" /\ Len(msgChan) = QueueCap
        /\ WriteFails(w) /\ UNCHANGED <<accepted, msgChan>>
     \/ sink = "none" /\ WriteReturns(w) /\ UNCHANGED <<accepted, msgChan>>
  /\ UNCHANGED <<sink, issued, completed, sender, batch, stored, fatal, target, due, exited, relayVars>>

Count(w) ==
  /\ Running /\ pc[w] = "counting"
  /\ issued' = issued + 1 /\ WriteReturns(w)
  /\ UNCHANGED <<sink, msgChan, completed, sender, batch, stored, accepted,
                 fatal, target, due, exited, relayVars>>

(* Sync loads issuedMessages, then polls completedMessages.                *)
LockSync(w) ==
  /\ Acquire(w, "sync", "syncing")
  /\ target' = [target EXCEPT ![w] = issued] /\ due' = [due EXCEPT ![w] = accepted]
  /\ UNCHANGED <<sinkVars, fatal, exited, relayVars>>

(* Mutant: Sync is content with one message less.                          *)
SyncReturns_OffByOne(w) ==
  /\ Running /\ pc[w] = "syncing" /\ completed + 1 >= target[w]
  /\ lock' = None /\ pc' = [pc EXCEPT ![w] = "exit"]
  /\ UNCHANGED <<sinkVars, fatal, target, due, exited, relayVars>>

SyncReturns(w) ==
  /\ Running /\ pc[w] = "syncing" /\ completed >= target[w]
  /\ lock' = None /\ pc' = [pc EXCEPT ![w] = "exit"]
  /\ UNCHANGED <<sinkVars, fatal, target, due, exited, relayVars>>

Exit(w) ==
  /\ Running /\ pc[w] = "exit"
  /\ exited' = TRUE
  /\ UNCHANGED <<sinkVars, callVars, relayVars>>

-----------------------------------------------------------------------------
(* The sender goroutine.  Its sleep of one second is the time it stays in  *)
(* "recv".                                                                 *)

Receive ==
  /\ Running /\ sender = "recv" /\ msgChan # <<>>
  /\ batch' = <<Head(msgChan)>> /\ msgChan' = Tail(msgChan)
  /\ sender' = "fill"
  /\ UNCHANGED <<sink, issued, completed, stored, accepted, callVars, exited, relayVars>>

(* The batch takes what is queued until it is large enough.                *)
Fill ==
  /\ Running /\ sender = "fill"
  /\ IF Len(batch) < BatchCap /\ msgChan # <<>>
     THEN /\ batch' = Append(batch, Head(msgChan)) /\ msgChan' = Tail(msgChan)
          /\ UNCHANGED sender
     ELSE sender' = "send" /\ UNCHANGED <<batch, msgChan>>
  /\ UNCHANGED <<sink, issued, completed, stored, accepted, callVars, exited, relayVars>>

Messages(s) == {s[i] : i \in 1..Len(s)}

(* SendMessage succeeds: the broker has the batch.                         *)
SendOk ==
  /\ Running /\ sender = "send"
  /\ stored' = stored \cup Messages(batch)
  /\ sender' = "complete"
  /\ UNCHANGED <<sink, msgChan, issued, completed, batch, accepted, callVars, exited, relayVars>>

(* Mutant: a failed batch is given up and counted all the same.            *)
SendFails_GivesUp ==
  /\ Running /\ sender = "send"
  /\ sender' = "complete" /\ stored' \in {stored, stored \cup Messages(batch)}
  /\ UNCHANGED <<sink, msgChan, issued, completed, batch, accepted, callVars, exited, relayVars>>

(* Mutant: a failed send ends the sender goroutine.                        *)
SendFails_Ends ==
  /\ Running /\ sender = "send"
  /\ sender' = "ended" /\ stored' \in {stored, stored \cup Messages(batch)}
  /\ UNCHANGED <<sink, msgChan, issued, completed, batch, accepted, callVars, exited, relayVars>>

(* It fails, with the batch stored (the answer is lost) or not.            *)
SendFails ==
  /\ Running /\ sender = "send"
  /\ sender' = "backoff" /\ stored' \in {stored, stored \cup Messages(batch)}
  /\ UNCHANGED <<sink, msgChan, issued, completed, batch, accepted, callVars, exited, relayVars>>

Retry ==
  /\ Running /\ sender = "backoff"
  /\ sender' = "send"
  /\ UNCHANGED <<sink, msgChan, issued, completed, batch, stored, accepted,
                 callVars, exited, relayVars>>

Complete ==
  /\ Running /\ sender = "complete"
  /\ completed' = completed + Len(batch) /\ batch' = <<>>
  /\ sender' = "recv"
  /\ UNCHANGED <<sink, msgChan, issued, stored, accepted, callVars, exited, relayVars>>

-----------------------------------------------------------------------------
(* homegw-rt: NewRtControl starts it with the log pipe; it logs and may    *)
(* end at any time.                                                        *)

RtStart ==
  /\ Running /\ scan = "off"
  /\ scan' = "on" /\ rtUp' = TRUE
  /\ UNCHANGED <<sinkVars, callVars, exited, pipe, kernel, calls, rtLines, kLines>>

RtLogs ==
  /\ Running /\ rtUp /\ pipe < PipeCap /\ rtLines < MaxLines
  /\ pipe' = pipe + 1 /\ rtLines' = rtLines + 1
  /\ UNCHANGED <<sinkVars, callVars, exited, rtUp, scan, kernel, calls, kLines>>

RtEnds ==
  /\ Running /\ rtUp
  /\ rtUp' = FALSE
  /\ UNCHANGED <<sinkVars, callVars, exited, pipe, scan, kernel, calls, rtLines, kLines>>

(* The relay logs every line, one that does not parse as an error, and     *)
(* stops with an error at a line too long for its scanner.                 *)
RtRelay ==
  /\ scan = "on" /\ pipe > 0
  /\ Call(rt, FALSE)
  /\ pipe' = pipe - 1 /\ scan' \in {"on", "ended"}
  /\ UNCHANGED <<rtUp, kernel, calls, rtLines, kLines>>

RtEof ==
  /\ Running /\ scan = "on" /\ pipe = 0 /\ ~rtUp /\ pc[rt] = "idle"
  /\ scan' = "ended"
  /\ UNCHANGED <<sinkVars, callVars, exited, rtUp, pipe, kernel, calls, rtLines, kLines>>

(* The deferred call at the relay's end: "homegw-rt exited".               *)
RtFatal ==
  /\ scan = "ended"
  /\ Call(rt, TRUE)
  /\ UNCHANGED relayVars

(* Mutant: the kernel's log is relayed from the start.                     *)
KmsgOpen_NoWait ==
  /\ kernel = "waiting"
  /\ \/ kernel' = "on" /\ Running /\ UNCHANGED <<sinkVars, callVars, exited>>
     \/ kernel' = "ended" /\ Call(kmsg, FALSE)
  /\ UNCHANGED <<rtUp, pipe, scan, calls, rtLines, kLines>>

(* relayKernelLogs starts after the first completed batch; when /dev/kmsg  *)
(* does not open it says so and ends.                                      *)
KmsgOpen ==
  /\ kernel = "waiting" /\ completed > 0
  /\ \/ kernel' = "on" /\ Running /\ UNCHANGED <<sinkVars, callVars, exited>>
     \/ kernel' = "ended" /\ Call(kmsg, FALSE)
  /\ UNCHANGED <<rtUp, pipe, scan, calls, rtLines, kLines>>

KmsgRelay ==
  /\ kernel = "on" /\ kLines < MaxLines
  /\ Call(kmsg, FALSE) /\ kLines' = kLines + 1
  /\ UNCHANGED <<rtUp, pipe, scan, kernel, calls, rtLines>>

(* A read error (the ring buffer overran the reader) ends the relay.       *)
KmsgEnds ==
  /\ Running /\ kernel = "on" /\ pc[kmsg] = "idle"
  /\ kernel' = "ended"
  /\ UNCHANGED <<sinkVars, callVars, exited, rtUp, pipe, scan, calls, rtLines, kLines>>

Ended == exited /\ UNCHANGED vars

-----------------------------------------------------------------------------
WriterStep(w) ==
  LockWrite(w) \/ Write(w) \/ Count(w) \/ LockSync(w) \/ SyncReturns(w) \/ Exit(w)

SenderStep == Receive \/ Fill \/ SendOk \/ SendFails \/ Retry \/ Complete

RelayStep == RtRelay \/ RtEof \/ RtFatal

Next ==
  \/ SetupLogging
  \/ \E w \in Loggers : Log(w)
  \/ \E w \in Writers : WriterStep(w)
  \/ SenderStep
  \/ RtStart \/ RtLogs \/ RtEnds \/ RelayStep
  \/ KmsgOpen \/ KmsgRelay \/ KmsgEnds
  \/ Ended

(* Goroutines run; a sync.Mutex hands itself to a goroutine that waits for *)
(* long.  Nothing is assumed of the broker.                                *)
Fairness ==
  /\ WF_vars(SenderStep) /\ WF_vars(RelayStep)
  /\ \A w \in Writers : WF_vars(WriterStep(w)) /\ SF_vars(LockWrite(w) \/ LockSync(w))

Spec     == Init /\ [][Next]_vars
FairSpec == Spec /\ Fairness

-----------------------------------------------------------------------------
TypeOK ==
  /\ sink \in {"unset", "none", "open"}
  /\ msgChan \in Seq(Nat) /\ Len(msgChan) <= QueueCap
  /\ batch \in Seq(Nat) /\ Len(batch) <= BatchCap
  /\ {issued, completed, accepted, pipe, calls, rtLines, kLines} \subseteq Nat
  /\ sender \in {"recv", "fill", "send", "backoff", "complete"}
  /\ stored \in SUBSET Nat
  /\ lock \in Writers \cup {None}
  /\ pc \in [Writers -> {"idle", "write", "writing", "counting", "sync", "syncing", "exit"}]
  /\ fatal \in [Writers -> BOOLEAN]
  /\ target \in [Writers -> Nat] /\ due \in [Writers -> Nat]
  /\ exited \in BOOLEAN /\ rtUp \in BOOLEAN
  /\ scan \in {"off", "on", "ended"} /\ kernel \in {"waiting", "on", "ended"}

(* Through retries, lost answers and full queues the broker gets every     *)
(* accepted message, none before its predecessor: what it has is a prefix  *)
(* of the accepted ones, and what is neither batched nor queued is there.  *)
DeliveredInOrder ==
  /\ batch \o msgChan = [i \in 1..(accepted - completed) |-> completed + i]
  /\ \E n \in completed..accepted : stored = 1..n

(* When a Fatal call has synced, and is about to end the process or has    *)
(* ended it, everything accepted before its Sync began is with the broker  *)
(* (lib.go:150-157), although writers and the sender share two counters    *)
(* that no lock covers together.                                           *)
SyncDelivers ==
  \A w \in Writers : pc[w] = "exit" =>
    1..due[w] \subseteq stored

(* "Don't start streaming until the remote end is ready to receive logs"   *)
(* (main.go:165).                                                          *)
KernelLogWaits == kernel # "waiting" => stored # {}

(* A log call returns although the broker may never answer (lib.go:139):   *)
(* only a Fatal call in progress can hold it up.                           *)
LogCallReturns ==
  \A w \in Writers : pc[w] = "write" ~>
    (pc[w] = "idle" \/ exited \/ \E v \in Writers : fatal[v] /\ pc[v] # "idle")

(* With a broker that answers again and again, the end of homegw-rt ends   *)
(* homegw-init (rt-control/lib.go:61), which lets the boot script start    *)
(* the emergency server.                                                   *)
RtEndEndsInit == SF_vars(SendOk) => (scan = "on" /\ ~rtUp ~> exited)

(* With such a broker, once the writers are quiet (their calls are bounded *)
(* here) every accepted message gets there, or the process ends.           *)
EventuallyDelivered == SF_vars(SendOk) => <>[](stored = 1..accepted \/ exited)
=============================================================================
