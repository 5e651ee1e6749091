----------------------------- MODULE QuicRelay -----------------------------
(***************************************************************************)
(* The QUIC server of homegw-init (http.go, startQuicServer) and the relay *)
(* of a "quicssh" connection's streams to the local SSH server             *)
(* (sshrelay.go).                                                          *)
(*                                                                         *)
(* Every connection is served by a goroutine that holds a slot of a        *)
(* semaphore.  A relayed stream has a goroutine of its own and two copying *)
(* goroutines, which may outlive the one that serves the connection.       *)
(***************************************************************************)
EXTENDS Integers, FiniteSets

CONSTANTS
  Conns,       \* QUIC connections clients make
  QuicCap,     \* max_concurrent_quic_connections (100 when it is 0)
  AcceptFails, \* may quicServer.Accept fail?
  MaxStreams   \* BOUND: streams a client opens on a connection

ASSUME QuicAssumption ==
  /\ QuicCap \in Nat \ {0} /\ MaxStreams \in Nat /\ AcceptFails \in BOOLEAN

VARIABLES
  acc,   \* the accept loop: "off", "slot", "accept", "ended"
  sem,   \* slots taken
  conn,  \* conn[c]: "away", "waiting", "h3", "relay", "gone"
  up,    \* up[c]: the connection's context is not done
  pc,    \* pc[c]: relayToLocalSSH: "slot", "accept"
  one,   \* one[c]: its semaphore of one stream
  str,   \* str[c]: the stream's goroutine: "none", "dial", "copy"
  toQuic, toSsh,  \* [c]: the copying goroutines: "off", in a "read" or in a "write"
  sshd,  \* sshd[c]: the SSH server's end of the TCP connection is open
  fin,   \* fin[c]: the client has closed its direction of the stream
  deadline,       \* deadline[c]: SetReadDeadline(time.Now()) was called
  opened          \* opened[c]: streams opened, at most MaxStreams

streamVars == <<one, str, toQuic, toSsh, sshd, fin, deadline, opened>>
vars == <<acc, sem, conn, up, pc, streamVars>>

Serving == {c \in Conns : conn[c] \in {"h3", "relay"}}

Init ==
  /\ acc = "off" /\ sem = 0
  /\ conn = [c \in Conns |-> "away"] /\ up = [c \in Conns |-> FALSE]
  /\ pc = [c \in Conns |-> "slot"] /\ one = [c \in Conns |-> 0]
  /\ str = [c \in Conns |-> "none"]
  /\ toQuic = [c \in Conns |-> "off"] /\ toSsh = toQuic
  /\ sshd = up /\ fin = up /\ deadline = up
  /\ opened = [c \in Conns |-> 0]

-----------------------------------------------------------------------------
(* startQuicServer: a failing UDP or QUIC listen is logged, and the server *)
(* does without QUIC.                                                      *)
StartQuicServer ==
  /\ acc = "off"
  /\ acc' \in {"slot", "ended"}
  /\ UNCHANGED <<sem, conn, up, pc, streamVars>>

(* A client's handshake completes; the connection waits for Accept.        *)
Connect(c) ==
  /\ acc # "off" /\ conn[c] = "away"
  /\ conn' = [conn EXCEPT ![c] = "waiting"] /\ up' = [up EXCEPT ![c] = TRUE]
  /\ UNCHANGED <<acc, sem, pc, streamVars>>

(* The client closes the connection, or it times out.                      *)
Lose(c) ==
  /\ up[c]
  /\ up' = [up EXCEPT ![c] = FALSE]
  /\ UNCHANGED <<acc, sem, conn, pc, streamVars>>

TakeSlot ==
  /\ acc = "slot" /\ sem < QuicCap
  /\ sem' = sem + 1 /\ acc' = "accept"
  /\ UNCHANGED <<conn, up, pc, streamVars>>

(* Accept returns a waiting connection, even one that has ended meanwhile. *)
Accept(c) ==
  /\ acc = "accept" /\ conn[c] = "waiting"
  /\ conn' = [conn EXCEPT ![c] = "h3"] \/ conn' = [conn EXCEPT ![c] = "relay"]
  /\ acc' = "slot"
  /\ UNCHANGED <<sem, up, pc, streamVars>>

(* A failed Accept ends the loop, with the slot it took.                   *)
AcceptError ==
  /\ AcceptFails /\ acc = "accept"
  /\ acc' = "ended"
  /\ UNCHANGED <<sem, conn, up, pc, streamVars>>

(* Mutant: the slot is given back only when the connection is closed here. *)
Return_KeepsSlot(c) ==
  /\ conn' = [conn EXCEPT ![c] = "gone"] /\ up' = [up EXCEPT ![c] = FALSE]
  /\ sem' = IF up[c] THEN sem - 1 ELSE sem
  /\ UNCHANGED acc

(* The serving goroutine's deferred calls: close the connection, then give *)
(* the slot back.                                                          *)
Return(c) ==
  /\ conn' = [conn EXCEPT ![c] = "gone"] /\ up' = [up EXCEPT ![c] = FALSE]
  /\ sem' = sem - 1
  /\ UNCHANGED acc

(* ServeQUICConn returns when the connection is done.                      *)
H3Done(c) ==
  /\ conn[c] = "h3" /\ ~up[c]
  /\ Return(c)
  /\ UNCHANGED <<pc, streamVars>>

-----------------------------------------------------------------------------
(* relayToLocalSSH.                                                        *)

RelaySlot(c) ==
  /\ conn[c] = "relay" /\ pc[c] = "slot" /\ one[c] = 0
  /\ one' = [one EXCEPT ![c] = 1] /\ pc' = [pc EXCEPT ![c] = "accept"]
  /\ UNCHANGED <<acc, sem, conn, up, str, toQuic, toSsh, sshd, fin, deadline, opened>>

(* The other case of its select, and a failing AcceptStream.               *)
RelayDone(c) ==
  /\ conn[c] = "relay" /\ ~up[c]
  /\ Return(c)
  /\ UNCHANGED <<pc, streamVars>>

(* The client opens a stream; its goroutine starts.                        *)
RelayAccept(c) ==
  /\ conn[c] = "relay" /\ pc[c] = "accept" /\ up[c] /\ opened[c] < MaxStreams
  /\ opened' = [opened EXCEPT ![c] = @ + 1]
  /\ pc' = [pc EXCEPT ![c] = "slot"] /\ str' = [str EXCEPT ![c] = "dial"]
  /\ fin' = [fin EXCEPT ![c] = FALSE]
  /\ UNCHANGED <<acc, sem, conn, up, one, toQuic, toSsh, sshd, deadline>>

(* Mutant: the stream's slot is given back once its copies are started.    *)
Dial_FreesSlot(c) ==
  /\ str[c] = "dial" /\ up[c]
  /\ str' = [str EXCEPT ![c] = "copy"] /\ one' = [one EXCEPT ![c] = 0]
  /\ toQuic' = [toQuic EXCEPT ![c] = "read"] /\ toSsh' = [toSsh EXCEPT ![c] = "read"]
  /\ sshd' = [sshd EXCEPT ![c] = TRUE] /\ deadline' = [deadline EXCEPT ![c] = FALSE]
  /\ UNCHANGED <<acc, sem, conn, up, pc, fin, opened>>

(* The dial succeeds, or fails (for certain when the connection is done).  *)
Dial(c) ==
  /\ str[c] = "dial" /\ up[c]
  /\ str' = [str EXCEPT ![c] = "copy"]
  /\ toQuic' = [toQuic EXCEPT ![c] = "read"] /\ toSsh' = [toSsh EXCEPT ![c] = "read"]
  /\ sshd' = [sshd EXCEPT ![c] = TRUE] /\ deadline' = [deadline EXCEPT ![c] = FALSE]
  /\ UNCHANGED <<acc, sem, conn, up, pc, one, fin, opened>>

DialError(c) ==
  /\ str[c] = "dial"
  /\ str' = [str EXCEPT ![c] = "none"] /\ one' = [one EXCEPT ![c] = 0]
  /\ UNCHANGED <<acc, sem, conn, up, pc, toQuic, toSsh, sshd, fin, deadline, opened>>

(* The SSH server closes its end: the session is over, or it was killed.   *)
SshdCloses(c) ==
  /\ str[c] = "copy" /\ sshd[c]
  /\ sshd' = [sshd EXCEPT ![c] = FALSE]
  /\ UNCHANGED <<acc, sem, conn, up, pc, one, str, toQuic, toSsh, fin, deadline, opened>>

(* The client closes its direction of the stream.                          *)
ClientCloses(c) ==
  /\ str[c] = "copy" /\ up[c] /\ ~fin[c]
  /\ fin' = [fin EXCEPT ![c] = TRUE]
  /\ UNCHANGED <<acc, sem, conn, up, pc, one, str, toQuic, toSsh, sshd, deadline, opened>>

(* io.Copy(stream, sshConn): what the SSH server sends is written to the   *)
(* stream, which takes as long as the client's flow control wants.         *)
ToQuicMoves(c, from, to) ==
  /\ toQuic[c] = from
  /\ toQuic' = [toQuic EXCEPT ![c] = to]
  /\ UNCHANGED <<acc, sem, conn, up, pc, one, str, toSsh, sshd, fin, deadline, opened>>

ToQuicReads(c)   == sshd[c] /\ ~deadline[c] /\ ToQuicMoves(c, "read", "write")
ToQuicWritten(c) == up[c] /\ ToQuicMoves(c, "write", "read")

(* It ends at the SSH server's end or the read deadline, and at a write    *)
(* that fails: the connection is done, or the client stops the stream.     *)
ToQuicEnds(c) ==
  \/ (~sshd[c] \/ deadline[c]) /\ ToQuicMoves(c, "read", "off")
  \/ ~up[c] /\ ToQuicMoves(c, "write", "off")

ToQuicStopped(c) == up[c] /\ ToQuicMoves(c, "write", "off")

(* io.Copy(sshConn, stream): what the client sends is written to the SSH   *)
(* server, which may be slow to read it.                                   *)
ToSshMoves(c, from, to) ==
  /\ toSsh[c] = from
  /\ toSsh' = [toSsh EXCEPT ![c] = to]
  /\ UNCHANGED <<acc, sem, conn, up, pc, one, str, toQuic, sshd, fin, opened>>

ToSshReads(c)   == up[c] /\ ~fin[c] /\ ToSshMoves(c, "read", "write") /\ UNCHANGED deadline
ToSshWritten(c) == sshd[c] /\ ToSshMoves(c, "write", "read") /\ UNCHANGED deadline

(* Mutant: no read deadline is set.                                        *)
ToSshReturns_NoDeadline(c, from) == ToSshMoves(c, from, "off") /\ UNCHANGED deadline

(* The copy is over; the read of the other one must not last.              *)
ToSshReturns(c, from) ==
  /\ ToSshMoves(c, from, "off")
  /\ deadline' = [deadline EXCEPT ![c] = TRUE]

(* It ends at the client's end or the connection's, and at a write that    *)
(* fails because the SSH server is gone.                                   *)
ToSshEnds(c) ==
  \/ (fin[c] \/ ~up[c]) /\ ToSshReturns(c, "read")
  \/ ~sshd[c] /\ ToSshReturns(c, "write")

(* wg.Wait returns: both ends are closed and the stream's slot is free.    *)
StreamEnds(c) ==
  /\ str[c] = "copy" /\ toQuic[c] = "off" /\ toSsh[c] = "off"
  /\ str' = [str EXCEPT ![c] = "none"] /\ one' = [one EXCEPT ![c] = 0]
  /\ sshd' = [sshd EXCEPT ![c] = FALSE]
  /\ UNCHANGED <<acc, sem, conn, up, pc, toQuic, toSsh, fin, deadline, opened>>

-----------------------------------------------------------------------------
Client(c) == Connect(c) \/ Lose(c) \/ ClientCloses(c) \/ RelayAccept(c)

Serve(c) == H3Done(c) \/ RelaySlot(c) \/ RelayDone(c)

Copy(c) ==
  \/ ToQuicReads(c) \/ ToQuicWritten(c) \/ ToQuicEnds(c) \/ ToQuicStopped(c)
  \/ ToSshReads(c) \/ ToSshWritten(c) \/ ToSshEnds(c)
  \/ StreamEnds(c)

Stream(c) == Dial(c) \/ DialError(c)

Next ==
  \/ StartQuicServer \/ TakeSlot \/ AcceptError
  \/ \E c \in Conns :
       \/ Client(c) \/ Accept(c) \/ Serve(c) \/ Stream(c) \/ Copy(c)
       \/ SshdCloses(c)

(* Goroutines run (their log calls return, see LogSink), an accept loop    *)
(* that finds a connection waiting gets it, and a dial ends.  Nothing is   *)
(* assumed of clients or of the SSH server, so a write may last for ever.  *)
Fairness ==
  /\ WF_vars(TakeSlot) /\ \A c \in Conns : WF_vars(Accept(c))
  /\ \A c \in Conns : WF_vars(H3Done(c)) /\ WF_vars(RelayDone(c)) /\ WF_vars(Stream(c))
  /\ \A c \in Conns : WF_vars(ToQuicEnds(c)) /\ WF_vars(ToSshEnds(c)) /\ WF_vars(StreamEnds(c))

Spec     == Init /\ [][Next]_vars
FairSpec == Spec /\ Fairness

-----------------------------------------------------------------------------
TypeOK ==
  /\ acc \in {"off", "slot", "accept", "ended"}
  /\ sem \in 0..QuicCap
  /\ conn \in [Conns -> {"away", "waiting", "h3", "relay", "gone"}]
  /\ pc \in [Conns -> {"slot", "accept"}]
  /\ one \in [Conns -> {0, 1}] /\ opened \in [Conns -> 0..MaxStreams]
  /\ str \in [Conns -> {"none", "dial", "copy"}]
  /\ {toQuic, toSsh} \subseteq [Conns -> {"off", "read", "write"}]
  /\ {up, sshd, fin, deadline} \subseteq [Conns -> BOOLEAN]

(* However connections end, and in whatever order their goroutines return, *)
(* the slots taken are those of the connections being served and the one   *)
(* the accept loop holds ahead (http.go:208-219).                          *)
SlotsAccounted ==
  sem \in {Cardinality(Serving) + n : n \in IF acc = "accept" THEN {1}
                                            ELSE IF acc = "ended" THEN {0, 1} ELSE {0}}

(* A connection relays one stream at a time (sshrelay.go:16): while its    *)
(* goroutine waits for the next, the previous one is gone, together with   *)
(* its SSH connection and both copies.                                     *)
OneStream ==
  \A c \in Conns : conn[c] = "relay" /\ pc[c] = "accept" =>
    str[c] = "none" /\ toQuic[c] = "off" /\ toSsh[c] = "off" /\ ~sshd[c]

(* When the QUIC connection or the client's direction of the stream ends,  *)
(* the SSH connection is closed, even when the SSH server is silent        *)
(* (sshrelay.go:63), and even when the serving goroutine has returned,     *)
(* unless a copy is stuck in a write: the read deadline does not end that, *)
(* only the client or the SSH server does by reading.                      *)
RelayEnds ==
  \A c \in Conns :
    WF_vars(ToQuicWritten(c)) /\ WF_vars(ToSshWritten(c)) =>
      (str[c] = "copy" /\ (~up[c] \/ fin[c]) ~> str[c] = "none")

(* A full server serves the next connection as soon as one ends: when all  *)
(* end at some time, none waits for ever, unless the accept loop is over.  *)
AcceptedInTheEnd ==
  (\A c \in Conns : <>[]~up[c]) =>
    \A c \in Conns : conn[c] = "waiting" ~> (conn[c] # "waiting" \/ acc = "ended")
=============================================================================
