--------------------------- MODULE PortConnection ----------------------------
(***************************************************************************)
(* The connection of one port to its PLC: PortDriver with the Snap7 client *)
(* it uses.  Every operation is a number of exchanges of a request and an  *)
(* answer.  Snap7 does not look at the sequence number of an answer, so it *)
(* takes whatever arrives first for the answer to its last request.        *)
(*                                                                         *)
(* All callers of the driver hold the lock of the port: the port thread,   *)
(* which connects and serves the queue, the poll groups and initRecord.    *)
(* Hence there is one operation at a time.  A request or an answer is the  *)
(* sequence number of the request.  The bytes of an answer arrive at once. *)
(* An operator that is not used is a variant, with a bug, of the one that  *)
(* follows it.                                                             *)
(***************************************************************************)
EXTENDS Integers, Sequences

CONSTANTS
  NumWords,             \* sequence numbers wrap around here
  MaxExchanges,         \* exchanges of one transfer
  MaxTroubles           \* bound: things that go wrong, and disconnect calls of clients

ASSUME ConnectionAssumption ==
  /\ NumWords \in Nat \ {0}
  /\ MaxExchanges \in Nat \ {0}
  /\ MaxTroubles \in Nat

VARIABLES
  connected,            \* PortDriver::connected
  portConnected,        \* what asynManager has been told by the exceptions
  socket,               \* "closed", "open" or "reset": closed by the peer
  toPlc, fromPlc,       \* requests and answers under way
  cntword,              \* next sequence number
  current,              \* sequence number of the last request
  job, left,            \* the operation and the number of exchanges that are left
  pc,
  troubles

vars == <<connected, portConnected, socket, toPlc, fromPlc, cntword, current, job, left, pc,
          troubles>>

pipe == <<toPlc, fromPlc>>
view == <<connected, portConnected>>

Words == 0..(NumWords - 1)

Trouble == troubles < MaxTroubles /\ troubles' = troubles + 1

------------------------------------------------------------------------------
Init ==
  /\ connected = FALSE /\ portConnected = FALSE
  /\ socket = "closed" /\ toPlc = <<>> /\ fromPlc = <<>>
  /\ cntword = 0 /\ current = 0
  /\ job = "none" /\ left = 0 /\ pc = "idle"
  /\ troubles = 0

------------------------------------------------------------------------------
(***************************************************************************)
(* The socket.                                                             *)
(***************************************************************************)
\* Closing the socket drops everything that is under way.
Close == socket' = "closed" /\ toPlc' = <<>> /\ fromPlc' = <<>>

PlcAnswers ==
  /\ socket = "open" /\ toPlc # <<>>
  /\ fromPlc' = Append(fromPlc, Head(toPlc))
  /\ toPlc' = Tail(toPlc)
  /\ UNCHANGED <<view, socket, cntword, current, job, left, pc, troubles>>

\* The peer closes the connection: what has arrived may still be read, or not.
PeerCloses ==
  /\ Trouble
  /\ socket = "open"
  /\ socket' = "reset"
  /\ toPlc' = <<>>
  /\ fromPlc' \in {fromPlc, <<>>}
  /\ UNCHANGED <<view, cntword, current, job, left, pc>>

------------------------------------------------------------------------------
(***************************************************************************)
(* Operations of the port.  asynManager calls asynConnect whenever it has  *)
(* been told that the port is disconnected.                                *)
(***************************************************************************)
\* The exchanges of asynConnect: the ISO connection request and the PDU length.
StartConnect ==
  /\ pc = "idle" /\ ~portConnected
  /\ socket' = "open" /\ toPlc' = <<>> /\ fromPlc' = <<>>
  /\ job' = "connect" /\ left' = 2 /\ pc' = "send"
  /\ UNCHANGED <<view, cntword, current, troubles>>

\* The host name cannot be resolved, or nobody listens.
CannotConnect ==
  /\ Trouble
  /\ pc = "idle" /\ ~portConnected
  /\ Close
  /\ UNCHANGED <<view, cntword, current, job, left, pc>>

\* A read or a write; none of them does anything while the driver is not connected.
StartTransfer ==
  /\ pc = "idle" /\ connected
  /\ job' = "transfer" /\ left' \in 1..MaxExchanges /\ pc' = "send"
  /\ UNCHANGED <<view, socket, pipe, cntword, current, troubles>>

StartDisconnect ==
  /\ Trouble
  /\ pc = "idle"
  /\ job' = "disconnect" /\ pc' = "disconnect"
  /\ UNCHANGED <<view, socket, pipe, cntword, current, left>>

------------------------------------------------------------------------------
(***************************************************************************)
(* An exchange, and what the driver makes of its result.                   *)
(***************************************************************************)
BreaksConnectionOnSend(error) == error \in {"errIsoSendPacket", "errIsoShortPacket"}
BreaksConnection(error) ==
  error \in {"errIsoRecvPacket", "errIsoSendPacket", "errIsoShortPacket"}

\* A connection that cannot be established is given up.  A transfer fails, and if the
\* error comes from the connection, the port is disconnected.
Fail(error) ==
  IF job = "connect" THEN Close /\ pc' = "idle"
  ELSE /\ pc' = IF BreaksConnection(error) THEN "disconnect" ELSE "idle"
       /\ UNCHANGED <<socket, toPlc>>
       /\ fromPlc' = IF error = "errIsoRecvPacket" THEN <<>> ELSE fromPlc

\* The peer may have closed the connection without the socket noticing it yet.
Send ==
  /\ pc = "send"
  /\ socket # "closed"
  /\ toPlc' = IF socket = "open" THEN Append(toPlc, cntword) ELSE toPlc
  /\ current' = cntword
  /\ cntword' = (cntword + 1) % NumWords
  /\ pc' = "receive"
  /\ UNCHANGED <<view, socket, fromPlc, job, left, troubles>>

SendFails ==
  /\ pc = "send"
  /\ socket = "open" => troubles < MaxTroubles
  /\ troubles' = IF socket = "open" THEN troubles + 1 ELSE troubles
  /\ Fail("errIsoSendPacket")
  /\ UNCHANGED <<view, cntword, current, job, left>>

\* An answer arrives in time; it is another exchange's turn or the operation is done.
Receive ==
  /\ pc = "receive"
  /\ fromPlc # <<>>
  /\ fromPlc' = Tail(fromPlc)
  /\ left' = left - 1
  /\ IF left > 1 THEN pc' = "send" /\ UNCHANGED connected
     ELSE IF job = "connect" THEN pc' = "raiseConnect" /\ connected' = TRUE
     ELSE pc' = "idle" /\ UNCHANGED connected
  /\ UNCHANGED <<portConnected, socket, toPlc, cntword, current, job, troubles>>

\* The answer is an error of the PLC.
ReceiveError ==
  /\ Trouble
  /\ pc = "receive"
  /\ fromPlc # <<>>
  /\ IF job = "connect" THEN Close /\ pc' = "idle"
     ELSE /\ fromPlc' = Tail(fromPlc)
          /\ pc' = IF BreaksConnection("cpuError") THEN "disconnect" ELSE "idle"
          /\ UNCHANGED <<socket, toPlc>>
  /\ UNCHANGED <<view, cntword, current, job, left>>

\* No answer arrives in time (RecvPacket purges the socket), or the peer has closed the
\* connection.
ReceiveFails ==
  /\ pc = "receive"
  /\ fromPlc = <<>>
  /\ socket = "open" => troubles < MaxTroubles
  /\ troubles' = IF socket = "open" THEN troubles + 1 ELSE troubles
  /\ Fail("errIsoRecvPacket")
  /\ UNCHANGED <<view, cntword, current, job, left>>

------------------------------------------------------------------------------
(***************************************************************************)
(* asynDisconnect, called by asynManager or by a transfer that failed.     *)
(***************************************************************************)
DisconnectUnchecked ==
  /\ pc = "disconnect"
  /\ Close /\ connected' = FALSE /\ pc' = "raiseDisconnect"
  /\ UNCHANGED <<portConnected, cntword, current, job, left, troubles>>

DisconnectSilently ==
  /\ pc = "disconnect"
  /\ Close /\ connected' = FALSE /\ pc' = "idle"
  /\ UNCHANGED <<portConnected, cntword, current, job, left, troubles>>

Disconnect ==
  /\ pc = "disconnect"
  /\ IF connected
     THEN Close /\ connected' = FALSE /\ pc' = "raiseDisconnect"
     ELSE pc' = "idle" /\ UNCHANGED <<connected, socket, pipe>>
  /\ UNCHANGED <<portConnected, cntword, current, job, left, troubles>>

\* exceptionDisconnect and exceptionConnect, called after connectMutex was released.
RaiseDisconnect ==
  /\ pc = "raiseDisconnect"
  /\ portConnected' = FALSE
  /\ pc' = "idle"
  /\ UNCHANGED <<connected, socket, pipe, cntword, current, job, left, troubles>>

RaiseConnect ==
  /\ pc = "raiseConnect"
  /\ portConnected' = TRUE
  /\ pc' = "idle"
  /\ UNCHANGED <<connected, socket, pipe, cntword, current, job, left, troubles>>

------------------------------------------------------------------------------
Operation ==
  \/ Send \/ SendFails \/ Receive \/ ReceiveError \/ ReceiveFails
  \/ Disconnect \/ RaiseDisconnect \/ RaiseConnect

Next ==
  \/ PlcAnswers \/ PeerCloses
  \/ StartConnect \/ CannotConnect \/ StartTransfer \/ StartDisconnect
  \/ Operation

Spec == Init /\ [][Next]_vars

(***************************************************************************)
(* Fairness: asynManager retries to connect, the poll groups keep reading, *)
(* an operation that has begun goes on, and the PLC answers.  Whatever     *)
(* goes wrong uses up one of the troubles, so that it stops in the end.    *)
(***************************************************************************)
Fairness ==
  /\ WF_vars(StartConnect) /\ WF_vars(StartTransfer)
  /\ WF_vars(Operation) /\ WF_vars(PlcAnswers)

FairSpec == Spec /\ Fairness

------------------------------------------------------------------------------
(***************************************************************************)
(* Properties                                                              *)
(***************************************************************************)
TypeOK ==
  /\ connected \in BOOLEAN /\ portConnected \in BOOLEAN
  /\ socket \in {"closed", "open", "reset"}
  /\ toPlc \in Seq(Words) /\ fromPlc \in Seq(Words)
  /\ cntword \in Words /\ current \in Words
  /\ job \in {"none", "connect", "transfer", "disconnect"}
  /\ left \in Nat
  /\ pc \in {"idle", "send", "receive", "disconnect", "raiseConnect", "raiseDisconnect"}
  /\ troubles \in 0..MaxTroubles

\* A late answer is never taken for the answer to a later request, although nobody
\* compares sequence numbers: an operation whose answer did not arrive in time closes the
\* connection (PortDriver.cc:227-233), and a new one begins without leftovers.
NoForeignAnswer ==
  pc = "receive" => \A k \in 1..Len(fromPlc) : fromPlc[k] = current

\* asynManager is told of every change of the connection exactly once, and between two
\* operations its view and the driver's are the same, although asynDisconnect is called
\* by the driver itself as well as by clients, and the exceptions are raised outside of
\* connectMutex.
ExceptionsAlternate ==
  /\ pc = "raiseConnect" => connected /\ ~portConnected
  /\ pc = "raiseDisconnect" => ~connected /\ portConnected
  /\ pc \notin {"raiseConnect", "raiseDisconnect"} => connected = portConnected

\* When nothing goes wrong any more, the port ends up connected, and its socket works.
Recovers == <>[](connected /\ portConnected /\ socket = "open")
==============================================================================
