------------------------ MODULE PortConnectionProofs -------------------------
(***************************************************************************)
(* What the driver promises about its connection, for every number of      *)
(* exchanges and troubles.  The inductive invariant adds to the two        *)
(* properties where a request or an answer can be, and which operation may *)
(* find the driver connected.                                              *)
(***************************************************************************)
EXTENDS PortConnection, TLAPS

Busy == pc \in {"send", "receive"}

Empty == toPlc = <<>> /\ fromPlc = <<>>

\* Messages are only under way in an exchange, or before the connection is closed.
NoLeftovers ==
  /\ pc \notin {"receive", "disconnect"} => Empty
  /\ pc = "disconnect" => connected \/ Empty
  /\ pc = "receive" => \/ Empty
                       \/ toPlc = <<current>> /\ fromPlc = <<>>
                       \/ toPlc = <<>> /\ fromPlc = <<current>>

\* Exchanges belong to asynConnect before the driver is connected, to a transfer after.
JobFits ==
  Busy => /\ left > 0
          /\ job \in {"connect", "transfer"}
          /\ connected <=> job = "transfer"

IInv == TypeOK /\ NoLeftovers /\ JobFits /\ ExceptionsAlternate

------------------------------------------------------------------------------
\* The messages of one exchange are sequences with one element.
LEMMA OneMessage ==
  ASSUME NEW S, NEW w \in S
  PROVE /\ <<w>> \in Seq(S) /\ <<>> \in Seq(S)
        /\ Append(<<>>, w) = <<w>> /\ Head(<<w>>) = w /\ Tail(<<w>>) = <<>>
        /\ <<w>> # <<>> /\ Len(<<w>>) = 1 /\ <<w>>[1] = w
OBVIOUS

\* The sequence number wraps around within its range.
LEMMA NextWord ==
  ASSUME NEW w \in Words
  PROVE (w + 1) % NumWords \in Words
BY ConnectionAssumption DEF Words

LEMMA InitInv == Init => IInv
<1>1. Init => TypeOK
  <2>1. 0 \in Words
    BY ConnectionAssumption DEF Words
  <2>2. 0 \in 0..MaxTroubles /\ 0 \in Nat
    BY ConnectionAssumption
  <2>3. <<>> \in Seq(Words)
    OBVIOUS
  <2> SUFFICES ASSUME Init
               PROVE TypeOK
    OBVIOUS
  <2>4. connected \in BOOLEAN /\ portConnected \in BOOLEAN
    BY DEF Init
  <2> QED
    BY <2>1, <2>2, <2>3, <2>4 DEF Init, TypeOK
<1> QED
  BY <1>1 DEF Init, IInv, NoLeftovers, Empty, JobFits, Busy, ExceptionsAlternate

------------------------------------------------------------------------------
(***************************************************************************)
(* Every step keeps the types.                                             *)
(***************************************************************************)
LEMMA TypeStep == TypeOK /\ JobFits /\ [Next]_vars => TypeOK'
<1> SUFFICES ASSUME TypeOK, JobFits, [Next]_vars
             PROVE TypeOK'
  OBVIOUS
<1> USE ConnectionAssumption DEF TypeOK
<1>s. <<>> \in Seq(Words)
  OBVIOUS
<1>t. Trouble => troubles' \in 0..MaxTroubles
  BY DEF Trouble
<1>1. CASE PlcAnswers
  BY <1>1 DEF PlcAnswers, view
<1>2. CASE PeerCloses
  BY <1>2, <1>s, <1>t DEF PeerCloses, view
<1>3. CASE StartConnect
  BY <1>3, <1>s DEF StartConnect, view
<1>4. CASE CannotConnect
  BY <1>4, <1>s, <1>t DEF CannotConnect, Close, view
<1>5. CASE StartTransfer
  BY <1>5 DEF StartTransfer, view, pipe
<1>6. CASE StartDisconnect
  BY <1>6, <1>t DEF StartDisconnect, view, pipe
<1>7. CASE Send
  BY <1>7, NextWord DEF Send, view
<1>8. CASE SendFails
  <2>1. troubles' \in 0..MaxTroubles
    BY <1>8 DEF SendFails
  <2>2. /\ socket' \in {"closed", "open", "reset"} /\ pc' \in {"idle", "disconnect"}
        /\ toPlc' \in {<<>>, toPlc} /\ fromPlc' \in {<<>>, fromPlc}
    BY <1>8 DEF SendFails, Fail, Close
  <2> QED
    BY <1>8, <1>s, <2>1, <2>2 DEF SendFails, view
<1>9. CASE Receive
  <2>1. left' \in Nat
    BY <1>9 DEF Receive, JobFits, Busy
  <2>2. fromPlc' \in Seq(Words)
    BY <1>9 DEF Receive
  <2>3. /\ connected' \in BOOLEAN
        /\ pc' \in {"send", "raiseConnect", "idle"}
    BY <1>9 DEF Receive
  <2> QED
    BY <1>9, <2>1, <2>2, <2>3 DEF Receive
<1>10. CASE ReceiveError
  <2>1. /\ socket' \in {"closed", "open", "reset"} /\ pc' \in {"idle", "disconnect"}
        /\ toPlc' \in {<<>>, toPlc} /\ fromPlc' \in {<<>>, Tail(fromPlc)}
    BY <1>10 DEF ReceiveError, Close
  <2>2. Tail(fromPlc) \in Seq(Words)
    BY <1>10 DEF ReceiveError
  <2> QED
    BY <1>10, <1>s, <1>t, <2>1, <2>2 DEF ReceiveError, view
<1>11. CASE ReceiveFails
  <2>1. troubles' \in 0..MaxTroubles
    BY <1>11 DEF ReceiveFails
  <2>2. /\ socket' \in {"closed", "open", "reset"} /\ pc' \in {"idle", "disconnect"}
        /\ toPlc' \in {<<>>, toPlc} /\ fromPlc' \in {<<>>, fromPlc}
    BY <1>11 DEF ReceiveFails, Fail, Close
  <2> QED
    BY <1>11, <1>s, <2>1, <2>2 DEF ReceiveFails, view
<1>12. CASE Disconnect
  BY <1>12, <1>s DEF Disconnect, Close, pipe
<1>13. CASE RaiseDisconnect
  BY <1>13 DEF RaiseDisconnect, pipe
<1>14. CASE RaiseConnect
  BY <1>14 DEF RaiseConnect, pipe
<1>15. CASE UNCHANGED vars
  BY <1>15 DEF vars
<1> QED
  BY <1>1, <1>2, <1>3, <1>4, <1>5, <1>6, <1>7, <1>8, <1>9, <1>10, <1>11, <1>12, <1>13,
     <1>14, <1>15 DEF Next, Operation

------------------------------------------------------------------------------
(***************************************************************************)
(* Every step keeps the connection's view and the operation in order.      *)
(***************************************************************************)
LEMMA ViewStep ==
  TypeOK /\ JobFits /\ ExceptionsAlternate /\ [Next]_vars
    => JobFits' /\ ExceptionsAlternate'
<1> SUFFICES ASSUME TypeOK, JobFits, ExceptionsAlternate, [Next]_vars
             PROVE JobFits' /\ ExceptionsAlternate'
  OBVIOUS
<1> USE DEF JobFits, Busy, ExceptionsAlternate
<1>b. connected \in BOOLEAN /\ portConnected \in BOOLEAN
  BY DEF TypeOK
<1>c. 1..MaxExchanges \subseteq Nat \ {0}
  OBVIOUS
<1>1. CASE PlcAnswers
  BY <1>1 DEF PlcAnswers, view
<1>2. CASE PeerCloses
  BY <1>2 DEF PeerCloses, view
<1>3. CASE StartConnect
  BY <1>3 DEF StartConnect, view
<1>4. CASE CannotConnect
  BY <1>4 DEF CannotConnect, Close, view
<1>5. CASE StartTransfer
  <2>1. connected' = TRUE /\ portConnected' = portConnected /\ connected = TRUE
    BY <1>5, <1>b DEF StartTransfer, view
  <2>2. job' = "transfer" /\ pc' = "send" /\ left' \in 1..MaxExchanges /\ pc = "idle"
    BY <1>5 DEF StartTransfer
  <2>3. left' > 0
    BY <2>2
  <2> QED
    BY <2>1, <2>2, <2>3
<1>6. CASE StartDisconnect
  BY <1>6, <1>b DEF StartDisconnect, view, pipe
<1>7. CASE Send
  BY <1>7 DEF Send, view
<1>8. CASE SendFails
  BY <1>8 DEF SendFails, Fail, Close, view
<1>9. CASE Receive
  BY <1>9 DEF Receive, TypeOK
<1>10. CASE ReceiveError
  BY <1>10 DEF ReceiveError, Close, view
<1>11. CASE ReceiveFails
  BY <1>11 DEF ReceiveFails, Fail, Close, view
<1>12. CASE Disconnect
  BY <1>12 DEF Disconnect, Close, pipe
<1>13. CASE RaiseDisconnect
  BY <1>13, <1>b DEF RaiseDisconnect, pipe
<1>14. CASE RaiseConnect
  BY <1>14, <1>b DEF RaiseConnect, pipe
<1>15. CASE UNCHANGED vars
  BY <1>15 DEF vars
<1> QED
  BY <1>1, <1>2, <1>3, <1>4, <1>5, <1>6, <1>7, <1>8, <1>9, <1>10, <1>11, <1>12, <1>13,
     <1>14, <1>15 DEF Next, Operation

------------------------------------------------------------------------------
(***************************************************************************)
(* No step leaves anything behind.                                         *)
(***************************************************************************)
LEMMA NoLeftoversStep == IInv /\ [Next]_vars => NoLeftovers'
<1> SUFFICES ASSUME IInv, [Next]_vars
             PROVE NoLeftovers'
  OBVIOUS
<1> USE DEF IInv, NoLeftovers, Empty
<1>w. current \in Words /\ cntword \in Words
  BY DEF TypeOK
<1>1. CASE PlcAnswers
  <2>1. pc = "disconnect" => connected
    BY <1>1 DEF PlcAnswers
  <2>2. CASE pc = "receive"
    <3>1. toPlc = <<current>> /\ fromPlc = <<>>
      BY <1>1, <2>2 DEF PlcAnswers
    <3>2. fromPlc' = <<current>> /\ toPlc' = <<>>
      BY <1>1, <3>1, <1>w, OneMessage DEF PlcAnswers
    <3> QED
      BY <1>1, <2>2, <3>2 DEF PlcAnswers
  <2> QED
    BY <1>1, <2>1, <2>2 DEF PlcAnswers, view
<1>2. CASE PeerCloses
  BY <1>2 DEF PeerCloses, view
<1>3. CASE StartConnect
  BY <1>3 DEF StartConnect
<1>4. CASE CannotConnect
  BY <1>4 DEF CannotConnect, Close
<1>5. CASE StartTransfer
  BY <1>5 DEF StartTransfer, pipe
<1>6. CASE StartDisconnect
  BY <1>6 DEF StartDisconnect, pipe
<1>7. CASE Send
  <2>1. toPlc' \in {<<>>, <<cntword>>} /\ fromPlc' = <<>>
    BY <1>7, <1>w, OneMessage DEF Send
  <2> QED
    BY <1>7, <2>1 DEF Send
<1>8. CASE SendFails
  BY <1>8 DEF SendFails, Fail, Close, view
<1>9. CASE Receive
  <2>1. toPlc = <<>> /\ fromPlc = <<current>>
    BY <1>9 DEF Receive
  <2>2. toPlc' = <<>> /\ fromPlc' = <<>>
    BY <1>9, <2>1, <1>w, OneMessage DEF Receive
  <2> QED
    BY <1>9, <2>2 DEF Receive
<1>10. CASE ReceiveError
  <2>1. toPlc = <<>> /\ fromPlc = <<current>>
    BY <1>10 DEF ReceiveError
  <2>2. toPlc' = <<>> /\ fromPlc' = <<>>
    BY <1>10, <2>1, <1>w, OneMessage DEF ReceiveError, Close
  <2> QED
    BY <1>10, <2>2 DEF ReceiveError
<1>11. CASE ReceiveFails
  BY <1>11 DEF ReceiveFails, Fail, BreaksConnection, Close, view, JobFits, Busy
<1>12. CASE Disconnect
  BY <1>12 DEF Disconnect, Close, pipe
<1>13. CASE RaiseDisconnect
  BY <1>13 DEF RaiseDisconnect, pipe
<1>14. CASE RaiseConnect
  BY <1>14 DEF RaiseConnect, pipe
<1>15. CASE UNCHANGED vars
  BY <1>15 DEF vars
<1> QED
  BY <1>1, <1>2, <1>3, <1>4, <1>5, <1>6, <1>7, <1>8, <1>9, <1>10, <1>11, <1>12, <1>13,
     <1>14, <1>15 DEF Next, Operation

------------------------------------------------------------------------------
\* The invariant of the connection.
THEOREM Invariance == Spec => []IInv
<1>1. IInv /\ [Next]_vars => IInv'
  BY TypeStep, ViewStep, NoLeftoversStep DEF IInv
<1> QED
  BY InitInv, <1>1, PTL DEF Spec

\* An answer that an operation takes is the answer to its own last request, whatever was
\* lost, delayed or cut off before (PortDriver.cc:226-240, 433-438, 463-475, 489-501).
THEOREM AnswersAreOwn == Spec => []NoForeignAnswer
<1>1. IInv => NoForeignAnswer
  <2> SUFFICES ASSUME IInv, pc = "receive", NEW k \in 1..Len(fromPlc)
               PROVE fromPlc[k] = current
    BY DEF NoForeignAnswer
  <2>1. current \in Words
    BY DEF IInv, TypeOK
  <2>2. fromPlc = <<>> \/ fromPlc = <<current>>
    BY DEF IInv, NoLeftovers, Empty
  <2> QED
    BY <2>1, <2>2
<1> QED
  BY Invariance, <1>1, PTL

\* asynManager is told of every connection and of every disconnection once
\* (PortDriver.cc:125-178).
THEOREM ViewsAgree == Spec => []ExceptionsAlternate
<1>1. IInv => ExceptionsAlternate
  BY DEF IInv
<1> QED
  BY Invariance, <1>1, PTL
==============================================================================
