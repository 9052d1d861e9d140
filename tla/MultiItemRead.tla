---------------------------- MODULE MultiItemRead ----------------------------
(***************************************************************************)
(* PortDriver::asynPlcReadMultipleItems and its sendRequestToPlc loop,     *)
(* which packs the (optimized) read items of a poll group into as few      *)
(* ReadMultiVars requests as the PDU size negotiated with the PLC allows.  *)
(*                                                                         *)
(* One action per branch of the loop.  The std::list of the items not yet  *)
(* read is the set `items': the list keeps the order of the item numbers,  *)
(* so the iterator is `cursor', and it denotes the first item at or after  *)
(* that number.                                                            *)
(***************************************************************************)
EXTENDS Integers, FiniteSets

CONSTANTS
  NumItems,             \* number of items in the (optimized) list
  Lengths,              \* the values readBytes may have
  WordItems,            \* the items in the areas of the timers and counters
  PDULength,            \* PDU size negotiated with the PLC
  MaxVars               \* Snap7's limit of items per request (20)

ASSUME PDUAssumption ==
  /\ NumItems \in Nat
  /\ Lengths \subseteq Nat
  /\ WordItems \subseteq 1..NumItems
  /\ PDULength \in Nat /\ PDULength >= 24
  /\ MaxVars \in Nat \ {0}

Items == 1..NumItems

(***************************************************************************)
(* maxSizeOfPayload, maxNumberOfItemsPerRequest and effectiveReadBytes.    *)
(***************************************************************************)
MaxPayload == PDULength - 14

MaxItemsWithoutRequestSize == MaxVars

MaxItemsPerRequest ==
  LET byRequestSize == (PDULength - 12) \div 12
  IN  IF byRequestSize < MaxVars THEN byRequestSize ELSE MaxVars

\* Variants named ...Without..., ...Keeps... and the like are wrong versions of the
\* operator that follows them; the README lists which property notices which.
EffectiveBytesWithoutPadding(n) == n + 4

\* Bytes that an item of n bytes takes in the reply: a header of four bytes and
\* the data, padded to an even length.
EffectiveBytes(n) == n + (n % 2) + 4

\* Status codes of the Snap7 calls: "isoError" stands for the ISO send, receive and
\* short-packet errors, after which the connection is given up.
Errors == {"isoError", "otherError"}

VARIABLES
  readBytes,            \* length of each item
  connected,            \* PortDriver::connected
  items,                \* items still in the list
  cursor,               \* the iterator i
  itemsInPDU,           \* items of the request that is being built
  bytesLeft,
  itemsLeft,
  haveSentItemInThisRun,
  status,               \* status code of the last Snap7 call
  bytesRead,            \* bytesRead of each item
  itemStatus,           \* asynStatus of each item
  asked,                \* history: how often the PLC has sent each item
  pc,
  result                \* asynStatus returned to the poll group

vars == <<readBytes, connected, items, cursor, itemsInPDU, bytesLeft, itemsLeft,
          haveSentItemInThisRun, status, bytesRead, itemStatus, asked, pc, result>>

itemVars == <<bytesRead, itemStatus>>
pduVars  == <<itemsInPDU, bytesLeft, itemsLeft>>
callVars == <<readBytes, connected, result>>

------------------------------------------------------------------------------
Init ==
  /\ readBytes \in [Items -> Lengths]
  /\ connected \in BOOLEAN
  /\ items = Items
  /\ cursor = 1
  /\ itemsInPDU = {}
  /\ bytesLeft = MaxPayload
  /\ itemsLeft = MaxItemsPerRequest
  /\ haveSentItemInThisRun = FALSE
  /\ status = "noError"
  /\ bytesRead = [k \in Items |-> 0]
  /\ itemStatus = [k \in Items |-> "asynSuccess"]
  /\ asked = [k \in Items |-> 0]
  /\ pc = "call"
  /\ result = "none"

\* asynPlcReadMultipleItems without a connection only resets bytesRead.
CallDisconnected ==
  /\ pc = "call"
  /\ ~connected
  /\ bytesRead' = [k \in Items |-> 0]
  /\ result' = "asynDisconnected"
  /\ pc' = "returned"
  /\ UNCHANGED <<readBytes, connected, items, cursor, pduVars, haveSentItemInThisRun,
                 status, itemStatus, asked>>

CallConnected ==
  /\ pc = "call"
  /\ connected
  /\ pc' = "test"
  /\ UNCHANGED <<callVars, items, cursor, pduVars, haveSentItemInThisRun, status,
                 itemVars, asked>>

------------------------------------------------------------------------------
(***************************************************************************)
(* The head of the loop and the block that sends the request.              *)
(***************************************************************************)
AtEnd == \A k \in items : k < cursor

MustSendWithoutRunFlag ==
  itemsLeft = 0 \/ bytesLeft < 6 \/ AtEnd \/ items = {}

MustSendWithoutFullPass ==
  itemsLeft = 0 \/ bytesLeft < 6 \/ items = {}

MustSend ==
  \/ itemsLeft = 0
  \/ bytesLeft < 6
  \/ AtEnd /\ ~haveSentItemInThisRun
  \/ items = {}

Sending == pc = "test" /\ (items # {} \/ itemsInPDU # {}) /\ MustSend

\* What TSnap7MicroClient::opReadMultiVars asks the PLC for: it replaces the word length
\* of timers and counters, which have two bytes each, and leaves the amount as it is.
BytesAsked == [k \in Items |-> IF k \in WordItems THEN 2 * readBytes[k] ELSE readBytes[k]]

\* The checks that it makes before it sends.
RequestAccepted ==
  /\ Cardinality(itemsInPDU) <= MaxVars
  /\ 12 + 12 * Cardinality(itemsInPDU) <= PDULength

\* ReadMultiVars succeeds, and processPlcReadResult stores what each item got.
SendSucceeds ==
  /\ Sending
  /\ RequestAccepted
  /\ \E failed \in SUBSET itemsInPDU :
       /\ bytesRead' = [k \in Items |-> IF k \notin itemsInPDU THEN bytesRead[k]
                                        ELSE IF k \in failed THEN 0 ELSE readBytes[k]]
       /\ itemStatus' = [k \in Items |-> IF k \notin itemsInPDU THEN itemStatus[k]
                                         ELSE IF k \in failed THEN "asynError"
                                         ELSE "asynSuccess"]
  /\ asked' = [k \in Items |-> IF k \in itemsInPDU THEN asked[k] + 1 ELSE asked[k]]
  /\ status' = "noError"
  /\ bytesLeft' = MaxPayload
  /\ itemsLeft' = MaxItemsPerRequest
  /\ itemsInPDU' = {}
  /\ haveSentItemInThisRun' = TRUE
  /\ pc' = IF items = {} THEN "finish" ELSE "place"
  /\ UNCHANGED <<callVars, items, cursor>>

\* ReadMultiVars fails: the items of the request go back to the list, and
\* bytesRead of everything in the list is reset (setBytesRead resets the item's
\* status as well).
SendFails ==
  /\ Sending
  /\ status' \in (IF RequestAccepted THEN Errors ELSE {"otherError"})
  /\ items' = items \union itemsInPDU
  /\ itemsInPDU' = {}
  /\ bytesRead' = [k \in Items |-> IF k \in items' THEN 0 ELSE bytesRead[k]]
  /\ itemStatus' = [k \in Items |-> IF k \in items' THEN "asynSuccess" ELSE itemStatus[k]]
  /\ pc' = "finish"
  /\ UNCHANGED <<callVars, cursor, bytesLeft, itemsLeft, haveSentItemInThisRun, asked>>

NothingToSend ==
  /\ pc = "test"
  /\ items # {} \/ itemsInPDU # {}
  /\ ~MustSend
  /\ pc' = "place"
  /\ UNCHANGED <<callVars, items, cursor, pduVars, haveSentItemInThisRun, status,
                 itemVars, asked>>

LeaveLoop ==
  /\ pc = "test"
  /\ items = {} /\ itemsInPDU = {}
  /\ pc' = "finish"
  /\ UNCHANGED <<callVars, items, cursor, pduVars, haveSentItemInThisRun, status,
                 itemVars, asked>>

------------------------------------------------------------------------------
(***************************************************************************)
(* The rest of the loop body, for the item c the iterator denotes (after   *)
(* the iterator has been moved from the end of the list to its beginning). *)
(***************************************************************************)
Start == IF AtEnd THEN 1 ELSE cursor

Current(c) == c >= Start /\ \A k \in items : k >= Start => c <= k

\* What all branches share: the iterator may have wrapped around.
Place(c, next) ==
  /\ pc = "place"
  /\ Current(c)
  /\ haveSentItemInThisRun' = (haveSentItemInThisRun /\ ~AtEnd)
  /\ pc' = next
  /\ UNCHANGED callVars

Fits(c) == EffectiveBytes(readBytes[c]) <= bytesLeft

\* No bytes to read: the item is done without asking the PLC.
DropEmptyItem(c) ==
  /\ Place(c, "test")
  /\ readBytes[c] = 0
  /\ bytesRead' = [bytesRead EXCEPT ![c] = 0]
  /\ itemStatus' = [itemStatus EXCEPT ![c] = "asynSuccess"]
  /\ items' = items \ {c}
  /\ cursor' = c
  /\ UNCHANGED <<pduVars, status, asked>>

\* The item fits in the PDU.
AddToPDU(c) ==
  /\ Place(c, "test")
  /\ readBytes[c] # 0
  /\ Fits(c)
  /\ bytesLeft' = bytesLeft - EffectiveBytes(readBytes[c])
  /\ itemsLeft' = itemsLeft - 1
  /\ itemsInPDU' = itemsInPDU \union {c}
  /\ items' = items \ {c}
  /\ cursor' = c
  /\ UNCHANGED <<status, itemVars, asked>>

ReadAreaKeepsItem(c) ==
  /\ Place(c, "test")
  /\ readBytes[c] # 0
  /\ ~Fits(c)
  /\ bytesLeft = MaxPayload
  /\ asked[c] < 2
  /\ status' = "noError"
  /\ asked' = [asked EXCEPT ![c] = @ + 1]
  /\ cursor' = c + 1
  /\ UNCHANGED <<items, pduVars, itemVars>>

\* The item does not even fit in an empty PDU: ReadArea reads it in slices, and leaves the
\* word length of timers and counters as it is.  On
\* success the item leaves the list without a call of setBytesRead.
ReadAreaSucceeds(c) ==
  /\ Place(c, "test")
  /\ readBytes[c] # 0
  /\ ~Fits(c)
  /\ bytesLeft = MaxPayload
  /\ status' = "noError"
  /\ asked' = [asked EXCEPT ![c] = @ + 1]
  /\ items' = items \ {c}
  /\ cursor' = c
  /\ UNCHANGED <<pduVars, itemVars>>

ReadAreaFails(c) ==
  /\ Place(c, "finish")
  /\ readBytes[c] # 0
  /\ ~Fits(c)
  /\ bytesLeft = MaxPayload
  /\ status' \in Errors
  /\ cursor' = c
  /\ UNCHANGED <<callVars, items, pduVars, itemVars, asked>>

\* The item has to wait for another PDU.
SkipItem(c) ==
  /\ Place(c, "test")
  /\ readBytes[c] # 0
  /\ ~Fits(c)
  /\ bytesLeft # MaxPayload
  /\ cursor' = c + 1
  /\ UNCHANGED <<items, pduVars, status, itemVars, asked>>

------------------------------------------------------------------------------
FinishIgnoringOtherErrors ==
  /\ pc = "finish"
  /\ connected' = (connected /\ status # "isoError")
  /\ result' = IF status = "isoError" THEN "asynError" ELSE "asynSuccess"
  /\ pc' = "returned"
  /\ UNCHANGED <<readBytes, items, cursor, pduVars, haveSentItemInThisRun, status,
                 itemVars, asked>>

\* The rest of asynPlcReadMultipleItems: an ISO error closes the connection.
Finish ==
  /\ pc = "finish"
  /\ connected' = (connected /\ status # "isoError")
  /\ result' = IF status = "noError" THEN "asynSuccess" ELSE "asynError"
  /\ pc' = "returned"
  /\ UNCHANGED <<readBytes, items, cursor, pduVars, haveSentItemInThisRun, status,
                 itemVars, asked>>

Step(c) ==
  \/ DropEmptyItem(c)
  \/ AddToPDU(c)
  \/ ReadAreaSucceeds(c)
  \/ ReadAreaFails(c)
  \/ SkipItem(c)

Next ==
  \/ CallDisconnected
  \/ CallConnected
  \/ SendSucceeds
  \/ SendFails
  \/ NothingToSend
  \/ LeaveLoop
  \/ \E c \in items : Step(c)
  \/ Finish

Spec == Init /\ [][Next]_vars

\* The loop runs on one thread that holds the port lock; nothing but the Snap7
\* calls blocks it, and these end with a result or a timeout.
FairSpec == Spec /\ WF_vars(Next)

------------------------------------------------------------------------------
(***************************************************************************)
(* Properties                                                              *)
(***************************************************************************)
TypeOK ==
  /\ readBytes \in [Items -> Lengths]
  /\ connected \in BOOLEAN
  /\ items \subseteq Items
  /\ cursor \in 1..(NumItems + 1)
  /\ itemsInPDU \subseteq Items
  /\ bytesLeft \in 0..MaxPayload
  /\ itemsLeft \in 0..MaxItemsPerRequest
  /\ haveSentItemInThisRun \in BOOLEAN
  /\ status \in {"noError"} \union Errors
  /\ bytesRead \in [Items -> Nat]
  /\ itemStatus \in [Items -> {"asynSuccess", "asynError"}]
  /\ asked \in [Items -> Nat]
  /\ pc \in {"call", "test", "place", "finish", "returned"}
  /\ result \in {"none", "asynSuccess", "asynError", "asynDisconnected"}

\* A request is never larger than the PDU, and never names more items than Snap7
\* and the array dataItems can hold (PortDriver.cc:288-294, 299; wrong in 2.1.1).
RequestFitsPDU ==
  Sending => /\ Cardinality(itemsInPDU) <= MaxVars
             /\ 12 + 12 * Cardinality(itemsInPDU) <= PDULength

\* Size of the reply the PLC sends to the request being built: 14 bytes of header,
\* and four bytes plus the data, padded to an even length, for every item.
ReplyBytes ==
  LET upTo[n \in 0..NumItems] ==
        IF n = 0 THEN 14
        ELSE IF n \in itemsInPDU THEN upTo[n - 1] + 4 + 2 * ((BytesAsked[n] + 1) \div 2)
        ELSE upTo[n - 1]
  IN  upTo[NumItems]

\* The reply to a request without timers and counters is never larger than the PDU
\* (PortDriver.cc:284-287, 355-366; headers and padding were miscounted before 2.1.3).
ByteRepliesFitPDU == Sending /\ itemsInPDU \intersect WordItems = {} => ReplyBytes <= PDULength

\* The comment at PortDriver.cc:373 says of what is added to a request, timers and counters
\* or not: "The item fits in the PDU."
ReplyFitsPDU == Sending => ReplyBytes <= PDULength

\* A request is never sent empty, although the loop sends when the iterator is at
\* the end of a list that still holds items (PortDriver.cc:302).
NeverSendEmptyRequest == Sending => itemsInPDU # {}

\* A request is only sent when no item that is left could still be added to it: the
\* loop makes a full pass over the list before it gives a PDU away.
RequestsAreMaximal ==
  Sending => \/ itemsLeft = 0
             \/ \A k \in items : readBytes[k] # 0 => ~Fits(k)

\* Each item is in exactly one place, and the PLC sends it at most once: it has not
\* been asked for while it is in the list or in the request being built.
ItemsMoveForward ==
  /\ items \intersect itemsInPDU = {}
  /\ \A k \in Items : asked[k] <= IF k \in items \union itemsInPDU THEN 0 ELSE 1

\* While ReadArea is called no request is being built, so that the counters of the
\* PDU need no reset afterwards (comment at PortDriver.cc:398-400).
ReadAreaOnlyBetweenRequests ==
  [][asked' # asked /\ itemsInPDU' = itemsInPDU => itemsInPDU = {}]_vars

\* The call is an implementation of the abstract batch: an answer, once given, is
\* final, and asynSuccess is only returned when every item has got one.
Batch == INSTANCE ReadBatch WITH
  answer <- [k \in Items |->
               IF k \in items \union itemsInPDU THEN "pending"
               ELSE IF itemStatus[k] = "asynError" THEN "failed" ELSE "data"],
  outcome <- CASE result = "none" -> "busy"
               [] result = "asynSuccess" -> "success"
               [] OTHER -> "failure"

ImplementsReadBatch == Batch!BatchSpec

\* Every call returns, with one result or another.
Termination == <>(pc = "returned")

\* How much there is left to do: the part of the call, items to place and to send, whether
\* another pass over the list is due, the rest of the list, and the half of the loop body.
Remaining ==
  << CASE pc = "call" -> 3 [] pc \in {"test", "place"} -> 2 [] pc = "finish" -> 1 [] OTHER -> 0,
     2 * Cardinality(items) + Cardinality(itemsInPDU),
     IF haveSentItemInThisRun THEN 1 ELSE 0,
     NumItems + 1 - cursor,
     IF pc = "test" THEN 1 ELSE 0 >>

Less(s, t) == \E n \in 1..5 : s[n] < t[n] /\ \A m \in 1..(n - 1) : s[m] = t[m]

\* Every turn of the loop is progress, although the iterator goes back to the beginning of
\* the list and requests put nothing into it: no order of items and no size of the PDU lets
\* the loop go round for ever (it did in release 2.1.1).
EveryStepIsProgress == [][Less(Remaining', Remaining)]_vars

\* s7nodaveAsyn.h:84-87 and 109-115 say of the read items of this call that
\* bytesRead is "Set to the number of bytes read after the read function finished",
\* and that items that are too big are split into several requests.
ReadItemsAreReported ==
  result = "asynSuccess" =>
    \A k \in Items : itemStatus[k] = "asynSuccess" => bytesRead[k] = readBytes[k]
==============================================================================
