------------------------- MODULE MultiItemReadProofs -------------------------
(***************************************************************************)
(* Proofs about MultiItemRead: type correctness, the invariants of the     *)
(* packing loop, and the refinement of ReadBatch, for every number of      *)
(* items, every assignment of lengths and every PDU size of at least 24.   *)
(***************************************************************************)
EXTENDS MultiItemRead, FiniteSetTheorems, WellFoundedInduction, TLAPS

(***************************************************************************)
(* The inductive invariant.                                                *)
(***************************************************************************)
InLoop == pc \in {"call", "test", "place"}

\* The counters of the PDU agree with its content.
Accounting ==
  /\ Cardinality(itemsInPDU) + itemsLeft = MaxItemsPerRequest
  /\ itemsInPDU = {} <=> bytesLeft = MaxPayload

\* What the run through the list that is under way has established: as long as no
\* request was sent in it, the items it has passed do not fit, and it has passed
\* none while the PDU was empty.
RunInv ==
  ~haveSentItemInThisRun =>
    /\ \A k \in items : k < cursor => readBytes[k] # 0 /\ ~Fits(k)
    /\ itemsInPDU = {} => \A k \in items : k >= cursor

IInv ==
  /\ TypeOK
  /\ ItemsMoveForward
  /\ InLoop => Accounting /\ RunInv
  /\ pc = "place" => itemsLeft > 0 /\ items # {}
  /\ pc = "finish" /\ status = "noError" => items = {} /\ itemsInPDU = {}
  /\ pc = "call" => status = "noError"
  /\ pc = "returned" <=> result # "none"

------------------------------------------------------------------------------
LEMMA ConstantsOK ==
  /\ MaxPayload \in Nat /\ MaxPayload >= 10
  /\ MaxItemsPerRequest \in Nat /\ MaxItemsPerRequest >= 1
  /\ MaxItemsPerRequest <= MaxVars
  /\ 12 + 12 * MaxItemsPerRequest <= PDULength
  BY PDUAssumption DEF MaxPayload, MaxItemsPerRequest

LEMMA EffectiveBytesOK ==
  ASSUME NEW n \in Nat
  PROVE  EffectiveBytes(n) \in Nat /\ EffectiveBytes(n) > 0
  BY DEF EffectiveBytes

LEMMA PDUFinite ==
  ASSUME NEW S, S \subseteq Items
  PROVE  IsFiniteSet(S) /\ Cardinality(S) \in Nat
<1>1. IsFiniteSet(Items)
  BY PDUAssumption, FS_Interval DEF Items
<1>. QED
  BY <1>1, FS_Subset, FS_CardinalityType

\* Nothing but AddToPDU changes the PDU inside the loop, and it adds one item.
LEMMA AddOne ==
  ASSUME NEW S, S \subseteq Items, NEW c \in Items, c \notin S
  PROVE  Cardinality(S \union {c}) = Cardinality(S) + 1
  BY PDUFinite, FS_AddElement

------------------------------------------------------------------------------
LEMMA InitIInv == Init => IInv
<1>. SUFFICES ASSUME Init PROVE IInv
  OBVIOUS
<1>1. TypeOK
  <2>1. bytesLeft \in 0..MaxPayload /\ itemsLeft \in 0..MaxItemsPerRequest
    BY ConstantsOK DEF Init
  <2>2. cursor \in 1..(NumItems + 1)
    BY PDUAssumption DEF Init
  <2>3. /\ bytesRead \in [Items -> Nat] /\ asked \in [Items -> Nat]
        /\ itemStatus \in [Items -> {"asynSuccess", "asynError"}]
    BY DEF Init
  <2>4. items \subseteq Items /\ itemsInPDU \subseteq Items
    BY DEF Init
  <2>. QED
    BY <2>1, <2>2, <2>3, <2>4 DEF Init, TypeOK
<1>2. ItemsMoveForward
  BY DEF Init, ItemsMoveForward
<1>3. Accounting
  BY ConstantsOK, FS_EmptySet DEF Init, Accounting
<1>4. RunInv
  BY DEF Init, RunInv, Items
<1>. QED
  BY <1>1, <1>2, <1>3, <1>4 DEF Init, IInv

(***************************************************************************)
(* The actions that do not touch the list: calling, testing, returning.    *)
(***************************************************************************)
LEMMA CallIInv ==
  ASSUME IInv, CallDisconnected \/ CallConnected \/ NothingToSend \/ LeaveLoop \/ Finish
  PROVE  IInv'
<1>1. UNCHANGED <<readBytes, items, cursor, pduVars, haveSentItemInThisRun, status,
                  itemStatus, asked>>
  BY DEF CallDisconnected, CallConnected, NothingToSend, LeaveLoop, Finish, callVars, itemVars
<1>2. TypeOK'
  <2>1. connected' \in BOOLEAN
    BY DEF IInv, TypeOK, CallDisconnected, CallConnected, NothingToSend, LeaveLoop, Finish,
           callVars
  <2>2. bytesRead' \in [Items -> Nat]
    BY DEF IInv, TypeOK, CallDisconnected, CallConnected, NothingToSend, LeaveLoop, Finish,
           itemVars
  <2>3. /\ pc' \in {"call", "test", "place", "finish", "returned"}
        /\ result' \in {"none", "asynSuccess", "asynError", "asynDisconnected"}
    BY DEF IInv, TypeOK, CallDisconnected, CallConnected, NothingToSend, LeaveLoop, Finish,
           callVars
  <2>. QED
    BY <1>1, <2>1, <2>2, <2>3 DEF IInv, TypeOK, pduVars
<1>3. ItemsMoveForward'
  BY <1>1 DEF IInv, ItemsMoveForward, pduVars
<1>4. (Accounting /\ RunInv) => (Accounting /\ RunInv)'
  BY <1>1 DEF Accounting, RunInv, Fits, pduVars
<1>5. InLoop' => InLoop
  BY DEF InLoop, CallDisconnected, CallConnected, NothingToSend, LeaveLoop, Finish
<1>6. pc' = "place" => itemsLeft' > 0 /\ items' # {}
  BY DEF IInv, TypeOK, MustSend, CallDisconnected, CallConnected, NothingToSend, LeaveLoop,
         Finish, pduVars
<1>7. pc' = "finish" /\ status' = "noError" => items' = {} /\ itemsInPDU' = {}
  BY DEF CallDisconnected, CallConnected, NothingToSend, LeaveLoop, Finish, pduVars
<1>8. pc' = "call" => status' = "noError"
  BY DEF CallDisconnected, CallConnected, NothingToSend, LeaveLoop, Finish
<1>9. pc' = "returned" <=> result' # "none"
  BY DEF IInv, CallDisconnected, CallConnected, NothingToSend, LeaveLoop, Finish, callVars
<1>. QED
  BY <1>2, <1>3, <1>4, <1>5, <1>6, <1>7, <1>8, <1>9 DEF IInv

(***************************************************************************)
(* The two outcomes of ReadMultiVars.                                      *)
(***************************************************************************)
LEMMA SendSucceedsIInv == IInv /\ SendSucceeds => IInv'
<1>. SUFFICES ASSUME IInv, SendSucceeds PROVE IInv'
  OBVIOUS
<1>1. TypeOK'
  <2>1. \A k \in Items : readBytes[k] \in Nat /\ bytesRead[k] \in Nat /\ asked[k] \in Nat
    BY PDUAssumption DEF IInv, TypeOK
  <2>2. PICK failed \in SUBSET itemsInPDU :
          /\ bytesRead' = [k \in Items |-> IF k \notin itemsInPDU THEN bytesRead[k]
                                           ELSE IF k \in failed THEN 0 ELSE readBytes[k]]
          /\ itemStatus' = [k \in Items |-> IF k \notin itemsInPDU THEN itemStatus[k]
                                            ELSE IF k \in failed THEN "asynError"
                                            ELSE "asynSuccess"]
    BY DEF SendSucceeds
  <2>3. bytesRead' \in [Items -> Nat]
    BY <2>1, <2>2
  <2>4. itemStatus' \in [Items -> {"asynSuccess", "asynError"}]
    BY <2>2 DEF IInv, TypeOK
  <2>5. asked' \in [Items -> Nat]
    BY <2>1 DEF SendSucceeds
  <2>6. bytesLeft' \in 0..MaxPayload /\ itemsLeft' \in 0..MaxItemsPerRequest
    BY ConstantsOK DEF SendSucceeds
  <2>. QED
    BY <2>3, <2>4, <2>5, <2>6 DEF IInv, TypeOK, SendSucceeds, callVars
<1>2. ItemsMoveForward'
  BY DEF IInv, TypeOK, ItemsMoveForward, SendSucceeds
<1>3. Accounting'
  BY ConstantsOK, FS_EmptySet DEF SendSucceeds, Accounting
<1>4. RunInv'
  BY DEF SendSucceeds, RunInv
<1>5. pc' = "place" => itemsLeft' > 0 /\ items' # {}
  BY ConstantsOK DEF SendSucceeds
<1>. QED
  BY <1>1, <1>2, <1>3, <1>4, <1>5 DEF IInv, SendSucceeds, Sending, callVars

LEMMA SendFailsIInv == IInv /\ SendFails => IInv'
<1>. SUFFICES ASSUME IInv, SendFails PROVE IInv'
  OBVIOUS
<1>1. TypeOK'
  BY DEF IInv, TypeOK, SendFails, Sending, callVars, Errors
<1>2. ItemsMoveForward'
  BY DEF IInv, TypeOK, ItemsMoveForward, SendFails
<1>3. status' # "noError"
  BY DEF SendFails, Errors
<1>. QED
  BY <1>1, <1>2, <1>3 DEF IInv, InLoop, SendFails, Sending, callVars

(***************************************************************************)
(* The branches of the loop body.                                          *)
(***************************************************************************)
LEMMA StepTypeOK ==
  ASSUME IInv, NEW c \in items, Step(c)
  PROVE  TypeOK'
<1>1. c \in Items /\ readBytes[c] \in Nat /\ EffectiveBytes(readBytes[c]) \in Nat
  BY EffectiveBytesOK, PDUAssumption DEF IInv, TypeOK
<1>2. bytesLeft' \in 0..MaxPayload /\ itemsLeft' \in 0..MaxItemsPerRequest
  BY <1>1, ConstantsOK DEF IInv, TypeOK, Step, Place, Fits, DropEmptyItem, AddToPDU,
     ReadAreaSucceeds, ReadAreaFails, SkipItem, pduVars
<1>3. cursor' \in 1..(NumItems + 1)
  BY <1>1, PDUAssumption DEF Items, Step, DropEmptyItem, AddToPDU, ReadAreaSucceeds,
     ReadAreaFails, SkipItem
<1>4. /\ items' \subseteq Items /\ itemsInPDU' \subseteq Items
      /\ bytesRead' \in [Items -> Nat] /\ asked' \in [Items -> Nat]
      /\ itemStatus' \in [Items -> {"asynSuccess", "asynError"}]
      /\ status' \in {"noError"} \union Errors
  BY <1>1 DEF IInv, TypeOK, Step, DropEmptyItem, AddToPDU, ReadAreaSucceeds,
     ReadAreaFails, SkipItem, pduVars, itemVars
<1>5. /\ UNCHANGED callVars
      /\ haveSentItemInThisRun' \in BOOLEAN
      /\ pc' \in {"test", "finish"}
  BY DEF Step, Place, DropEmptyItem, AddToPDU, ReadAreaSucceeds, ReadAreaFails, SkipItem
<1>. QED
  BY <1>2, <1>3, <1>4, <1>5 DEF IInv, TypeOK, callVars

LEMMA StepItemsMoveForward ==
  ASSUME IInv, NEW c \in items, Step(c)
  PROVE  ItemsMoveForward'
<1>. USE DEF IInv, TypeOK, ItemsMoveForward
<1>1. CASE DropEmptyItem(c) \/ AddToPDU(c)
  BY <1>1 DEF DropEmptyItem, AddToPDU, pduVars
<1>2. CASE ReadAreaSucceeds(c)
  BY <1>2 DEF ReadAreaSucceeds, pduVars
<1>3. CASE ReadAreaFails(c) \/ SkipItem(c)
  BY <1>3 DEF ReadAreaFails, SkipItem, pduVars
<1>. QED
  BY <1>1, <1>2, <1>3 DEF Step

LEMMA StepAccounting ==
  ASSUME IInv, NEW c \in items, Step(c)
  PROVE  Accounting'
<1>1. Accounting /\ c \in Items /\ c \notin itemsInPDU /\ itemsInPDU \subseteq Items
  BY DEF IInv, InLoop, TypeOK, ItemsMoveForward, Step, Place, DropEmptyItem, AddToPDU,
         ReadAreaSucceeds, ReadAreaFails, SkipItem
<1>2. CASE AddToPDU(c)
  <2>1. Cardinality(itemsInPDU') = Cardinality(itemsInPDU) + 1
    BY <1>1, <1>2, AddOne DEF AddToPDU
  <2>2. Cardinality(itemsInPDU') + itemsLeft' = MaxItemsPerRequest
    BY <1>1, <1>2, <2>1, PDUFinite, ConstantsOK DEF AddToPDU, Accounting, IInv, TypeOK
  <2>3. bytesLeft' < MaxPayload
    <3>1. EffectiveBytes(readBytes[c]) \in Nat /\ EffectiveBytes(readBytes[c]) > 0
      BY <1>1, EffectiveBytesOK, PDUAssumption DEF IInv, TypeOK
    <3>2. bytesLeft \in 0..MaxPayload
      BY DEF IInv, TypeOK
    <3>. QED
      BY <1>2, <3>1, <3>2, ConstantsOK DEF AddToPDU
  <2>. QED
    BY <1>2, <2>2, <2>3 DEF AddToPDU, Accounting
<1>3. CASE UNCHANGED pduVars
  BY <1>1, <1>3 DEF Accounting, pduVars
<1>. QED
  BY <1>2, <1>3 DEF Step, DropEmptyItem, ReadAreaSucceeds, ReadAreaFails, SkipItem

LEMMA StepRunInv ==
  ASSUME IInv, NEW c \in items, Step(c)
  PROVE  RunInv'
<1>1. /\ Accounting /\ RunInv
      /\ c \in Items /\ items \subseteq Items
      /\ cursor \in Int /\ bytesLeft \in Nat
      /\ readBytes' = readBytes
      /\ \A k \in Items : readBytes[k] \in Nat /\ EffectiveBytes(readBytes[k]) \in Nat
  <2>1. pc = "place" /\ readBytes' = readBytes
    BY DEF Step, Place, DropEmptyItem, AddToPDU, ReadAreaSucceeds, ReadAreaFails, SkipItem,
           callVars
  <2>2. \A k \in Items : readBytes[k] \in Nat
    BY PDUAssumption DEF IInv, TypeOK
  <2>. QED
    BY <2>1, <2>2, EffectiveBytesOK, ConstantsOK DEF IInv, InLoop, TypeOK
<1>2. /\ Current(c)
      /\ haveSentItemInThisRun' = (haveSentItemInThisRun /\ ~AtEnd)
  BY DEF Step, Place, DropEmptyItem, AddToPDU, ReadAreaSucceeds, ReadAreaFails, SkipItem
<1>3. \A k \in Items : k \in Int
  BY DEF Items
\* No item before the current one is left in this run but those known not to fit.
<1>4. ASSUME ~haveSentItemInThisRun', NEW k \in items, k < c
      PROVE  /\ readBytes[k] # 0 /\ ~Fits(k)
             /\ itemsInPDU # {}
  <2>1. ~AtEnd
    BY <1>1, <1>2, <1>3, <1>4 DEF Current, Start, Items
  <2>2. k < cursor
    BY <1>1, <1>2, <1>3, <1>4, <2>1 DEF Current, Start
  <2>3. ~haveSentItemInThisRun
    BY <1>2, <1>4, <2>1
  <2>4. /\ readBytes[k] # 0 /\ ~Fits(k)
        /\ itemsInPDU = {} => k >= cursor
    BY <1>1, <1>4, <2>2, <2>3 DEF RunInv
  <2>. QED
    BY <1>1, <1>3, <1>4, <2>2, <2>4
<1>5. CASE DropEmptyItem(c) \/ ReadAreaSucceeds(c) \/ ReadAreaFails(c)
  BY <1>1, <1>3, <1>4, <1>5 DEF DropEmptyItem, ReadAreaSucceeds, ReadAreaFails, RunInv,
     Fits, pduVars
<1>6. CASE AddToPDU(c)
  <2>1. bytesLeft' <= bytesLeft
    BY <1>1, <1>6, EffectiveBytesOK DEF AddToPDU
  <2>2. ASSUME ~haveSentItemInThisRun', NEW k \in items', k < cursor'
        PROVE  readBytes[k] # 0 /\ ~(EffectiveBytes(readBytes[k]) <= bytesLeft')
    <3>1. k \in items /\ k < c
      BY <1>6, <2>2 DEF AddToPDU
    <3>2. readBytes[k] # 0 /\ ~(EffectiveBytes(readBytes[k]) <= bytesLeft)
      BY <1>4, <2>2, <3>1 DEF Fits
    <3>3. bytesLeft' \in Int /\ EffectiveBytes(readBytes[k]) \in Nat
      BY <1>1, <1>6, <3>1 DEF AddToPDU
    <3>. QED
      BY <1>1, <2>1, <3>2, <3>3
  <2>. QED
    BY <1>1, <1>6, <2>2 DEF AddToPDU, RunInv, Fits
<1>7. CASE SkipItem(c)
  <2>1. itemsInPDU' # {}
    BY <1>1, <1>7 DEF SkipItem, Accounting, pduVars
  <2>2. ASSUME ~haveSentItemInThisRun', NEW k \in items', k < cursor'
        PROVE  readBytes[k] # 0 /\ ~Fits(k)
    <3>1. k \in items /\ (k < c \/ k = c)
      BY <1>1, <1>3, <1>7, <2>2 DEF SkipItem
    <3>. QED
      BY <1>4, <1>7, <2>2, <3>1 DEF SkipItem
  <2>. QED
    BY <1>1, <1>7, <2>1, <2>2 DEF SkipItem, RunInv, Fits, pduVars
<1>. QED
  BY <1>5, <1>6, <1>7 DEF Step

LEMMA StepIInv ==
  ASSUME IInv, NEW c \in items, Step(c)
  PROVE  IInv'
<1>1. /\ pc = "place"
      /\ pc' = "test" \/ (pc' = "finish" /\ status' # "noError")
      /\ result' = result
  BY DEF Step, Place, DropEmptyItem, AddToPDU, ReadAreaSucceeds, ReadAreaFails, SkipItem,
         Errors, callVars
<1>. QED
  BY <1>1, StepTypeOK, StepItemsMoveForward, StepAccounting, StepRunInv DEF IInv

------------------------------------------------------------------------------
LEMMA NextIInv == IInv /\ [Next]_vars => IInv'
<1>. SUFFICES ASSUME IInv, [Next]_vars PROVE IInv'
  OBVIOUS
<1>1. CASE CallDisconnected \/ CallConnected \/ NothingToSend \/ LeaveLoop \/ Finish
  BY <1>1, CallIInv
<1>2. CASE SendSucceeds
  BY <1>2, SendSucceedsIInv
<1>3. CASE SendFails
  BY <1>3, SendFailsIInv
<1>4. ASSUME NEW c \in items, Step(c) PROVE IInv'
  BY <1>4, StepIInv
<1>5. CASE UNCHANGED vars
  BY <1>5 DEF IInv, TypeOK, ItemsMoveForward, InLoop, Accounting, RunInv, Fits, vars,
     pduVars
<1>. QED
  BY <1>1, <1>2, <1>3, <1>4, <1>5 DEF Next

\* Every turn of the loop in asynPlcReadMultipleItems keeps the invariant.
THEOREM Invariance == Spec => []IInv
  BY InitIInv, NextIInv, PTL DEF Spec

------------------------------------------------------------------------------
(***************************************************************************)
(* The properties that follow from the invariant.                          *)
(***************************************************************************)
\* The variables of the call keep their types: in particular bytesLeft, an unsigned
\* int, never underflows when an item is added (PortDriver.cc:381).
THEOREM TypeCorrect == Spec => []TypeOK
<1>1. IInv => TypeOK
  BY DEF IInv
<1>. QED
  BY <1>1, Invariance, PTL

LEMMA RequestNotEmpty == IInv => NeverSendEmptyRequest
<1>. SUFFICES ASSUME IInv, Sending, itemsInPDU = {} PROVE FALSE
  BY DEF NeverSendEmptyRequest
<1>1. Accounting /\ RunInv /\ items # {} /\ MustSend
  BY DEF IInv, InLoop, Sending
<1>2. itemsLeft # 0 /\ ~(bytesLeft < 6)
  BY <1>1, ConstantsOK, FS_EmptySet DEF Accounting, IInv, TypeOK
<1>3. AtEnd /\ ~haveSentItemInThisRun
  BY <1>1, <1>2 DEF MustSend
<1>4. \A k \in items : k < cursor /\ k >= cursor /\ k \in Int /\ cursor \in Int
  BY <1>1, <1>3 DEF AtEnd, RunInv, IInv, TypeOK, Items
<1>. QED
  BY <1>1, <1>4

\* Requests are never empty, for any list of items and any PDU size: the PDU that is
\* sent at the end of the list holds the items the run has passed.
THEOREM RequestsNotEmpty == Spec => []NeverSendEmptyRequest
  BY RequestNotEmpty, Invariance, PTL

\* A request is only sent when none of the items that are left could join it.
THEOREM RequestsMaximal == Spec => []RequestsAreMaximal
<1>1. IInv => RequestsAreMaximal
  <2>. SUFFICES ASSUME IInv, Sending, itemsLeft # 0, NEW k \in items, readBytes[k] # 0
                PROVE  ~Fits(k)
    BY DEF RequestsAreMaximal
  <2>1. RunInv /\ MustSend /\ k \in Items
    BY DEF IInv, InLoop, Sending, TypeOK
  <2>2. CASE bytesLeft < 6
    <3>1. readBytes[k] \in Nat /\ readBytes[k] # 0
      BY <2>1, PDUAssumption DEF IInv, TypeOK
    <3>2. EffectiveBytes(readBytes[k]) \in Nat /\ EffectiveBytes(readBytes[k]) >= 6
      BY <3>1 DEF EffectiveBytes
    <3>3. bytesLeft \in Nat
      BY ConstantsOK DEF IInv, TypeOK
    <3>. QED
      BY <2>2, <3>2, <3>3 DEF Fits
  <2>3. CASE AtEnd /\ ~haveSentItemInThisRun
    BY <2>1, <2>3 DEF AtEnd, RunInv
  <2>. QED
    BY <2>1, <2>2, <2>3 DEF MustSend
<1>. QED
  BY <1>1, Invariance, PTL

\* A request names at most MaxVars items and fits in the PDU.
THEOREM RequestsFit == Spec => []RequestFitsPDU
<1>1. IInv => RequestFitsPDU
  <2>. SUFFICES ASSUME IInv, Sending
                PROVE  /\ Cardinality(itemsInPDU) <= MaxVars
                       /\ 12 + 12 * Cardinality(itemsInPDU) <= PDULength
    BY DEF RequestFitsPDU
  <2>1. Cardinality(itemsInPDU) \in Nat /\ itemsLeft \in Nat
    BY PDUFinite, ConstantsOK DEF IInv, TypeOK
  <2>2. Cardinality(itemsInPDU) <= MaxItemsPerRequest
    BY <2>1, ConstantsOK DEF IInv, InLoop, Sending, Accounting
  <2>. QED
    BY <2>1, <2>2, ConstantsOK, PDUAssumption
<1>. QED
  BY <1>1, Invariance, PTL

\* No item is requested from the PLC twice, and none is in two places.
THEOREM ItemsRequestedOnce == Spec => []ItemsMoveForward
<1>1. IInv => ItemsMoveForward
  BY DEF IInv
<1>. QED
  BY <1>1, Invariance, PTL

\* ReadArea is only called while the PDU is empty.
THEOREM ReadAreaBetweenRequests == Spec => ReadAreaOnlyBetweenRequests
<1>1. IInv /\ [Next]_vars =>
        [asked' # asked /\ itemsInPDU' = itemsInPDU => itemsInPDU = {}]_vars
  <2>. SUFFICES ASSUME IInv, Next, asked' # asked, itemsInPDU' = itemsInPDU
                PROVE  itemsInPDU = {}
    BY DEF vars
  <2>1. CASE SendSucceeds
    BY <2>1 DEF SendSucceeds
  <2>2. ASSUME NEW c \in items, ReadAreaSucceeds(c) PROVE itemsInPDU = {}
    BY <2>2 DEF ReadAreaSucceeds, Place, IInv, InLoop, Accounting
  <2>. QED
    BY <2>1, <2>2 DEF Next, Step, CallDisconnected, CallConnected, SendFails, NothingToSend,
       LeaveLoop, Finish, DropEmptyItem, AddToPDU, ReadAreaFails, SkipItem
<1>. QED
  BY <1>1, Invariance, PTL DEF Spec, ReadAreaOnlyBetweenRequests

------------------------------------------------------------------------------
(***************************************************************************)
(* The size of the reply.  It is a sum over the items of the request, and  *)
(* what is added to the request is taken from bytesLeft.                   *)
(***************************************************************************)
\* A set of natural numbers that is not empty has a least element.
LEMMA LeastNatural ==
  ASSUME NEW S, S \subseteq Nat, S # {}
  PROVE  \E m \in S : \A k \in S : m <= k
<1>. DEFINE R == OpToRel(<, Nat)
<1>1. IsWellFoundedOn(R, Nat)
  BY NatLessThanWellFounded
<1>2. \A x, y \in Nat : y < x => <<y, x>> \in R
  BY DEF OpToRel
<1>. HIDE DEF R
<1>3. PICK m \in S : \A y \in S : ~(<<y, m>> \in R)
  BY <1>1, WFMin
<1>4. ASSUME NEW k \in S PROVE m <= k
  <2>1. ~(<<k, m>> \in R) /\ k \in Nat /\ m \in Nat
    BY <1>3
  <2>2. ~(k < m)
    BY <2>1, <1>2
  <2>. QED
    BY <2>1, <2>2
<1>. QED
  BY <1>4

\* Induction, for a set of natural numbers.
LEMMA SetOfAllNaturals ==
  ASSUME NEW T, 0 \in T, \A n \in Nat : n \in T => n + 1 \in T
  PROVE  Nat \subseteq T
<1>. DEFINE S == Nat \ T
<1>1. SUFFICES ASSUME S # {} PROVE FALSE
  OBVIOUS
<1>2. PICK m \in S : \A k \in S : m <= k
  BY <1>1, LeastNatural
<1>3. m # 0 /\ m \in Nat
  OBVIOUS
<1>4. m - 1 \in T
  BY <1>2, <1>3
<1>. QED
  BY <1>3, <1>4

\* The bytes of the reply for a request of the items in S up to item n, given those up to
\* item n - 1.
PartOfReply(S, bytes, before, n) ==
  IF n = 0 THEN 14
  ELSE IF n \in S THEN before + 4 + 2 * ((bytes[n] + 1) \div 2)
  ELSE before

UpTo(S, bytes) == CHOOSE f : f = [n \in 0..NumItems |-> PartOfReply(S, bytes, f[n - 1], n)]

\* The recursive definition of ReplyBytes has a solution.
LEMMA UpToDef ==
  ASSUME NEW S, NEW bytes
  PROVE  UpTo(S, bytes) = [n \in 0..NumItems |-> PartOfReply(S, bytes, UpTo(S, bytes)[n - 1], n)]
<1>. DEFINE Solved(m) == \E f : f = [n \in 0..m |-> PartOfReply(S, bytes, f[n - 1], n)]
            T == {m \in Nat : Solved(m)}
<1>1. 0 \in T
  <2>. DEFINE f == [n \in 0..0 |-> 14]
  <2>1. f = [n \in 0..0 |-> PartOfReply(S, bytes, f[n - 1], n)]
    BY DEF PartOfReply
  <2>. QED
    BY <2>1
<1>2. ASSUME NEW m \in Nat, m \in T PROVE m + 1 \in T
  <2>1. PICK f : f = [n \in 0..m |-> PartOfReply(S, bytes, f[n - 1], n)]
    BY <1>2
  <2>. DEFINE g == [n \in 0..(m + 1) |->
                      IF n = m + 1 THEN PartOfReply(S, bytes, f[m], m + 1) ELSE f[n]]
  <2>2. ASSUME NEW n \in 0..(m + 1) PROVE g[n] = PartOfReply(S, bytes, g[n - 1], n)
    <3>1. CASE n = 0
      BY <2>1, <3>1 DEF PartOfReply
    <3>2. CASE n \in 1..m
      <4>1. g[n] = f[n] /\ g[n - 1] = f[n - 1]
        BY <3>2
      <4>2. f[n] = PartOfReply(S, bytes, f[n - 1], n)
        BY <2>1, <3>2
      <4>. QED
        BY <4>1, <4>2
    <3>3. CASE n = m + 1
      BY <3>3
    <3>. QED
      BY <3>1, <3>2, <3>3
  <2>3. g = [n \in 0..(m + 1) |-> PartOfReply(S, bytes, g[n - 1], n)]
    BY <2>2
  <2>. HIDE DEF g
  <2>4. Solved(m + 1)
    BY <2>3
  <2>. QED
    BY <2>4
<1>3. NumItems \in T
  BY <1>1, <1>2, SetOfAllNaturals, PDUAssumption
<1>. QED
  BY <1>3 DEF UpTo

LEMMA ReplyBytesIsUpTo == ReplyBytes = UpTo(itemsInPDU, BytesAsked)[NumItems]
  BY DEF ReplyBytes, UpTo, PartOfReply

LEMMA UpToStep ==
  ASSUME NEW S, NEW bytes, NEW n \in Nat, n + 1 <= NumItems
  PROVE  UpTo(S, bytes)[n + 1] = PartOfReply(S, bytes, UpTo(S, bytes)[n], n + 1)
  BY UpToDef, PDUAssumption

LEMMA UpToZero == \A S, bytes : UpTo(S, bytes)[0] = 14
  BY UpToDef, PDUAssumption DEF PartOfReply

\* Every part of the sum is a number.
LEMMA UpToIsNat ==
  ASSUME NEW bytes \in [Items -> Nat], NEW S, S \subseteq Items, NEW n \in 0..NumItems
  PROVE  UpTo(S, bytes)[n] \in Nat
<1>. DEFINE T == {m \in Nat : m <= NumItems => UpTo(S, bytes)[m] \in Nat}
<1>1. 0 \in T
  BY UpToZero
<1>2. ASSUME NEW m \in Nat, m \in T PROVE m + 1 \in T
  <2>. SUFFICES ASSUME m + 1 <= NumItems PROVE UpTo(S, bytes)[m + 1] \in Nat
    OBVIOUS
  <2>1. UpTo(S, bytes)[m] \in Nat
    BY <1>2, PDUAssumption
  <2>2. m + 1 \in S => bytes[m + 1] \in Nat
    OBVIOUS
  <2>. QED
    BY <2>1, <2>2, UpToStep DEF PartOfReply
<1>. HIDE DEF T
<1>3. n \in T
  BY <1>1, <1>2, SetOfAllNaturals, PDUAssumption
<1>. QED
  BY <1>3, PDUAssumption DEF T

\* Only the items of the request count.
LEMMA UpToOfItems ==
  ASSUME NEW bytes, NEW other, NEW S, \A k \in S : bytes[k] = other[k]
  PROVE  UpTo(S, bytes)[NumItems] = UpTo(S, other)[NumItems]
<1>. DEFINE T == {m \in Nat : m <= NumItems => UpTo(S, bytes)[m] = UpTo(S, other)[m]}
<1>1. 0 \in T
  BY UpToZero
<1>2. ASSUME NEW m \in Nat, m \in T PROVE m + 1 \in T
  BY <1>2, UpToStep, PDUAssumption DEF PartOfReply
<1>. HIDE DEF T
<1>3. NumItems \in T
  BY <1>1, <1>2, SetOfAllNaturals, PDUAssumption
<1>. QED
  BY <1>3, PDUAssumption DEF T

\* The empty request is answered with the header, and an item adds its effective bytes.
LEMMA EmptyReply ==
  ASSUME NEW bytes
  PROVE  UpTo({}, bytes)[NumItems] = 14
<1>. DEFINE T == {m \in Nat : m <= NumItems => UpTo({}, bytes)[m] = 14}
<1>1. 0 \in T
  BY UpToZero
<1>2. ASSUME NEW m \in Nat, m \in T PROVE m + 1 \in T
  BY <1>2, UpToStep, PDUAssumption DEF PartOfReply
<1>. HIDE DEF T
<1>3. NumItems \in T
  BY <1>1, <1>2, SetOfAllNaturals, PDUAssumption
<1>. QED
  BY <1>3, PDUAssumption DEF T

LEMMA EvenPadding ==
  ASSUME NEW n \in Nat
  PROVE  4 + 2 * ((n + 1) \div 2) = EffectiveBytes(n)
  BY DEF EffectiveBytes

LEMMA ReplyGrows ==
  ASSUME NEW bytes \in [Items -> Nat], NEW S, S \subseteq Items, NEW c \in Items, c \notin S
  PROVE  UpTo(S \union {c}, bytes)[NumItems] = UpTo(S, bytes)[NumItems] + EffectiveBytes(bytes[c])
<1>. DEFINE size == EffectiveBytes(bytes[c])
            more(m) == IF c <= m THEN size ELSE 0
            T == {m \in Nat : m <= NumItems => UpTo(S \union {c}, bytes)[m] = UpTo(S, bytes)[m] + more(m)}
<1>1. c \in Nat /\ c >= 1 /\ c <= NumItems /\ size \in Nat /\ bytes[c] \in Nat
  BY EffectiveBytesOK, PDUAssumption DEF Items
<1>2. 0 \in T
  BY <1>1, UpToZero
<1>3. ASSUME NEW m \in Nat, m \in T PROVE m + 1 \in T
  <2>. SUFFICES ASSUME m + 1 <= NumItems
                PROVE  UpTo(S \union {c}, bytes)[m + 1] = UpTo(S, bytes)[m + 1] + more(m + 1)
    OBVIOUS
  <2>1. UpTo(S \union {c}, bytes)[m] = UpTo(S, bytes)[m] + more(m) /\ UpTo(S, bytes)[m] \in Nat
    BY <1>3, UpToIsNat, PDUAssumption
  <2>2. /\ UpTo(S \union {c}, bytes)[m + 1] = PartOfReply(S \union {c}, bytes, UpTo(S \union {c}, bytes)[m], m + 1)
        /\ UpTo(S, bytes)[m + 1] = PartOfReply(S, bytes, UpTo(S, bytes)[m], m + 1)
    BY UpToStep
  <2>3. CASE m + 1 = c
    <3>1. more(m) = 0 /\ more(m + 1) = size
      BY <1>1, <2>3
    <3>2. UpTo(S \union {c}, bytes)[m + 1] = UpTo(S, bytes)[m] + 4 + 2 * ((bytes[c] + 1) \div 2)
      BY <2>1, <2>2, <2>3, <3>1 DEF PartOfReply
    <3>3. UpTo(S, bytes)[m + 1] = UpTo(S, bytes)[m]
      BY <2>2, <2>3 DEF PartOfReply
    <3>. QED
      BY <1>1, <2>1, <3>1, <3>2, <3>3, EvenPadding
  <2>4. CASE m + 1 # c
    <3>1. more(m + 1) = more(m) /\ more(m) \in Nat
      BY <1>1, <2>4
    <3>2. CASE m + 1 \in S
      <4>1. (bytes[m + 1] + 1) \div 2 \in Nat
        BY <3>2
      <4>. HIDE DEF more
      <4>. QED
        BY <2>1, <2>2, <3>1, <3>2, <4>1 DEF PartOfReply
    <3>3. CASE m + 1 \notin S
      BY <2>1, <2>2, <2>4, <3>1, <3>3 DEF PartOfReply
    <3>. QED
      BY <3>2, <3>3
  <2>. QED
    BY <2>3, <2>4
<1>. HIDE DEF T
<1>4. NumItems \in T
  BY <1>2, <1>3, SetOfAllNaturals, PDUAssumption
<1>. QED
  BY <1>1, <1>4, PDUAssumption DEF T

\* bytesLeft is what the reply leaves of the PDU.
ReplyInv == InLoop => UpTo(itemsInPDU, readBytes)[NumItems] + bytesLeft = PDULength

LEMMA ItemsAreTyped ==
  ASSUME TypeOK
  PROVE  /\ readBytes \in [Items -> Nat] /\ itemsInPDU \subseteq Items /\ items \subseteq Items
         /\ bytesLeft \in Nat
<1>1. MaxPayload \in Nat /\ Lengths \subseteq Nat
  BY ConstantsOK, PDUAssumption
<1>2. readBytes \in [Items -> Lengths] /\ bytesLeft \in 0..MaxPayload
  BY DEF TypeOK
<1>3. readBytes \in [Items -> Nat]
  BY <1>1, <1>2
<1>4. bytesLeft \in Nat
  BY <1>1, <1>2
<1>5. itemsInPDU \subseteq Items /\ items \subseteq Items
  BY DEF TypeOK
<1>. QED
  BY <1>3, <1>4, <1>5

LEMMA ReplyStep == IInv /\ ReplyInv /\ [Next]_vars => ReplyInv'
<1>. SUFFICES ASSUME IInv, ReplyInv, [Next]_vars PROVE ReplyInv'
  OBVIOUS
<1>1. ASSUME UNCHANGED <<readBytes, itemsInPDU, bytesLeft>>, InLoop' => InLoop PROVE ReplyInv'
  BY <1>1 DEF ReplyInv
<1>2. CASE CallDisconnected \/ CallConnected \/ NothingToSend \/ LeaveLoop \/ Finish
  BY <1>1, <1>2 DEF CallDisconnected, CallConnected, NothingToSend, LeaveLoop, Finish, pduVars,
     callVars, InLoop
<1>3. CASE SendSucceeds
  <2>1. itemsInPDU' = {} /\ bytesLeft' = MaxPayload
    BY <1>3 DEF SendSucceeds
  <2>. QED
    BY <2>1, EmptyReply, PDUAssumption DEF ReplyInv, MaxPayload
<1>4. CASE SendFails
  BY <1>4 DEF SendFails, ReplyInv, InLoop
<1>5. ASSUME NEW c \in items, AddToPDU(c) PROVE ReplyInv'
  <2>1. /\ readBytes \in [Items -> Nat] /\ itemsInPDU \subseteq Items
        /\ c \in Items /\ c \notin itemsInPDU /\ bytesLeft \in Nat
    BY <1>5, ItemsAreTyped DEF IInv, ItemsMoveForward
  <2>2. /\ readBytes' = readBytes /\ itemsInPDU' = itemsInPDU \union {c}
        /\ bytesLeft' = bytesLeft - EffectiveBytes(readBytes[c]) /\ InLoop
    BY <1>5 DEF AddToPDU, Place, callVars, InLoop
  <2>3. /\ UpTo(itemsInPDU, readBytes)[NumItems] \in Nat
        /\ EffectiveBytes(readBytes[c]) \in Nat
    BY <2>1, UpToIsNat, EffectiveBytesOK, PDUAssumption
  <2>4. UpTo(itemsInPDU', readBytes')[NumItems]
          = UpTo(itemsInPDU, readBytes)[NumItems] + EffectiveBytes(readBytes[c])
    BY <2>1, <2>2, ReplyGrows
  <2>. QED
    BY <2>1, <2>2, <2>3, <2>4, PDUAssumption DEF ReplyInv
<1>6. ASSUME NEW c \in items,
             DropEmptyItem(c) \/ ReadAreaSucceeds(c) \/ ReadAreaFails(c) \/ SkipItem(c)
      PROVE  ReplyInv'
  BY <1>1, <1>6 DEF DropEmptyItem, ReadAreaSucceeds, ReadAreaFails, SkipItem, Place, pduVars,
     callVars, InLoop
<1>7. CASE UNCHANGED vars
  BY <1>1, <1>7 DEF vars, InLoop
<1>. QED
  BY <1>2, <1>3, <1>4, <1>5, <1>6, <1>7 DEF Next, Step

\* Whatever the lengths of the items, the reply to a request without timers and counters is
\* never larger than the PDU.
THEOREM RepliesFit == Spec => []ByteRepliesFitPDU
<1>1. Init => ReplyInv
  BY EmptyReply, PDUAssumption DEF Init, ReplyInv, MaxPayload
<1>2. IInv /\ ReplyInv => ByteRepliesFitPDU
  <2>. SUFFICES ASSUME IInv, ReplyInv, Sending, itemsInPDU \intersect WordItems = {}
                PROVE  ReplyBytes <= PDULength
    BY DEF ByteRepliesFitPDU
  <2>1. UpTo(itemsInPDU, readBytes)[NumItems] + bytesLeft = PDULength /\ bytesLeft \in Nat
    BY ItemsAreTyped DEF IInv, ReplyInv, Sending, InLoop
  <2>2. UpTo(itemsInPDU, readBytes)[NumItems] \in Nat
    BY ItemsAreTyped, UpToIsNat, PDUAssumption DEF IInv
  <2>3. \A k \in itemsInPDU : BytesAsked[k] = readBytes[k]
    BY ItemsAreTyped DEF IInv, BytesAsked
  <2>4. ReplyBytes = UpTo(itemsInPDU, readBytes)[NumItems]
    BY <2>3, UpToOfItems, ReplyBytesIsUpTo
  <2>. QED
    BY <2>1, <2>2, <2>4, PDUAssumption
<1>. QED
  BY <1>1, <1>2, ReplyStep, Invariance, PTL DEF Spec

------------------------------------------------------------------------------
(***************************************************************************)
(* Progress of the loop.                                                   *)
(***************************************************************************)
Part == CASE pc = "call" -> 3 [] pc \in {"test", "place"} -> 2 [] pc = "finish" -> 1 [] OTHER -> 0
Work == 2 * Cardinality(items) + Cardinality(itemsInPDU)

LEMMA LessByPart ==
  ASSUME \/ Part' < Part
         \/ /\ Part' = Part
            /\ \/ Work' < Work
               \/ /\ Work' = Work
                  /\ \/ ~haveSentItemInThisRun' /\ haveSentItemInThisRun
                     \/ /\ haveSentItemInThisRun' = haveSentItemInThisRun
                        /\ \/ NumItems + 1 - cursor' < NumItems + 1 - cursor
                           \/ cursor' = cursor /\ pc' # "test" /\ pc = "test"
  PROVE  Less(Remaining', Remaining)
<1>. DEFINE s == Remaining'
            t == Remaining
<1>1. /\ s[1] = Part' /\ t[1] = Part
      /\ s[2] = Work' /\ t[2] = Work
      /\ s[3] = (IF haveSentItemInThisRun' THEN 1 ELSE 0)
      /\ t[3] = (IF haveSentItemInThisRun THEN 1 ELSE 0)
      /\ s[4] = NumItems + 1 - cursor' /\ t[4] = NumItems + 1 - cursor
      /\ s[5] = (IF pc' = "test" THEN 1 ELSE 0) /\ t[5] = (IF pc = "test" THEN 1 ELSE 0)
  BY DEF Remaining, Part, Work
<1>. HIDE DEF s, t
<1>2. \E n \in 1..5 : s[n] < t[n] /\ \A m \in 1..(n - 1) : s[m] = t[m]
  <2>1. CASE Part' < Part
    BY <1>1, <2>1
  <2>2. CASE Part' = Part /\ Work' < Work
    BY <1>1, <2>2
  <2>3. CASE Part' = Part /\ Work' = Work /\ ~haveSentItemInThisRun' /\ haveSentItemInThisRun
    BY <1>1, <2>3
  <2>4. CASE /\ Part' = Part /\ Work' = Work
             /\ haveSentItemInThisRun' = haveSentItemInThisRun
             /\ NumItems + 1 - cursor' < NumItems + 1 - cursor
    BY <1>1, <2>4
  <2>5. CASE /\ Part' = Part /\ Work' = Work
             /\ haveSentItemInThisRun' = haveSentItemInThisRun
             /\ cursor' = cursor /\ pc' # "test" /\ pc = "test"
    BY <1>1, <2>5
  <2>. QED
    BY <2>1, <2>2, <2>3, <2>4, <2>5
<1>. QED
  BY <1>2 DEF Less, s, t

\* The iterator is only moved back to the beginning after a request was sent.
PassInv == pc = "place" /\ AtEnd => haveSentItemInThisRun

LEMMA PassStep == PassInv /\ [Next]_vars => PassInv'
<1>. SUFFICES ASSUME PassInv, [Next]_vars PROVE PassInv'
  OBVIOUS
<1>1. CASE SendSucceeds
  BY <1>1 DEF SendSucceeds, PassInv
<1>2. CASE NothingToSend
  BY <1>2 DEF NothingToSend, MustSend, PassInv, AtEnd
<1>3. CASE UNCHANGED vars
  BY <1>3 DEF vars, PassInv, AtEnd
<1>. QED
  BY <1>1, <1>2, <1>3 DEF PassInv, Next, Step, Place, CallDisconnected, CallConnected,
     SendFails, LeaveLoop, Finish, DropEmptyItem, AddToPDU, ReadAreaSucceeds, ReadAreaFails,
     SkipItem

\* What an item that leaves the list takes off the work.
LEMMA LeavesList ==
  ASSUME NEW S, S \subseteq Items, NEW c \in S
  PROVE  Cardinality(S \ {c}) = Cardinality(S) - 1
  BY PDUFinite, FS_RemoveElement

LEMMA StepProgress ==
  ASSUME IInv, PassInv, NEW c \in items, Step(c)
  PROVE  Less(Remaining', Remaining)
<1>1. pc = "place" /\ Current(c) /\ haveSentItemInThisRun' = (haveSentItemInThisRun /\ ~AtEnd)
  BY DEF Step, Place, DropEmptyItem, AddToPDU, ReadAreaSucceeds, ReadAreaFails, SkipItem
<1>2. /\ items \subseteq Items /\ itemsInPDU \subseteq Items /\ c \notin itemsInPDU /\ c \in Items
      /\ haveSentItemInThisRun \in BOOLEAN
  BY DEF IInv, TypeOK, ItemsMoveForward
<1>3. /\ Cardinality(items) \in Nat /\ Cardinality(itemsInPDU) \in Nat
      /\ Cardinality(items \ {c}) = Cardinality(items) - 1
      /\ Cardinality(itemsInPDU \union {c}) = Cardinality(itemsInPDU) + 1
  BY <1>2, PDUFinite, LeavesList, AddOne
<1>4. CASE ReadAreaFails(c)
  <2>1. pc' = "finish"
    BY <1>4 DEF ReadAreaFails, Place
  <2>. QED
    BY <1>1, <2>1, LessByPart DEF Part
<1>5. CASE DropEmptyItem(c) \/ ReadAreaSucceeds(c)
  <2>1. pc' = "test" /\ items' = items \ {c} /\ itemsInPDU' = itemsInPDU
    BY <1>5 DEF DropEmptyItem, ReadAreaSucceeds, Place, pduVars
  <2>2. Part' = Part
    BY <1>1, <2>1 DEF Part
  <2>3. Work' < Work
    BY <1>3, <2>1 DEF Work
  <2>. QED
    BY <2>2, <2>3, LessByPart
<1>6. CASE AddToPDU(c)
  <2>1. pc' = "test" /\ items' = items \ {c} /\ itemsInPDU' = itemsInPDU \union {c}
    BY <1>6 DEF AddToPDU, Place
  <2>2. Part' = Part
    BY <1>1, <2>1 DEF Part
  <2>3. Work' < Work
    BY <1>3, <2>1 DEF Work
  <2>. QED
    BY <2>2, <2>3, LessByPart
<1>7. CASE SkipItem(c)
  <2>1. pc' = "test" /\ items' = items /\ itemsInPDU' = itemsInPDU /\ cursor' = c + 1
    BY <1>7 DEF SkipItem, Place, pduVars
  <2>2. Part' = Part /\ Work' = Work
    BY <1>1, <2>1 DEF Part, Work
  <2>3. CASE AtEnd
    BY <1>1, <2>2, <2>3, LessByPart DEF PassInv
  <2>4. CASE ~AtEnd
    <3>1. c >= cursor
      BY <1>1, <2>4 DEF Current, Start
    <3>2. c \in Int /\ cursor \in Int /\ NumItems \in Int
      BY <1>2, PDUAssumption DEF Items, IInv, TypeOK
    <3>3. NumItems + 1 - cursor' < NumItems + 1 - cursor
      BY <2>1, <3>1, <3>2
    <3>4. haveSentItemInThisRun' = haveSentItemInThisRun
      BY <1>1, <1>2, <2>4
    <3>. QED
      BY <2>2, <3>3, <3>4, LessByPart
  <2>. QED
    BY <2>3, <2>4
<1>. QED
  BY <1>4, <1>5, <1>6, <1>7 DEF Step

\* No turn of the loop leaves as much to do as there was, so that no list of items and no
\* size of the PDU makes it go round for ever.
THEOREM LoopMakesProgress == Spec => EveryStepIsProgress
<1>1. Init => PassInv
  BY DEF Init, PassInv
<1>2. IInv /\ PassInv /\ [Next]_vars => [Less(Remaining', Remaining)]_vars
  <2>. SUFFICES ASSUME IInv, PassInv, Next PROVE Less(Remaining', Remaining)
    OBVIOUS
  <2>1. CASE CallDisconnected \/ CallConnected \/ SendFails \/ LeaveLoop \/ Finish
    <3>1. Part' < Part
      BY <2>1 DEF Part, CallDisconnected, CallConnected, SendFails, Sending, LeaveLoop, Finish
    <3>. QED
      BY <3>1, LessByPart
  <2>2. CASE NothingToSend
    <3>1. Part' = Part /\ Work' = Work /\ UNCHANGED <<haveSentItemInThisRun, cursor>>
      BY <2>2 DEF NothingToSend, Part, Work, pduVars
    <3>. QED
      BY <2>2, <3>1, LessByPart DEF NothingToSend
  <2>3. CASE SendSucceeds
    <3>1. Part' < Part \/ Part' = Part
      BY <2>3 DEF SendSucceeds, Sending, Part
    <3>2. itemsInPDU # {} /\ itemsInPDU \subseteq Items /\ items \subseteq Items
      BY <2>3, RequestNotEmpty DEF SendSucceeds, NeverSendEmptyRequest, IInv, TypeOK
    <3>3. Cardinality(itemsInPDU) > 0 /\ Cardinality(itemsInPDU) \in Nat /\ Cardinality(items) \in Nat
      BY <3>2, PDUFinite, FS_EmptySet
    <3>4. items' = items /\ Cardinality(itemsInPDU') = 0
      BY <2>3, FS_EmptySet DEF SendSucceeds
    <3>5. Work' < Work
      BY <3>3, <3>4 DEF Work
    <3>. QED
      BY <3>1, <3>5, LessByPart
  <2>4. ASSUME NEW c \in items, Step(c) PROVE Less(Remaining', Remaining)
    BY <2>4, StepProgress
  <2>. QED
    BY <2>1, <2>2, <2>3, <2>4 DEF Next
<1>. QED
  BY <1>1, <1>2, PassStep, Invariance, PTL DEF Spec, EveryStepIsProgress

------------------------------------------------------------------------------
(***************************************************************************)
(* The refinement.                                                         *)
(***************************************************************************)
Waiting == items \union itemsInPDU

LEMMA AnswerStep ==
  ASSUME result = "none", result' = "none", Waiting' \subseteq Waiting,
         \A k \in Items \ Waiting : itemStatus'[k] = itemStatus[k]
  PROVE  Batch!Answer
<1>. DEFINE S == (Waiting \ Waiting') \intersect Items
            F == {k \in Items : itemStatus'[k] = "asynError"}
            answered(k) == IF k \in Waiting THEN "pending"
                           ELSE IF itemStatus[k] = "asynError" THEN "failed" ELSE "data"
<1>1. S \in SUBSET Batch!Pending
  BY DEF Batch!Pending, Batch!Items, Items, Waiting
<1>2. \A k \in Items :
        (IF k \in Waiting' THEN "pending"
         ELSE IF itemStatus'[k] = "asynError" THEN "failed" ELSE "data")
        = IF k \notin S THEN answered(k) ELSE IF k \in F THEN "failed" ELSE "data"
  OBVIOUS
<1>. QED
  BY <1>1, <1>2 DEF Batch!Answer, Batch!Items, Items, Waiting

LEMMA BatchStep == IInv /\ [Next]_vars => [Batch!BatchNext]_(Batch!batchVars)
<1>. SUFFICES ASSUME IInv, [Next]_vars
              PROVE  Batch!BatchNext \/ UNCHANGED Batch!batchVars
  OBVIOUS
<1>. USE DEF Batch!BatchNext
<1>1. CASE CallDisconnected
  <2>1. result = "none"
    BY <1>1 DEF IInv, CallDisconnected
  <2>. QED
    BY <1>1, <2>1 DEF CallDisconnected, Batch!Fail, pduVars
<1>2. CASE CallConnected \/ NothingToSend \/ LeaveLoop
  BY <1>2 DEF CallConnected, NothingToSend, LeaveLoop, callVars, pduVars, itemVars,
     Batch!batchVars
<1>3. CASE SendSucceeds
  <2>1. result = "none" /\ result' = "none"
    BY <1>3 DEF IInv, SendSucceeds, Sending, callVars
  <2>2. Waiting' \subseteq Waiting
    BY <1>3 DEF Waiting, SendSucceeds
  <2>3. \A k \in Items \ Waiting : itemStatus'[k] = itemStatus[k]
    BY <1>3 DEF Waiting, SendSucceeds
  <2>. QED
    BY <2>1, <2>2, <2>3, AnswerStep
<1>4. CASE SendFails
  <2>1. result = "none" /\ result' = "none"
    BY <1>4 DEF IInv, SendFails, Sending, callVars
  <2>2. Waiting' = Waiting
    BY <1>4 DEF Waiting, SendFails
  <2>3. \A k \in Items \ Waiting : itemStatus'[k] = itemStatus[k]
    BY <1>4 DEF Waiting, SendFails
  <2>. QED
    BY <2>1, <2>2, <2>3, AnswerStep
<1>5. ASSUME NEW c \in items, Step(c)
      PROVE  Batch!BatchNext
  <2>1. result = "none" /\ result' = "none"
    BY <1>5 DEF IInv, Step, Place, DropEmptyItem, AddToPDU, ReadAreaSucceeds,
       ReadAreaFails, SkipItem, callVars
  <2>2. Waiting' \subseteq Waiting
    BY <1>5 DEF Waiting, Step, DropEmptyItem, AddToPDU, ReadAreaSucceeds, ReadAreaFails,
       SkipItem, pduVars
  <2>3. \A k \in Items \ Waiting : itemStatus'[k] = itemStatus[k]
    BY <1>5 DEF IInv, TypeOK, Waiting, Step, DropEmptyItem, AddToPDU, ReadAreaSucceeds,
       ReadAreaFails, SkipItem, itemVars
  <2>. QED
    BY <2>1, <2>2, <2>3, AnswerStep
<1>6. CASE Finish
  <2>1. result = "none" /\ (status = "noError" => items = {} /\ itemsInPDU = {})
    BY <1>6 DEF IInv, Finish
  <2>2. CASE status = "noError"
    BY <1>6, <2>1, <2>2 DEF Finish, Batch!Succeed, Batch!Pending, Batch!Items, Items,
       pduVars, itemVars
  <2>3. CASE status # "noError"
    BY <1>6, <2>1, <2>3 DEF Finish, Batch!Fail, pduVars, itemVars
  <2>. QED
    BY <2>2, <2>3
<1>7. CASE UNCHANGED vars
  BY <1>7 DEF vars, Batch!batchVars
<1>. QED
  BY <1>1, <1>2, <1>3, <1>4, <1>5, <1>6, <1>7 DEF Next

\* The packing loop implements the batch read: answers are final, and success is
\* only reported when every item has one.
THEOREM Refinement == Spec => ImplementsReadBatch
<1>1. Init => Batch!BatchInit
  BY DEF Init, Batch!BatchInit, Batch!Items, Items
<1>. QED
  BY <1>1, Invariance, BatchStep, PTL DEF Spec, Batch!BatchSpec, ImplementsReadBatch
==============================================================================
