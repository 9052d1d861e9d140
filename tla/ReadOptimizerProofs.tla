------------------------- MODULE ReadOptimizerProofs -------------------------
(***************************************************************************)
(* Proofs about ReadOptimizer, for every list of items and every payload   *)
(* size: no item is lost, the blocks fit and cannot be joined further, and *)
(* every item gets its own bytes or an error.                              *)
(***************************************************************************)
EXTENDS ReadOptimizer, WellFoundedInduction, TLAPS

(***************************************************************************)
(* The inductive invariant.                                                *)
(***************************************************************************)
Phases == {"include", "including", "join", "joining", "read", "dispatch", "done"}

Typed ==
  /\ startByte \in [Items -> Nat]
  /\ readBytes \in [Items -> Nat \ {0}]
  /\ pc \in Phases
  /\ items \subseteq Items /\ kept \subseteq Items /\ itemsInBlock \subseteq Items
  /\ first \in Nat /\ i \in Nat /\ endByte \in Nat
  /\ parent \in [Items -> 0..NumItems]
  /\ block \in [Items -> 0..NumItems]
  /\ blockEnd \in [Items -> Nat]

Sorted == \A a, b \in Items : a <= b => startByte[a] <= startByte[b]

Including == pc \in {"include", "including"}
Joining == pc \in {"join", "joining"}
Members == IF pc = "joining" THEN itemsInBlock ELSE {}

\* The iterators of the inner loops.
IteratorInv ==
  pc \in {"including", "joining"} =>
    /\ first \in items /\ i \in items \union {End} /\ first < i
    /\ \A k \in items : first <= k

\* Two items of which neither includes the other.
Apart(a, b) == ~Includes(a, b) /\ ~Includes(b, a)

ApartInv ==
  /\ Including => \A a \in kept, b \in kept \union items : a # b => Apart(a, b)
  /\ pc = "including" => \A k \in items : first < k /\ k < i => Apart(first, k)
  /\ Joining => \A a, b \in items \union kept \union Members : a # b => Apart(a, b)

\* The block that is being built ends with its last item.
BuildingInv ==
  pc = "joining" =>
    /\ \E k \in itemsInBlock \union {first} : endByte = EndByte(k)
    /\ \A k \in itemsInBlock \union {first} : EndByte(k) <= endByte
    /\ \A k \in itemsInBlock : first < k /\ k < i
    /\ itemsInBlock # {} => endByte - startByte[first] + 4 <= MaxPayload
    /\ \A k \in items : k = first \/ i <= k

\* Finished blocks are in the list, and hold their items.
Holds(f, k) ==
  /\ block[f] = f
  /\ startByte[f] <= startByte[k] /\ EndByte(k) <= blockEnd[f]

BlockInv ==
  /\ Including => \A k \in Items : block[k] = 0
  /\ Joining => \A k \in Items : block[k] # 0 => block[k] \in kept /\ Holds(block[k], k)
  /\ ~Including /\ ~Joining =>
       kept = {} /\ \A k \in Items : block[k] # 0 => Holds(block[k], k)

\* Elements of the list that cannot be joined.
Separate(a, b) ==
  \/ startByte[b] > ElementEnd(a) + 4
  \/ EndByte(b) - startByte[a] + 4 > MaxPayload

JoinedInv ==
  Joining => /\ \A a \in kept, b \in items : a < b
             /\ \A a \in kept, b \in kept \union items : a < b => Separate(a, b)

\* An item is only put into a longer one, or into an equal one that comes later.
Outranks(p, k) == readBytes[p] > readBytes[k] \/ (readBytes[p] = readBytes[k] /\ p > k)

ParentInv ==
  \A k \in Items : parent[k] # 0 => Includes(parent[k], k) /\ Outranks(parent[k], k)

OwnBytes(k) == [status |-> "ok", bytesRead |-> readBytes[k], from |-> startByte[k]]
Failures == {[status |-> "error", bytesRead |-> 0, from |-> 0],
             [status |-> "ok", bytesRead |-> 0, from |-> 0]}

ResultInv ==
  pc \in {"dispatch", "done"} =>
    /\ DOMAIN result = Items
    /\ \A k \in Items : /\ result[k] \in {NoResult, OwnBytes(k)} \union Failures
                        /\ parent[k] = 0 => result[k] # NoResult
    /\ pc = "done" => Waiting = {}

IInv ==
  /\ Typed /\ Sorted /\ EveryItemInOnePlace
  /\ IteratorInv /\ ApartInv /\ BuildingInv /\ BlockInv /\ JoinedInv
  /\ BlocksFitPayload /\ ListIsJoined
  /\ ParentInv /\ ResultInv

------------------------------------------------------------------------------
(***************************************************************************)
(* Numbers and lists.                                                      *)
(***************************************************************************)
\* A set of natural numbers that is not empty has a least element.
LEMMA LeastNatural ==
  ASSUME NEW S, S \subseteq Nat, S # {}
  PROVE  \E m \in S : \A k \in S : m <= k
<1>. DEFINE R == OpToRel(<, Nat)
<1>1. IsWellFoundedOn(R, Nat)
  BY NatLessThanWellFounded
<1>2. \A x, y \in Nat : y < x => <<y, x>> \in R
  BY DEF OpToRel
<1>. HIDE DEF R
<1>3. PICK m \in S : \A y \in S : ~(<<y, m>> \in R)
  BY <1>1, WFMin
<1>4. ASSUME NEW k \in S PROVE m <= k
  <2>1. ~(<<k, m>> \in R) /\ k \in Nat /\ m \in Nat
    BY <1>3
  <2>2. ~(k < m)
    BY <2>1, <1>2
  <2>. QED
    BY <2>1, <2>2
<1>. QED
  BY <1>4

\* Induction, for a set of natural numbers.
LEMMA SetOfAllNaturals ==
  ASSUME NEW T, 0 \in T, \A n \in Nat : n \in T => n + 1 \in T
  PROVE  Nat \subseteq T
<1>. DEFINE S == Nat \ T
<1>1. SUFFICES ASSUME S # {} PROVE FALSE
  OBVIOUS
<1>2. PICK m \in S : \A k \in S : m <= k
  BY <1>1, LeastNatural
<1>3. m # 0 /\ m \in Nat
  OBVIOUS
<1>4. m - 1 \in T
  BY <1>2, <1>3
<1>. QED
  BY <1>3, <1>4

LEMMA ItemsAreNumbers ==
  /\ NumItems \in Nat /\ End \in Nat /\ End \notin Items /\ 0 \notin Items /\ 0 # End
  /\ \A k \in Items : k \in Nat /\ k >= 1 /\ k < End /\ k <= NumItems
  BY ItemAssumption DEF Items, End

LEMMA NextFromList ==
  ASSUME NEW S, S \subseteq Items, NEW k \in Nat
  PROVE  /\ NextFrom(S, k) \in S \union {End}
         /\ NextFrom(S, k) \in S => NextFrom(S, k) >= k
         /\ \A x \in S : x >= k => NextFrom(S, k) \in S /\ NextFrom(S, k) <= x
         /\ NextFrom(S, k) \in Nat
<1>. DEFINE rest == {x \in S : x >= k}
<1>1. CASE rest = {}
  <2>1. NextFrom(S, k) = End
    BY <1>1 DEF NextFrom
  <2>. QED
    BY <1>1, <2>1, ItemsAreNumbers
<1>2. CASE rest # {}
  <2>1. NextFrom(S, k) = CHOOSE x \in rest : \A y \in rest : x <= y
    BY <1>2 DEF NextFrom
  <2>2. \E x \in rest : \A y \in rest : x <= y
    BY <1>2, LeastNatural, ItemsAreNumbers
  <2>3. NextFrom(S, k) \in rest /\ \A y \in rest : NextFrom(S, k) <= y
    BY <2>1, <2>2
  <2>. QED
    BY <2>3, ItemsAreNumbers
<1>. QED
  BY <1>1, <1>2

\* The first item of a list.
LEMMA FirstOfList ==
  ASSUME NEW S, S \subseteq Items, S # {}
  PROVE  NextFrom(S, 1) \in S /\ \A x \in S : NextFrom(S, 1) <= x
<1>1. PICK x \in S : x >= 1
  BY ItemsAreNumbers
<1>2. NextFrom(S, 1) \in S
  BY <1>1, NextFromList
<1>3. \A y \in S : y >= 1
  BY ItemsAreNumbers
<1>. QED
  BY <1>2, <1>3, NextFromList

\* Where the bytes of an item end.
LEMMA EndBytes ==
  ASSUME Typed
  PROVE  \A k \in Items : /\ startByte[k] \in Nat /\ readBytes[k] \in Nat /\ readBytes[k] > 0
                          /\ EndByte(k) = startByte[k] + readBytes[k]
                          /\ EndByte(k) \in Nat /\ EndByte(k) > startByte[k]
  BY DEF Typed, EndByte

------------------------------------------------------------------------------
(***************************************************************************)
(* Initially.                                                              *)
(***************************************************************************)
LEMMA InitSorted == Init => Sorted
<1>. SUFFICES ASSUME Init, NEW a \in Items, NEW b \in Items, a <= b
              PROVE  startByte[a] <= startByte[b]
  BY DEF Sorted
<1>1. \A k \in Items : startByte[k] \in Nat /\ (k > 1 => startByte[k - 1] <= startByte[k])
  BY ItemAssumption DEF Init
<1>. DEFINE T == {n \in Nat : a + n \in Items => startByte[a] <= startByte[a + n]}
<1>2. 0 \in T
  BY <1>1, ItemsAreNumbers
<1>3. ASSUME NEW n \in Nat, n \in T PROVE n + 1 \in T
  <2>. SUFFICES ASSUME a + (n + 1) \in Items PROVE startByte[a] <= startByte[a + (n + 1)]
    OBVIOUS
  <2>1. a + n \in Items /\ a + (n + 1) > 1 /\ (a + (n + 1)) - 1 = a + n
    BY ItemsAreNumbers DEF Items
  <2>2. startByte[a] <= startByte[a + n]
    BY <1>3, <2>1
  <2>3. startByte[a + n] <= startByte[a + (n + 1)]
    BY <1>1, <2>1
  <2>. QED
    BY <1>1, <2>1, <2>2, <2>3
<1>. HIDE DEF T
<1>4. b - a \in T
  BY <1>2, <1>3, SetOfAllNaturals, ItemsAreNumbers
<1>5. a + (b - a) = b
  BY ItemsAreNumbers
<1>. QED
  BY <1>4, <1>5 DEF T

LEMMA InitIInv == Init => IInv
<1>. SUFFICES ASSUME Init PROVE IInv
  OBVIOUS
<1>1. Typed
  <2>1. startByte \in [Items -> Nat] /\ readBytes \in [Items -> Nat \ {0}]
    BY ItemAssumption DEF Init
  <2>2. first \in Nat /\ i \in Nat /\ endByte \in Nat
    BY ItemsAreNumbers DEF Init
  <2>3. /\ parent \in [Items -> 0..NumItems] /\ block \in [Items -> 0..NumItems]
        /\ blockEnd \in [Items -> Nat]
    BY ItemsAreNumbers DEF Init
  <2>. QED
    BY <2>1, <2>2, <2>3 DEF Init, Typed, Phases
<1>2. EveryItemInOnePlace
  BY DEF Init, EveryItemInOnePlace, Count
<1>3. BlocksFitPayload /\ BlockInv /\ ParentInv
  BY ItemsAreNumbers DEF Init, BlocksFitPayload, BlockInv, ParentInv, Including, Joining
<1>4. IteratorInv /\ ApartInv /\ BuildingInv /\ JoinedInv /\ ListIsJoined /\ ResultInv
  BY DEF Init, IteratorInv, ApartInv, BuildingInv, JoinedInv, ListIsJoined, ResultInv, Joining
<1>. QED
  BY <1>1, <1>2, <1>3, <1>4, InitSorted DEF IInv

(***************************************************************************)
(* What the places of the items mean.                                      *)
(***************************************************************************)
LEMMA Places ==
  ASSUME Typed, EveryItemInOnePlace
  PROVE  /\ items \intersect kept = {} /\ items \intersect Members = {}
         /\ kept \intersect Members = {}
         /\ \A k \in items \union kept \union Members : parent[k] = 0 /\ block[k] \in {0, k}
         /\ \A k \in Items : \/ k \in items \union kept \union Members \/ parent[k] # 0
                             \/ block[k] \notin {0, k}
<1>. \A k \in Items :
       Count(k \in items) + Count(k \in kept) + Count(parent[k] # 0)
         + Count(pc = "joining" /\ k \in itemsInBlock)
         + Count(block[k] \notin {0, k}) = 1
  BY DEF EveryItemInOnePlace
<1>1. \A k \in Items : ~(k \in items /\ k \in kept)
  BY DEF Count
<1>2. \A k \in Items : ~(k \in items /\ k \in Members)
  BY DEF Count, Members
<1>3. \A k \in Items : ~(k \in kept /\ k \in Members)
  BY DEF Count, Members
<1>4. \A k \in Items : k \in items \union kept \union Members => parent[k] = 0
  BY DEF Count, Members
<1>5. \A k \in Items : k \in items \union kept \union Members => block[k] \in {0, k}
  BY DEF Count, Members
<1>6. \A k \in Items : \/ k \in items \union kept \union Members \/ parent[k] # 0
                       \/ block[k] \notin {0, k}
  BY DEF Count, Members
<1>7. items \subseteq Items /\ kept \subseteq Items /\ Members \subseteq Items
  BY DEF Typed, Members
<1>. QED
  BY <1>1, <1>2, <1>3, <1>4, <1>5, <1>6, <1>7

------------------------------------------------------------------------------
(***************************************************************************)
(* The items themselves never change.                                      *)
(***************************************************************************)
LEMMA InputKept ==
  ASSUME [Next]_vars
  PROVE  /\ startByte' = startByte /\ readBytes' = readBytes
         /\ \A k : EndByte(k)' = EndByte(k)
         /\ \A a, b : Includes(a, b)' = Includes(a, b) /\ Apart(a, b)' = Apart(a, b)
         /\ Sorted => Sorted'
<1>1. startByte' = startByte /\ readBytes' = readBytes
  BY DEF Next, TakeToInclude, IncludeFirst, IncludeItem, SkipOverlapping, KeepFirst,
     StartJoining, TakeToJoin, JoinItem, CloseBlock, StartReading, ReadList, Dispatch, Finish,
     Done, input, vars
<1>. QED
  BY <1>1 DEF EndByte, Includes, Apart, Sorted

\* The end of a block that is built is the end of its last item, and addReadItems does not
\* have to make the block longer.
LEMMA EndOfBlock ==
  ASSUME IInv, pc = "joining"
  PROVE  LET ends == {endByte} \union {EndByte(k) : k \in itemsInBlock \union {first}}
         IN  (CHOOSE e \in ends : \A x \in ends : x <= e) = endByte
<1>. DEFINE ends == {endByte} \union {EndByte(k) : k \in itemsInBlock \union {first}}
<1>1. endByte \in Nat /\ \A x \in ends : x <= endByte /\ x \in Nat
  BY EndBytes DEF IInv, BuildingInv, Typed, IteratorInv
<1>2. \A e \in ends : (\A x \in ends : x <= e) => e = endByte
  BY <1>1
<1>3. endByte \in ends
  OBVIOUS
<1>. HIDE DEF ends
<1>4. (CHOOSE e \in ends : \A x \in ends : x <= e) = endByte
  BY <1>1, <1>2, <1>3
<1>. QED
  BY <1>4 DEF ends

LEMMA ClosedBlock ==
  ASSUME IInv, CloseBlock
  PROVE  /\ itemsInBlock = {} => UNCHANGED tree
         /\ itemsInBlock # {} =>
              /\ block' = [k \in Items |-> IF k \in itemsInBlock \union {first} THEN first ELSE block[k]]
              /\ blockEnd' = [blockEnd EXCEPT ![first] = endByte]
              /\ parent' = parent
  BY EndOfBlock DEF CloseBlock

------------------------------------------------------------------------------
(***************************************************************************)
(* The conjuncts of the invariant, one by one.                             *)
(***************************************************************************)
LEMMA TypedStep ==
  ASSUME IInv, [Next]_vars
  PROVE  Typed'
<1>1. Typed /\ first \in Nat /\ i \in Nat /\ items \subseteq Items
  BY DEF IInv, Typed
<1>2. pc \in {"including", "joining"} => first \in Items /\ (i # End => i \in Items)
  BY <1>1 DEF IInv, IteratorInv
<1>3. startByte' \in [Items -> Nat] /\ readBytes' \in [Items -> Nat \ {0}]
  BY <1>1, InputKept DEF Typed
<1>4. pc' \in Phases
  BY <1>1 DEF Typed, Phases, Next, TakeToInclude, IncludeFirst, IncludeItem, SkipOverlapping,
     KeepFirst, StartJoining, TakeToJoin, JoinItem, CloseBlock, StartReading, ReadList,
     Dispatch, Finish, Done, vars
<1>5. items' \subseteq Items /\ kept' \subseteq Items /\ itemsInBlock' \subseteq Items
  BY <1>1, <1>2 DEF Typed, Next, TakeToInclude, IncludeFirst, IncludeItem, SkipOverlapping,
     KeepFirst, StartJoining, TakeToJoin, JoinItem, CloseBlock, StartReading, ReadList,
     Dispatch, Finish, Done, vars, list
<1>6. first' \in Nat /\ i' \in Nat
  <2>1. CASE TakeToInclude \/ TakeToJoin
    <3>1. first' = NextFrom(items, 1) /\ i' = NextFrom(items, first' + 1)
      BY <2>1 DEF TakeToInclude, TakeToJoin
    <3>2. first' \in Nat
      BY <1>1, <3>1, NextFromList
    <3>. QED
      BY <1>1, <3>1, <3>2, NextFromList
  <2>2. CASE IncludeItem \/ SkipOverlapping \/ JoinItem
    BY <1>1, <2>2, NextFromList DEF IncludeItem, SkipOverlapping, JoinItem
  <2>3. CASE UNCHANGED <<first, i>>
    BY <1>1, <2>3
  <2>. QED
    BY <2>1, <2>2, <2>3 DEF Next, IncludeFirst, KeepFirst, StartJoining, CloseBlock,
       StartReading, ReadList, Dispatch, Finish, Done, vars
<1>7. endByte' \in Nat
  <2>1. CASE TakeToJoin
    <3>1. first' \in items /\ endByte' = EndByte(first')
      BY <1>1, <2>1, FirstOfList DEF TakeToJoin
    <3>2. EndByte(first') \in Nat
      BY <1>1, <3>1, InputKept, EndBytes
    <3>. QED
      BY <3>1, <3>2, InputKept DEF EndByte
  <2>2. CASE JoinItem
    BY <1>1, <1>2, <2>2, EndBytes DEF JoinItem
  <2>. QED
    BY <1>1, <2>1, <2>2 DEF Typed, Next, TakeToInclude, IncludeFirst, IncludeItem,
       SkipOverlapping, KeepFirst, StartJoining, CloseBlock, StartReading, ReadList, Dispatch,
       Finish, Done, vars
<1>8. parent' \in [Items -> 0..NumItems]
  <2>1. \A k \in Items : k \in 0..NumItems
    BY ItemsAreNumbers
  <2>2. CASE IncludeFirst
    BY <1>1, <1>2, <2>1, <2>2 DEF IncludeFirst, Typed
  <2>3. CASE IncludeItem
    BY <1>1, <1>2, <2>1, <2>3 DEF IncludeItem, Typed
  <2>4. CASE CloseBlock
    BY <1>1, <2>4, ClosedBlock DEF Typed, tree
  <2>. QED
    BY <1>1, <2>2, <2>3, <2>4 DEF Typed, Next, TakeToInclude, SkipOverlapping, KeepFirst,
       StartJoining, TakeToJoin, JoinItem, StartReading, ReadList, Dispatch, Finish, Done,
       vars, tree
<1>9. block' \in [Items -> 0..NumItems] /\ blockEnd' \in [Items -> Nat]
  <2>1. CASE CloseBlock
    <3>1. first \in 0..NumItems /\ endByte \in Nat
      BY <1>1, <1>2, <2>1, ItemsAreNumbers DEF CloseBlock, Typed
    <3>2. itemsInBlock = {} => block' = block /\ blockEnd' = blockEnd
      BY <2>1, ClosedBlock DEF tree
    <3>. QED
      BY <1>1, <2>1, <3>1, <3>2, ClosedBlock DEF Typed
  <2>. QED
    BY <1>1, <2>1 DEF Typed, Next, TakeToInclude, IncludeFirst, IncludeItem, SkipOverlapping,
       KeepFirst, StartJoining, TakeToJoin, JoinItem, StartReading, ReadList, Dispatch, Finish,
       Done, vars, tree
<1>. QED
  BY <1>3, <1>4, <1>5, <1>6, <1>7, <1>8, <1>9 DEF Typed

LEMMA IteratorStep ==
  ASSUME IInv, [Next]_vars
  PROVE  IteratorInv'
<1>1. items \subseteq Items /\ IteratorInv /\ i \in Nat /\ first \in Nat
  BY DEF IInv, Typed
<1>2. End' = End
  OBVIOUS
<1>3. CASE TakeToInclude \/ TakeToJoin
  <2>1. /\ first' = NextFrom(items, 1) /\ i' = NextFrom(items, first' + 1)
        /\ items' = items /\ items # {}
    BY <1>3 DEF TakeToInclude, TakeToJoin, list
  <2>2. first' \in items /\ \A k \in items : first' <= k
    BY <1>1, <2>1, FirstOfList
  <2>3. i' \in items \union {End} /\ (i' \in items => i' >= first' + 1)
    BY <1>1, <2>1, <2>2, NextFromList, ItemsAreNumbers
  <2>4. first' < i'
    BY <1>1, <2>2, <2>3, ItemsAreNumbers
  <2>. QED
    BY <2>1, <2>2, <2>3, <2>4 DEF IteratorInv, End
<1>4. CASE IncludeItem \/ SkipOverlapping \/ JoinItem
  <2>1. /\ i' = NextFrom(items, i + 1) /\ first' = first /\ pc \in {"including", "joining"}
        /\ items' = items \/ items' = items \ {i}
    BY <1>4 DEF IncludeItem, SkipOverlapping, JoinItem, list
  <2>2. first \in items /\ first < i /\ first # i /\ \A k \in items : first <= k
    BY <1>1, <2>1 DEF IteratorInv
  <2>3. i' \in items \union {End} /\ (i' \in items => i' >= i + 1)
    BY <1>1, <2>1, NextFromList
  <2>4. first < i' /\ i' # i
    BY <1>1, <2>2, <2>3, ItemsAreNumbers, <1>4 DEF IncludeItem, SkipOverlapping, JoinItem
  <2>. QED
    BY <2>1, <2>2, <2>3, <2>4 DEF IteratorInv, End
<1>5. CASE UNCHANGED vars
  BY <1>1, <1>5 DEF vars, IteratorInv, End
<1>6. CASE pc' \notin {"including", "joining"}
  BY <1>6 DEF IteratorInv
<1>. QED
  BY <1>3, <1>4, <1>5, <1>6 DEF Next, IncludeFirst, KeepFirst, StartJoining, CloseBlock,
     StartReading, ReadList, Dispatch, Finish, Done

\* Where an item goes when it leaves the list, and that it goes nowhere else.
LEMMA PlaceStep ==
  ASSUME IInv, [Next]_vars
  PROVE  EveryItemInOnePlace'
<1>. DEFINE Place(k) == Count(k \in items) + Count(k \in kept) + Count(parent[k] # 0)
                          + Count(pc = "joining" /\ k \in itemsInBlock)
                          + Count(block[k] \notin {0, k})
<1>. SUFFICES ASSUME NEW k \in Items PROVE Place(k)' = 1
  BY DEF EveryItemInOnePlace
<1>1. Place(k) = 1
  BY DEF IInv, EveryItemInOnePlace
<1>2. /\ items \subseteq Items /\ 0 \notin Items
      /\ parent \in [Items -> 0..NumItems] /\ block \in [Items -> 0..NumItems]
  BY ItemsAreNumbers DEF IInv, Typed
<1>3. pc \in {"including", "joining"} => first \in items /\ (i # End => i \in items) /\ i # first
  BY DEF IInv, IteratorInv, Typed
<1>4. CASE TakeToInclude \/ SkipOverlapping \/ ReadList \/ Dispatch \/ Finish \/ UNCHANGED vars
  BY <1>1, <1>4 DEF TakeToInclude, SkipOverlapping, ReadList, Dispatch, Finish, vars, list,
     tree, Count
<1>5. CASE IncludeFirst
  BY <1>1, <1>2, <1>3, <1>5 DEF IncludeFirst, Count
<1>6. CASE IncludeItem
  BY <1>1, <1>2, <1>3, <1>6 DEF IncludeItem, Count
<1>7. CASE KeepFirst
  BY <1>1, <1>2, <1>3, <1>7 DEF KeepFirst, Count, tree
<1>8. CASE StartJoining \/ StartReading
  BY <1>1, <1>8 DEF StartJoining, StartReading, Count, tree
<1>9. CASE TakeToJoin
  BY <1>1, <1>9 DEF TakeToJoin, Count, tree, list
<1>10. CASE JoinItem
  BY <1>1, <1>2, <1>3, <1>10 DEF JoinItem, Count, tree
<1>11. CASE CloseBlock
  <2>1. /\ pc = "joining" /\ pc' = "join" /\ parent' = parent
        /\ items' = items \ {first} /\ kept' = kept \union {first} /\ first \in items
    BY <1>3, <1>11, ClosedBlock DEF CloseBlock, tree
  <2>2. CASE itemsInBlock = {}
    <3>1. block' = block
      BY <1>11, <2>2, ClosedBlock DEF tree
    <3>. QED
      BY <1>1, <2>1, <2>2, <3>1 DEF Count
  <2>3. CASE itemsInBlock # {}
    <3>1. block' = [x \in Items |-> IF x \in itemsInBlock \union {first} THEN first ELSE block[x]]
      BY <1>11, <2>3, ClosedBlock
    <3>2. CASE k = first
      BY <1>1, <1>2, <2>1, <3>1, <3>2 DEF Count
    <3>3. CASE k # first /\ k \in itemsInBlock
      BY <1>1, <1>2, <2>1, <3>1, <3>3 DEF Count
    <3>4. CASE k # first /\ k \notin itemsInBlock
      BY <1>1, <2>1, <3>1, <3>4 DEF Count
    <3>. QED
      BY <3>2, <3>3, <3>4
  <2>. QED
    BY <2>2, <2>3
<1>. QED
  BY <1>4, <1>5, <1>6, <1>7, <1>8, <1>9, <1>10, <1>11 DEF Next, Done

\* An item that starts behind the end of another one is apart from it.
LEMMA BehindIsApart ==
  ASSUME Typed, NEW a \in Items, NEW b \in Items, EndByte(a) <= startByte[b]
  PROVE  Apart(a, b)
  BY EndBytes DEF Apart, Includes

LEMMA ApartStep ==
  ASSUME IInv, [Next]_vars
  PROVE  ApartInv'
<1>1. /\ Typed /\ ApartInv /\ IteratorInv /\ Sorted /\ EveryItemInOnePlace
      /\ items \subseteq Items /\ kept \subseteq Items /\ i \in Nat /\ first \in Nat
      /\ \A k \in Items : k \in Nat /\ k < End
  BY ItemsAreNumbers DEF IInv, Typed
<1>2. \A a, b : Apart(a, b)' = Apart(a, b) /\ (Apart(a, b) => Apart(b, a))
  BY InputKept DEF Apart
<1>3. CASE TakeToInclude
  <2>1. /\ first' = NextFrom(items, 1) /\ i' = NextFrom(items, first' + 1) /\ items # {}
        /\ items' = items /\ kept' = kept /\ pc = "include" /\ pc' = "including"
    BY <1>3 DEF TakeToInclude, list
  <2>2. first' \in Nat
    BY <1>1, <2>1, NextFromList
  <2>3. \A k \in items : first' < k => i' <= k
    BY <1>1, <2>1, <2>2, NextFromList
  <2>4. i' \in Nat
    BY <1>1, <2>1, <2>2, NextFromList
  <2>5. ~(\E k \in items : first' < k /\ k < i')
    BY <1>1, <2>2, <2>3, <2>4
  <2>. QED
    BY <1>1, <1>2, <2>1, <2>5 DEF ApartInv, Including, Joining
<1>4. CASE IncludeFirst
  BY <1>1, <1>2, <1>4 DEF IncludeFirst, ApartInv, Including, Joining
<1>5. CASE IncludeItem \/ SkipOverlapping
  <2>1. /\ pc = "including" /\ pc' = pc /\ i \in items /\ i' = NextFrom(items, i + 1)
        /\ first' = first /\ kept' = kept
        /\ items' = items \ {i} \/ (items' = items /\ Apart(first, i))
    BY <1>1, <1>5 DEF IncludeItem, SkipOverlapping, IteratorInv, list, Apart
  <2>2. i' \in Nat /\ \A k \in items : k >= i + 1 => i' <= k
    <3>1. i + 1 \in Nat /\ items \subseteq Items /\ i' = NextFrom(items, i + 1)
      BY <1>1, <2>1
    <3>. QED
      BY <3>1, NextFromList
  <2>3. ASSUME NEW k \in items', first < k, k < i' PROVE Apart(first, k)
    <3>1. k \in items /\ k \in Nat
      BY <1>1, <2>1
    <3>2. ~(k >= i + 1)
      BY <2>2, <2>3, <3>1
    <3>3. k < i \/ k = i
      BY <1>1, <3>1, <3>2
    <3>4. k < i => Apart(first, k)
      BY <1>1, <2>1, <2>3, <3>1 DEF ApartInv
    <3>. QED
      BY <2>1, <3>3, <3>4
  <2>. QED
    BY <1>1, <1>2, <2>1, <2>3 DEF ApartInv, Including, Joining
<1>6. CASE KeepFirst
  <2>1. /\ pc = "including" /\ pc' = "include" /\ first \in items /\ \A k \in items : first <= k
        /\ items' = items \ {first} /\ kept' = kept \union {first}
        /\ i \in items \union {End}
    BY <1>1, <1>6 DEF KeepFirst, IteratorInv
  <2>2. ASSUME NEW b \in items, b # first PROVE Apart(first, b)
    <3>1. first < b
      BY <1>1, <2>1, <2>2
    <3>2. CASE b < i
      BY <1>1, <2>1, <3>1, <3>2 DEF ApartInv
    <3>3. CASE ~(b < i)
      <4>1. i # End
        BY <1>1, <2>2, <3>3
      <4>2. i \in Items /\ i <= b /\ EndByte(first) <= startByte[i]
        BY <1>1, <1>6, <2>1, <3>3, <4>1 DEF KeepFirst
      <4>3. startByte[i] <= startByte[b]
        BY <1>1, <4>2 DEF Sorted
      <4>4. EndByte(first) <= startByte[b]
        BY <1>1, <2>1, <4>2, <4>3, EndBytes
      <4>. QED
        BY <1>1, <2>1, <4>4, BehindIsApart
    <3>. QED
      BY <3>2, <3>3
  <2>3. ASSUME NEW a \in kept', NEW b \in kept' \union items', a # b PROVE Apart(a, b)
    <3>1. CASE a \in kept
      BY <1>1, <2>1, <2>3, <3>1 DEF ApartInv, Including
    <3>2. CASE a = first /\ b \in kept
      BY <1>1, <1>2, <2>1, <2>3, <3>2 DEF ApartInv, Including
    <3>3. CASE a = first /\ b \in items
      BY <2>2, <2>3, <3>3
    <3>. QED
      BY <2>1, <2>3, <3>1, <3>2, <3>3
  <2>. QED
    BY <1>2, <2>1, <2>3 DEF ApartInv, Joining
<1>7. CASE StartJoining
  BY <1>1, <1>2, <1>7 DEF StartJoining, ApartInv, Including, Joining, Members
<1>8. CASE TakeToJoin
  BY <1>1, <1>2, <1>8 DEF TakeToJoin, ApartInv, Including, Joining, Members, list
<1>9. CASE JoinItem
  <2>1. items' \union kept' \union Members' \subseteq items \union kept \union Members
    BY <1>1, <1>9 DEF JoinItem, Members, IteratorInv
  <2>. QED
    BY <1>1, <1>2, <1>9, <2>1 DEF JoinItem, ApartInv, Including, Joining
<1>10. CASE CloseBlock
  <2>1. items' \union kept' \union Members' \subseteq items \union kept \union Members
    BY <1>1, <1>10 DEF CloseBlock, Members, IteratorInv
  <2>. QED
    BY <1>1, <1>2, <1>10, <2>1 DEF CloseBlock, ApartInv, Including, Joining
<1>11. CASE StartReading \/ ReadList \/ Dispatch \/ Finish
  BY <1>11 DEF StartReading, ReadList, Dispatch, Finish, ApartInv, Including, Joining
<1>12. CASE UNCHANGED vars
  BY <1>1, <1>2, <1>12 DEF vars, ApartInv, Including, Joining, Members
<1>. QED
  BY <1>3, <1>4, <1>5, <1>6, <1>7, <1>8, <1>9, <1>10, <1>11, <1>12 DEF Next, Done

\* Of two items of which neither includes the other the later one ends later.
LEMMA ApartInOrder ==
  ASSUME Typed, Sorted, NEW a \in Items, NEW b \in Items, a < b, Apart(a, b)
  PROVE  startByte[a] < startByte[b] /\ EndByte(a) < EndByte(b)
<1>1. startByte[a] <= startByte[b]
  BY ItemsAreNumbers DEF Sorted
<1>. QED
  BY <1>1, EndBytes DEF Apart, Includes

LEMMA BuildingStep ==
  ASSUME IInv, [Next]_vars
  PROVE  BuildingInv'
<1>1. /\ Typed /\ Sorted /\ BuildingInv /\ IteratorInv /\ ApartInv /\ EveryItemInOnePlace
      /\ items \subseteq Items /\ itemsInBlock \subseteq Items
      /\ i \in Nat /\ first \in Nat /\ endByte \in Nat
      /\ \A k \in Items : k \in Nat /\ k < End
  BY ItemsAreNumbers DEF IInv, Typed
<1>2. \A k : EndByte(k)' = EndByte(k)
  BY InputKept
<1>3. CASE TakeToJoin
  <2>1. /\ first' = NextFrom(items, 1) /\ i' = NextFrom(items, first' + 1) /\ items # {}
        /\ items' = items /\ itemsInBlock' = {} /\ endByte' = EndByte(first')
    BY <1>3 DEF TakeToJoin, list
  <2>2. first' \in items /\ \A k \in items : first' <= k
    BY <1>1, <2>1, FirstOfList
  <2>3. endByte' = EndByte(first)' /\ EndByte(first') \in Nat
    BY <1>1, <1>2, <2>1, <2>2, EndBytes, InputKept DEF EndByte
  <2>4. \A k \in items : k >= first' + 1 => i' <= k
    <3>1. first' + 1 \in Nat /\ items \subseteq Items
      BY <1>1, <2>2
    <3>. QED
      BY <2>1, <3>1, NextFromList
  <2>5. \A k \in items' : k = first' \/ i' <= k
    BY <1>1, <2>1, <2>2, <2>4
  <2>6. itemsInBlock' \union {first'} = {first'}
    BY <2>1
  <2>7. \A k \in {first'} : EndByte(k)' = endByte' /\ EndByte(k)' <= endByte'
    BY <1>2, <2>1, <2>3
  <2>. QED
    BY <2>1, <2>5, <2>6, <2>7 DEF BuildingInv
<1>4. CASE JoinItem
  <2>1. /\ pc = "joining" /\ i \in items /\ first \in items /\ first < i
        /\ items' = items \ {i} /\ itemsInBlock' = itemsInBlock \union {i} /\ first' = first
        /\ i' = NextFrom(items, i + 1) /\ endByte' = EndByte(i)
        /\ ~TooLong(i) /\ UNCHANGED input
    BY <1>1, <1>4 DEF JoinItem, IteratorInv
  <2>2. i' \in Nat /\ (i' \in items => i' >= i + 1) /\ i' \in items \union {End}
        /\ \A k \in items : k >= i + 1 => i' <= k
    <3>1. i + 1 \in Nat /\ items \subseteq Items
      BY <1>1, <2>1
    <3>. QED
      BY <2>1, <3>1, NextFromList
  <2>3. i < i'
    BY <1>1, <2>1, <2>2
  <2>4. ASSUME NEW k \in itemsInBlock \union {first} PROVE k < i /\ EndByte(k) < EndByte(i)
    <3>1. k < i /\ k \in Items
      BY <1>1, <2>1 DEF BuildingInv
    <3>2. Apart(k, i)
      BY <1>1, <2>1, <3>1 DEF ApartInv, Joining, Members
    <3>. QED
      BY <1>1, <2>1, <3>1, <3>2, ApartInOrder
  <2>5. EndByte(i) \in Nat /\ \A k \in Items : EndByte(k) \in Nat
    BY <1>1, <2>1, EndBytes
  <2>6. \A k \in itemsInBlock' \union {first'} : EndByte(k)' <= endByte'
    BY <1>1, <1>2, <2>1, <2>4, <2>5
  <2>7. \E k \in itemsInBlock' \union {first'} : endByte' = EndByte(k)'
    BY <1>2, <2>1
  <2>8. \A k \in itemsInBlock' : first' < k /\ k < i'
    <3>. SUFFICES ASSUME NEW k \in itemsInBlock' PROVE first' < k /\ k < i'
      OBVIOUS
    <3>1. CASE k = i
      BY <2>1, <2>3, <3>1
    <3>2. CASE k \in itemsInBlock
      BY <1>1, <2>1, <2>2, <2>3, <2>4, <3>2 DEF BuildingInv
    <3>. QED
      BY <2>1, <3>1, <3>2
  <2>9. endByte' - startByte'[first'] + 4 <= MaxPayload
    <3>1. MaxPayload \in Nat /\ startByte[first] \in Nat
      BY <1>1, <2>1, EndBytes, ItemAssumption
    <3>. QED
      BY <2>1, <2>5, <3>1 DEF TooLong, input
  <2>10. \A k \in items' : k = first' \/ i' <= k
    <3>. SUFFICES ASSUME NEW k \in items', k # first PROVE i' <= k
      BY <2>1
    <3>1. k \in items /\ k # i /\ i <= k /\ k \in Nat
      BY <1>1, <2>1 DEF BuildingInv
    <3>2. k >= i + 1
      BY <1>1, <3>1
    <3>. QED
      BY <2>2, <3>1, <3>2
  <2>. QED
    BY <2>6, <2>7, <2>8, <2>9, <2>10 DEF BuildingInv
<1>5. CASE UNCHANGED vars
  BY <1>1, <1>2, <1>5 DEF vars, BuildingInv
<1>6. CASE pc' # "joining"
  BY <1>6 DEF BuildingInv
<1>. QED
  BY <1>3, <1>4, <1>5, <1>6 DEF Next, TakeToInclude, IncludeFirst, IncludeItem,
     SkipOverlapping, KeepFirst, StartJoining, CloseBlock, StartReading, ReadList, Dispatch,
     Finish, Done

\* A block that is closed: its members were in no block, and those of other blocks are not
\* touched.
LEMMA CloseBlockFacts ==
  ASSUME IInv, CloseBlock
  PROVE  /\ first \in items /\ first \in Items /\ first \notin kept /\ first # 0
         /\ itemsInBlock \subseteq Items /\ itemsInBlock \intersect kept = {}
         /\ \A k \in itemsInBlock \union {first} : block[k] = 0
         /\ \A k \in Items : block[k] # 0 => block[k] \in kept /\ Holds(block[k], k)
         /\ \A k \in itemsInBlock : startByte[first] <= startByte[k]
         /\ \A k \in itemsInBlock \union {first} : EndByte(k) <= endByte
<1>1. /\ Typed /\ EveryItemInOnePlace /\ pc = "joining" /\ itemsInBlock = Members
      /\ first \in items /\ items \subseteq Items /\ itemsInBlock \subseteq Items
      /\ BlockInv /\ BuildingInv /\ Sorted
  BY DEF IInv, CloseBlock, Members, IteratorInv, Typed
<1>2. \A k \in Items : block[k] # 0 => block[k] \in kept /\ Holds(block[k], k)
  BY <1>1 DEF BlockInv, Joining
<1>3. first \notin kept /\ itemsInBlock \intersect kept = {}
  BY <1>1, Places
<1>4. \A k \in itemsInBlock \union {first} : block[k] = 0
  <2>1. \A k \in itemsInBlock \union {first} : block[k] \in {0, k} /\ k \notin kept
    BY <1>1, <1>3, Places
  <2>. QED
    BY <1>1, <1>2, <2>1
<1>5. \A k \in itemsInBlock : startByte[first] <= startByte[k]
  BY <1>1, ItemsAreNumbers DEF BuildingInv, Sorted
<1>. QED
  BY <1>1, <1>2, <1>3, <1>4, <1>5, ItemsAreNumbers DEF BuildingInv

LEMMA BlockStep ==
  ASSUME IInv, [Next]_vars
  PROVE  BlockInv'
<1>1. BlockInv /\ Typed
  BY DEF IInv
<1>2. startByte' = startByte /\ \A k : EndByte(k)' = EndByte(k)
  BY InputKept
<1>3. CASE TakeToInclude \/ IncludeFirst \/ IncludeItem \/ SkipOverlapping \/ KeepFirst
  BY <1>1, <1>3 DEF TakeToInclude, IncludeFirst, IncludeItem, SkipOverlapping, KeepFirst,
     BlockInv, Including, Joining, tree, list
<1>4. CASE StartJoining
  BY <1>1, <1>4 DEF StartJoining, BlockInv, Including, Joining, tree
<1>5. CASE TakeToJoin \/ JoinItem
  <2>1. UNCHANGED <<block, blockEnd, kept>> /\ Joining /\ Joining' /\ ~Including'
    BY <1>5 DEF TakeToJoin, JoinItem, tree, list, Joining, Including
  <2>. QED
    BY <1>1, <1>2, <2>1 DEF BlockInv, Holds
<1>6. CASE CloseBlock
  <2>1. /\ Joining' /\ ~Including' /\ kept' = kept \union {first} /\ first' = first
    BY <1>6 DEF CloseBlock, Joining, Including
  <2>2. CASE itemsInBlock = {}
    <3>1. UNCHANGED <<block, blockEnd>>
      BY <1>6, <2>2, ClosedBlock DEF tree
    <3>. QED
      BY <1>2, <1>6, <2>1, <3>1, CloseBlockFacts DEF BlockInv, Holds
  <2>3. CASE itemsInBlock # {}
    <3>1. /\ block' = [k \in Items |-> IF k \in itemsInBlock \union {first} THEN first ELSE block[k]]
          /\ blockEnd' = [blockEnd EXCEPT ![first] = endByte]
      BY <1>6, <2>3, ClosedBlock
    <3>2. block'[first] = first /\ blockEnd'[first] = endByte
      BY <1>1, <1>6, <3>1, CloseBlockFacts DEF Typed
    <3>3. ASSUME NEW k \in itemsInBlock \union {first} PROVE block'[k] = first /\ Holds(first, k)'
      <4>1. block'[k] = first
        BY <1>6, <3>1, <3>3, CloseBlockFacts
      <4>2. startByte[first] <= startByte[k] /\ EndByte(k) <= endByte
        <5>1. startByte[first] \in Nat
          BY <1>1, <1>6, CloseBlockFacts, EndBytes
        <5>. QED
          BY <1>6, <3>3, <5>1, CloseBlockFacts
      <4>3. first' = first
        BY <1>6 DEF CloseBlock
      <4>. QED
        BY <1>2, <3>2, <4>1, <4>2, <4>3 DEF Holds
    <3>4. ASSUME NEW k \in Items, k \notin itemsInBlock \union {first}, block'[k] # 0
          PROVE  block'[k] \in kept /\ Holds(block[k], k)'
      <4>1. block'[k] = block[k]
        BY <3>1, <3>4
      <4>2. PICK f \in Items : f = block[k] /\ f \in kept /\ Holds(f, k)
        BY <1>1, <1>6, <3>4, <4>1, CloseBlockFacts DEF Typed
      <4>3. f # first /\ f \notin itemsInBlock
        BY <1>6, <4>2, CloseBlockFacts
      <4>4. block'[f] = block[f] /\ blockEnd'[f] = blockEnd[f]
        BY <1>1, <3>1, <4>2, <4>3 DEF Typed
      <4>5. Holds(f, k)'
        BY <1>2, <4>2, <4>4 DEF Holds
      <4>. QED
        BY <4>1, <4>2, <4>5 DEF Holds
    <3>5. ASSUME NEW k \in Items, block'[k] # 0
          PROVE  block'[k] \in kept' /\ Holds(block[k], k)'
      <4>1. CASE k \in itemsInBlock \union {first}
        BY <2>1, <3>3, <4>1 DEF Holds
      <4>2. CASE k \notin itemsInBlock \union {first}
        BY <2>1, <3>4, <3>5, <4>2
      <4>. QED
        BY <4>1, <4>2
    <3>. QED
      BY <2>1, <3>5 DEF BlockInv
  <2>. QED
    BY <2>2, <2>3
<1>7. CASE StartReading \/ ReadList \/ Dispatch \/ Finish
  <2>1. /\ UNCHANGED <<block, blockEnd>> /\ kept' = {} /\ ~Joining' /\ ~Including'
        /\ \A k \in Items : block[k] # 0 => Holds(block[k], k)
    BY <1>1, <1>7 DEF StartReading, ReadList, Dispatch, Finish, Joining, Including, BlockInv,
       tree, list
  <2>. QED
    BY <1>2, <2>1 DEF BlockInv, Holds
<1>8. CASE UNCHANGED vars
  <2>1. UNCHANGED <<block, blockEnd, kept, pc>>
    BY <1>8 DEF vars
  <2>. QED
    BY <1>1, <1>2, <2>1 DEF BlockInv, Including, Joining, Holds
<1>. QED
  BY <1>3, <1>4, <1>5, <1>6, <1>7, <1>8 DEF Next, Done

\* The blocks fit: of the members of a block the last one decides.
LEMMA BlocksFitStep ==
  ASSUME IInv, [Next]_vars
  PROVE  BlocksFitPayload'
<1>1. BlocksFitPayload /\ Typed /\ BuildingInv
  BY DEF IInv
<1>2. startByte' = startByte
  BY InputKept
<1>3. CASE CloseBlock /\ itemsInBlock # {}
  <2>1. /\ block' = [k \in Items |-> IF k \in itemsInBlock \union {first} THEN first ELSE block[k]]
        /\ blockEnd' = [blockEnd EXCEPT ![first] = endByte]
    BY <1>3, ClosedBlock
  <2>2. endByte - startByte[first] + 4 <= MaxPayload
    BY <1>1, <1>3 DEF CloseBlock, BuildingInv
  <2>3. ASSUME NEW k \in Items, block'[k] = k PROVE blockEnd'[k] - startByte[k] + 4 <= MaxPayload
    <3>1. CASE k = first
      BY <1>1, <2>1, <2>2, <3>1 DEF Typed
    <3>2. CASE k # first
      BY <1>1, <2>1, <2>3, <3>2 DEF BlocksFitPayload, Typed
    <3>. QED
      BY <3>1, <3>2
  <2>. QED
    BY <1>2, <2>3 DEF BlocksFitPayload
<1>4. CASE UNCHANGED <<block, blockEnd>>
  BY <1>1, <1>2, <1>4 DEF BlocksFitPayload
<1>. QED
  BY <1>3, <1>4, ClosedBlock DEF Next, TakeToInclude, IncludeFirst, IncludeItem,
     SkipOverlapping, KeepFirst, StartJoining, TakeToJoin, JoinItem, StartReading, ReadList,
     Dispatch, Finish, Done, tree, vars

\* What stays separate: the elements that are finished keep their ends.
LEMMA JoinedStep ==
  ASSUME IInv, [Next]_vars
  PROVE  JoinedInv'
<1>1. /\ Typed /\ Sorted /\ JoinedInv /\ IteratorInv /\ BuildingInv /\ BlockInv /\ ApartInv
      /\ items \subseteq Items /\ kept \subseteq Items /\ i \in Nat /\ first \in Nat
      /\ endByte \in Nat /\ MaxPayload \in Nat
      /\ \A k \in Items : k \in Nat /\ k < End
  BY ItemsAreNumbers, ItemAssumption DEF IInv, Typed
<1>2. startByte' = startByte /\ \A k : EndByte(k)' = EndByte(k)
  BY InputKept
<1>3. CASE StartJoining
  BY <1>3 DEF StartJoining, JoinedInv
<1>4. CASE UNCHANGED <<block, blockEnd, kept>> /\ items' \subseteq items /\ (Joining' => Joining)
  BY <1>1, <1>2, <1>4 DEF JoinedInv, Separate, ElementEnd
<1>5. CASE CloseBlock
  <2>1. /\ items' = items \ {first} /\ kept' = kept \union {first}
        /\ first \in items /\ first \in Items /\ first \notin kept
        /\ pc = "joining" /\ Joining
    BY <1>1, <1>5, CloseBlockFacts DEF CloseBlock, Joining
  <2>2. \A k \in items : first <= k
    BY <1>1, <2>1 DEF IteratorInv
  <2>3. \A a \in kept', b \in items' : a < b
    BY <1>1, <2>1, <2>2 DEF JoinedInv
\* The elements that were finished before.
  <2>4. ASSUME NEW a \in kept PROVE ElementEnd(a)' = ElementEnd(a)
    <3>1. a # first /\ a \notin itemsInBlock /\ a \in Items
      BY <1>1, <1>5, <2>1, CloseBlockFacts
    <3>2. block'[a] = block[a] /\ blockEnd'[a] = blockEnd[a]
      BY <1>1, <1>5, <3>1, ClosedBlock DEF Typed, tree
    <3>. QED
      BY <1>2, <3>2 DEF ElementEnd
\* The one that is finished now.
  <2>5. ElementEnd(first)' = endByte
    <3>1. first' = first
      BY <1>5 DEF CloseBlock
    <3>2. CASE itemsInBlock = {}
      <4>1. block' = block /\ block[first] = 0 /\ endByte = EndByte(first) /\ first # 0
        BY <1>1, <1>5, <2>1, <3>2, ClosedBlock, CloseBlockFacts DEF tree, BuildingInv
      <4>. QED
        BY <1>2, <3>1, <4>1 DEF ElementEnd
    <3>3. CASE itemsInBlock # {}
      <4>1. block'[first] = first /\ blockEnd'[first] = endByte
        BY <1>1, <1>5, <2>1, <3>3, ClosedBlock DEF Typed
      <4>. QED
        BY <3>1, <4>1 DEF ElementEnd
    <3>. QED
      BY <3>2, <3>3
  <2>6. ASSUME NEW b \in items, first < b
        PROVE  \/ startByte[b] > endByte + 4
               \/ EndByte(b) - startByte[first] + 4 > MaxPayload
    <3>1. b \in Items /\ i <= b /\ i \in items
      BY <1>1, <2>1, <2>6 DEF BuildingInv, IteratorInv
    <3>2. TooLong(i) \/ ~Close(i)
      BY <1>1, <1>5, <3>1 DEF CloseBlock
    <3>3. /\ startByte[i] <= startByte[b] /\ EndByte(i) <= EndByte(b)
      <4>1. CASE i = b
        BY <1>1, <3>1, <4>1, EndBytes
      <4>2. CASE i < b
        <5>1. Apart(i, b)
          BY <1>1, <2>1, <3>1, <4>2 DEF ApartInv
        <5>. QED
          BY <1>1, <3>1, <4>2, <5>1, ApartInOrder, EndBytes
      <4>. QED
        BY <1>1, <3>1, <4>1, <4>2
    <3>4. /\ startByte[i] \in Nat /\ EndByte(i) \in Nat /\ startByte[b] \in Nat
          /\ EndByte(b) \in Nat /\ startByte[first] \in Nat
      BY <1>1, <2>1, <3>1, EndBytes
    <3>. QED
      BY <1>1, <3>2, <3>3, <3>4 DEF TooLong, Close
  <2>7. ASSUME NEW a \in kept', NEW b \in kept' \union items', a < b PROVE Separate(a, b)'
    <3>1. CASE a \in kept
      <4>1. Separate(a, b)
        BY <1>1, <2>1, <2>7, <3>1 DEF JoinedInv
      <4>. QED
        BY <1>2, <2>4, <3>1, <4>1 DEF Separate
    <3>2. CASE a = first
      <4>1. b \in items
        BY <1>1, <2>1, <2>7, <3>2 DEF JoinedInv
      <4>2. first' = first
        BY <1>5 DEF CloseBlock
      <4>. QED
        BY <1>2, <2>5, <2>6, <2>7, <3>2, <4>1, <4>2 DEF Separate
    <3>. QED
      BY <2>1, <2>7, <3>1, <3>2
  <2>. QED
    BY <2>3, <2>7 DEF JoinedInv
<1>6. CASE TakeToJoin \/ JoinItem \/ UNCHANGED vars
  BY <1>4, <1>6 DEF TakeToJoin, JoinItem, vars, list, tree, Joining
<1>7. CASE ~Joining'
  BY <1>7 DEF JoinedInv
<1>. QED
  BY <1>3, <1>5, <1>6, <1>7 DEF Next, TakeToInclude, IncludeFirst, IncludeItem,
     SkipOverlapping, KeepFirst, StartReading, ReadList, Dispatch, Finish, Done, Joining

LEMMA ListIsJoinedStep ==
  ASSUME IInv, [Next]_vars
  PROVE  ListIsJoined'
<1>1. JoinedInv /\ ListIsJoined
  BY DEF IInv
<1>2. startByte' = startByte /\ \A k : EndByte(k)' = EndByte(k)
  BY InputKept
<1>3. CASE StartReading
  <2>1. UNCHANGED <<block, blockEnd>> /\ items' = kept /\ Joining
    BY <1>3 DEF StartReading, Joining, tree
  <2>2. \A a, b \in kept : a < b => Separate(a, b)'
    BY <1>1, <1>2, <2>1 DEF JoinedInv, Separate, ElementEnd
  <2>. QED
    BY <2>1, <2>2 DEF ListIsJoined, Separate
<1>4. CASE UNCHANGED vars
  BY <1>1, <1>2, <1>4 DEF ListIsJoined, ElementEnd, vars
<1>5. CASE pc' # "read"
  BY <1>5 DEF ListIsJoined
<1>. QED
  BY <1>3, <1>4, <1>5 DEF Next, TakeToInclude, IncludeFirst, IncludeItem, SkipOverlapping,
     KeepFirst, StartJoining, TakeToJoin, JoinItem, CloseBlock, ReadList, Dispatch, Finish, Done

LEMMA ParentStep ==
  ASSUME IInv, [Next]_vars
  PROVE  ParentInv'
<1>1. /\ ParentInv /\ Typed
      /\ pc = "including" => /\ first \in Items /\ first \in Nat /\ first < i
                             /\ i # End => i \in Items
  BY DEF IInv, IteratorInv, Typed
<1>2. \A a, b : Includes(a, b)' = Includes(a, b) /\ Outranks(a, b)' = Outranks(a, b)
  BY InputKept DEF Outranks
<1>3. CASE IncludeFirst
  <2>1. /\ parent' = [parent EXCEPT ![first] = i] /\ i \in Items /\ first \in Items /\ first < i
        /\ Includes(i, first)
    BY <1>1, <1>3 DEF IncludeFirst
  <2>2. Outranks(i, first)
    BY <1>1, <2>1, EndBytes, ItemsAreNumbers DEF Includes, Outranks
  <2>. QED
    BY <1>1, <1>2, <2>1, <2>2 DEF ParentInv, Typed
<1>4. CASE IncludeItem
  <2>1. /\ parent' = [parent EXCEPT ![i] = first] /\ i \in Items /\ first \in Items
        /\ Includes(first, i) /\ ~Includes(i, first)
    BY <1>1, <1>4 DEF IncludeItem
  <2>2. Outranks(first, i)
    BY <1>1, <2>1, EndBytes DEF Includes, Outranks
  <2>. QED
    BY <1>1, <1>2, <2>1, <2>2 DEF ParentInv, Typed
<1>5. CASE UNCHANGED parent
  BY <1>1, <1>2, <1>5 DEF ParentInv
<1>. QED
  BY <1>3, <1>4, <1>5, ClosedBlock DEF Next, TakeToInclude, SkipOverlapping, KeepFirst,
     StartJoining, TakeToJoin, JoinItem, CloseBlock, StartReading, ReadList, Dispatch, Finish,
     Done, tree, vars

------------------------------------------------------------------------------
(***************************************************************************)
(* The results.                                                            *)
(***************************************************************************)
LEMMA ResultsDiffer ==
  ASSUME NEW k
  PROVE  NoResult \notin Failures /\ NoResult # OwnBytes(k)
<1>1. /\ NoResult.status = "none" /\ OwnBytes(k).status = "ok"
      /\ \A e \in Failures : e.status \in {"ok", "error"}
  BY DEF NoResult, Failures, OwnBytes
<1>. QED
  BY <1>1

\* What an item takes from a buffer that covers it is its own bytes.
LEMMA ShareOfBytes ==
  ASSUME Typed, NEW k \in Items, NEW start \in Nat, NEW length \in Nat,
         start <= startByte[k], EndByte(k) <= start + length
  PROVE  Share(k, start, [status |-> "ok", bytesRead |-> length, from |-> start]) = OwnBytes(k)
<1>. DEFINE source == [status |-> "ok", bytesRead |-> length, from |-> start]
<1>1. /\ startByte[k] \in Nat /\ readBytes[k] \in Nat /\ readBytes[k] > 0
      /\ EndByte(k) = startByte[k] + readBytes[k]
  BY EndBytes
<1>2. source.status = "ok" /\ source.bytesRead = length /\ source.from = start
  OBVIOUS
<1>3. length # 0 /\ Lesser(length - (startByte[k] - start), readBytes[k]) = readBytes[k]
  BY <1>1 DEF Lesser
<1>4. start + (startByte[k] - start) = startByte[k]
  BY <1>1
<1>. HIDE DEF source
<1>5. Share(k, start, source) = OwnBytes(k)
  BY <1>2, <1>3, <1>4 DEF Share, OwnBytes
<1>. QED
  BY <1>5 DEF source

\* What an item takes from an element that has not been read is the same failure.
LEMMA ShareOfFailure ==
  ASSUME NEW k, NEW start, NEW e \in Failures
  PROVE  Share(k, start, e) = e
<1>1. e.bytesRead = 0 /\ [e EXCEPT !.bytesRead = 0] = e
  BY DEF Failures
<1>. QED
  BY <1>1 DEF Share

LEMMA ReadListResults ==
  ASSUME IInv, ReadList
  PROVE  /\ DOMAIN result' = Items
         /\ \A k \in Items : /\ result'[k] \in {NoResult, OwnBytes(k)} \union Failures
                             /\ parent[k] = 0 => result'[k] # NoResult
<1>1. /\ Typed /\ EveryItemInOnePlace /\ BlockInv /\ kept = {} /\ Members = {}
      /\ \A k \in Items : block[k] # 0 => Holds(block[k], k)
  BY DEF IInv, BlockInv, Including, Joining, ReadList, Members
<1>2. PICK refused \in SUBSET items, unread \in SUBSET items :
        result' = [k \in Items |->
          IF block[k] # 0 THEN Share(k, startByte[block[k]], Reading(block[k], refused, unread))
          ELSE IF k \in items THEN Reading(k, refused, unread)
          ELSE NoResult]
  BY DEF ReadList
<1>3. ASSUME NEW k \in Items
      PROVE  /\ result'[k] \in {NoResult, OwnBytes(k)} \union Failures
             /\ parent[k] = 0 => result'[k] # NoResult
  <2>1. CASE block[k] # 0
    <3>0. block[k] \in Items /\ Holds(block[k], k)
      <4>1. block[k] \in 0..NumItems
        BY <1>1 DEF Typed, Items
      <4>2. block[k] \in Items
        BY <2>1, <4>1, ItemsAreNumbers DEF Items
      <4>. QED
        BY <1>1, <2>1, <4>2
    <3>1. PICK f \in Items : f = block[k] /\ Holds(f, k)
      BY <3>0
    <3>2. result'[k] = Share(k, startByte[f], Reading(f, refused, unread))
      BY <1>2, <2>1, <3>1
    <3>3. CASE f \in refused \union unread
      <4>1. Reading(f, refused, unread) \in Failures
        BY <3>3 DEF Reading, Failures
      <4>2. result'[k] = Reading(f, refused, unread)
        BY <3>2, <4>1, ShareOfFailure
      <4>3. result'[k] \in Failures
        BY <4>1, <4>2
      <4>. QED
        BY <4>3, ResultsDiffer
    <3>4. CASE f \notin refused \union unread
      <4>1. /\ startByte[f] <= startByte[k] /\ EndByte(k) <= blockEnd[f] /\ block[f] = f
            /\ startByte[f] \in Nat /\ startByte[k] \in Nat /\ EndByte(k) \in Nat
            /\ EndByte(k) > startByte[k] /\ blockEnd[f] \in Nat
        BY <1>1, <3>1, EndBytes DEF Holds, Typed
      <4>2. PICK length \in Nat : length = blockEnd[f] - startByte[f]
        BY <4>1
      <4>3. Reading(f, refused, unread) = [status |-> "ok", bytesRead |-> length, from |-> startByte[f]]
        BY <3>4, <4>1, <4>2 DEF Reading, BlockLength
      <4>4. EndByte(k) <= startByte[f] + length
        BY <4>1, <4>2
      <4>5. result'[k] = OwnBytes(k)
        BY <1>1, <3>2, <4>1, <4>3, <4>4, ShareOfBytes
      <4>. QED
        BY <4>5, ResultsDiffer
    <3>. QED
      BY <3>3, <3>4
  <2>2. CASE block[k] = 0 /\ k \in items
    <3>1. result'[k] = Reading(k, refused, unread) /\ k # 0
      BY <1>2, <2>2, ItemsAreNumbers
    <3>2. Reading(k, refused, unread) \in {OwnBytes(k)} \union Failures
      BY <2>2, <3>1 DEF Reading, BlockLength, Failures, OwnBytes
    <3>. QED
      BY <3>1, <3>2, ResultsDiffer
  <2>3. CASE block[k] = 0 /\ k \notin items
    <3>1. result'[k] = NoResult
      BY <1>2, <2>3
    <3>2. parent[k] # 0
      BY <1>1, <2>3, Places
    <3>. QED
      BY <3>1, <3>2
  <2>. QED
    BY <2>1, <2>2, <2>3
<1>. QED
  BY <1>2, <1>3

LEMMA ResultStep ==
  ASSUME IInv, [Next]_vars
  PROVE  ResultInv'
<1>1. /\ ResultInv /\ ParentInv /\ Typed
  BY DEF IInv
<1>2. startByte' = startByte /\ readBytes' = readBytes /\ \A k : OwnBytes(k)' = OwnBytes(k)
  BY InputKept DEF OwnBytes
<1>3. CASE ReadList
  <2>1. parent' = parent /\ pc' = "dispatch"
    BY <1>3 DEF ReadList, tree
  <2>. QED
    BY <1>2, <1>3, <2>1, ReadListResults DEF ResultInv
<1>4. CASE Dispatch
  <2>. DEFINE k == NextFrom(Waiting, 1)
  <2>1. k \in Waiting
    BY <1>4, FirstOfList DEF Dispatch, Waiting
  <2>2. /\ pc = "dispatch" /\ pc' = pc /\ parent' = parent
        /\ result' = [result EXCEPT ![k] = Share(k, startByte[parent[k]], result[parent[k]])]
    BY <1>4 DEF Dispatch, tree
  <2>. HIDE DEF k
  <2>3. k \in Items /\ parent[k] # 0 /\ result[parent[k]] # NoResult
    BY <2>1 DEF Waiting
  <2>4. /\ k \in Items /\ parent[k] # 0 /\ result[parent[k]] # NoResult /\ parent[k] \in Items
        /\ pc = "dispatch" /\ pc' = pc /\ parent' = parent
        /\ result' = [result EXCEPT ![k] = Share(k, startByte[parent[k]], result[parent[k]])]
    <3>1. parent[k] \in 0..NumItems
      BY <1>1, <2>3 DEF Typed, Items
    <3>2. parent[k] \in Items
      BY <2>3, <3>1, ItemsAreNumbers DEF Items
    <3>. QED
      BY <2>2, <2>3, <3>2
  <2>5. Share(k, startByte[parent[k]], result[parent[k]]) \in {OwnBytes(k)} \union Failures
    <3>1. result[parent[k]] \in {OwnBytes(parent[k])} \union Failures
      BY <1>1, <2>4 DEF ResultInv
    <3>2. CASE result[parent[k]] \in Failures
      BY <3>2, ShareOfFailure
    <3>3. CASE result[parent[k]] = OwnBytes(parent[k])
      <4>1. Includes(parent[k], k)
        BY <1>1, <2>4 DEF ParentInv
      <4>2. /\ startByte[parent[k]] <= startByte[k] /\ startByte[parent[k]] \in Nat
            /\ readBytes[parent[k]] \in Nat
            /\ EndByte(k) <= startByte[parent[k]] + readBytes[parent[k]]
        BY <1>1, <2>4, <4>1, EndBytes DEF Includes
      <4>3. Share(k, startByte[parent[k]], OwnBytes(parent[k])) = OwnBytes(k)
        BY <1>1, <2>4, <4>2, ShareOfBytes DEF OwnBytes
      <4>. QED
        BY <3>3, <4>3
    <3>. QED
      BY <3>1, <3>2, <3>3
  <2>6. DOMAIN result = Items /\ DOMAIN result' = Items
    BY <1>1, <2>4 DEF ResultInv
  <2>7. ASSUME NEW x \in Items
        PROVE  /\ result'[x] \in {NoResult, OwnBytes(x)} \union Failures
               /\ parent[x] = 0 => result'[x] # NoResult
    <3>1. CASE x = k
      BY <2>4, <2>5, <2>6, <3>1, ResultsDiffer
    <3>2. CASE x # k
      BY <1>1, <2>4, <2>6, <3>2 DEF ResultInv
    <3>. QED
      BY <3>1, <3>2
  <2>. QED
    BY <1>2, <2>4, <2>6, <2>7 DEF ResultInv
<1>5. CASE Finish
  <2>1. /\ pc = "dispatch" /\ UNCHANGED <<result, parent>> /\ Waiting = {} /\ Waiting' = Waiting
    BY <1>5 DEF Finish, Waiting, tree
  <2>. QED
    BY <1>1, <1>2, <2>1 DEF ResultInv
<1>6. CASE UNCHANGED vars
  <2>1. UNCHANGED <<pc, result, parent>> /\ Waiting' = Waiting
    BY <1>6 DEF vars, Waiting
  <2>. QED
    BY <1>1, <1>2, <2>1 DEF ResultInv
<1>7. CASE pc' \notin {"dispatch", "done"}
  BY <1>7 DEF ResultInv
<1>. QED
  BY <1>1, <1>3, <1>4, <1>5, <1>6, <1>7 DEF Next, TakeToInclude, IncludeFirst, IncludeItem,
     SkipOverlapping, KeepFirst, StartJoining, TakeToJoin, JoinItem, CloseBlock, StartReading,
     Done

LEMMA NextIInv == IInv /\ [Next]_vars => IInv'
<1>. SUFFICES ASSUME IInv, [Next]_vars PROVE IInv'
  OBVIOUS
<1>1. Sorted'
  BY InputKept DEF IInv
<1>. QED
  BY <1>1, TypedStep, PlaceStep, IteratorStep, ApartStep, BuildingStep, BlockStep, JoinedStep,
     BlocksFitStep, ListIsJoinedStep, ParentStep, ResultStep DEF IInv

\* Every step of optimizeWithinArea and dispatchResults keeps the invariant.
THEOREM Invariance == Spec => []IInv
  BY InitIInv, NextIInv, PTL DEF Spec

------------------------------------------------------------------------------
(***************************************************************************)
(* Items are nested in longer or later ones, so that there are no cycles   *)
(* and a chain of nested items ends with one that has no parent.           *)
(***************************************************************************)
LEMMA LengthsAreBounded ==
  ASSUME Typed
  PROVE  \E max \in Nat : \A k \in Items : readBytes[k] <= max
<1>. DEFINE Bounded(n) == \E max \in Nat : \A k \in Items : k <= n => readBytes[k] <= max
            T == {n \in Nat : Bounded(n)}
<1>1. 0 \in T
  <2>1. \A k \in Items : ~(k <= 0)
    BY ItemsAreNumbers
  <2>. QED
    BY <2>1
<1>2. ASSUME NEW n \in Nat, n \in T PROVE n + 1 \in T
  <2>1. PICK max \in Nat : \A k \in Items : k <= n => readBytes[k] <= max
    BY <1>2
  <2>2. CASE n + 1 \in Items
    <3>1. PICK more \in Nat : more = max + readBytes[n + 1]
      BY <2>2, EndBytes
    <3>2. ASSUME NEW k \in Items, k <= n + 1 PROVE readBytes[k] <= more
      <4>1. readBytes[k] \in Nat /\ readBytes[n + 1] \in Nat /\ k \in Nat
        BY <2>2, EndBytes, ItemsAreNumbers
      <4>2. CASE k = n + 1
        BY <3>1, <4>1, <4>2
      <4>3. CASE k # n + 1
        BY <2>1, <3>1, <3>2, <4>1, <4>3
      <4>. QED
        BY <4>2, <4>3
    <3>. QED
      BY <3>2
  <2>3. CASE n + 1 \notin Items
    <3>1. \A k \in Items : k <= n + 1 => k <= n
      BY <2>3, ItemsAreNumbers
    <3>2. Bounded(n + 1)
      BY <2>1, <3>1
    <3>. QED
      BY <3>2
  <2>. QED
    BY <2>2, <2>3
<1>. HIDE DEF T
<1>3. NumItems \in T
  BY <1>1, <1>2, SetOfAllNaturals, ItemsAreNumbers
<1>. QED
  BY <1>3, ItemsAreNumbers DEF T

LEMMA OneIsNotOutranked ==
  ASSUME Typed, NEW S, S \subseteq Items, S # {}
  PROVE  \E k \in S : \A x \in S : ~Outranks(x, k)
<1>1. PICK max \in Nat : \A k \in Items : readBytes[k] <= max
  BY LengthsAreBounded
<1>2. \A k \in S : k \in Nat /\ k <= NumItems /\ readBytes[k] \in Nat /\ readBytes[k] <= max
  BY <1>1, EndBytes, ItemsAreNumbers
<1>. DEFINE D == {max - readBytes[k] : k \in S}
<1>3. D \subseteq Nat /\ D # {}
  BY <1>2
<1>4. PICK d \in D : \A e \in D : d <= e
  BY <1>3, LeastNatural
<1>5. PICK l \in S : d = max - readBytes[l]
  BY <1>4
<1>6. \A k \in S : readBytes[k] <= readBytes[l]
  <2>. SUFFICES ASSUME NEW k \in S PROVE readBytes[k] <= readBytes[l]
    OBVIOUS
  <2>1. max - readBytes[l] <= max - readBytes[k]
    BY <1>4, <1>5
  <2>. QED
    BY <1>2, <2>1
<1>. DEFINE L == {k \in S : readBytes[k] = readBytes[l]}
            G == {NumItems - k : k \in L}
<1>7. G \subseteq Nat /\ G # {}
  BY <1>2, ItemsAreNumbers
<1>8. PICK g \in G : \A e \in G : g <= e
  BY <1>7, LeastNatural
<1>9. PICK k \in L : g = NumItems - k
  BY <1>8
<1>10. \A x \in L : x <= k
  <2>. SUFFICES ASSUME NEW x \in L PROVE x <= k
    OBVIOUS
  <2>1. NumItems - k <= NumItems - x
    BY <1>8, <1>9
  <2>. QED
    BY <1>2, <2>1, ItemsAreNumbers
<1>11. ASSUME NEW x \in S PROVE ~Outranks(x, k)
  <2>1. readBytes[k] = readBytes[l] /\ readBytes[x] <= readBytes[k]
    BY <1>6
  <2>2. readBytes[x] = readBytes[k] => x <= k
    BY <1>10, <2>1
  <2>. QED
    BY <1>2, <2>1, <2>2 DEF Outranks
<1>. QED
  BY <1>11

LEMMA NobodyWaitsForever ==
  ASSUME IInv, pc = "done"
  PROVE  \A k \in Items : result[k] # NoResult
<1>. DEFINE S == {k \in Items : result[k] = NoResult}
<1>1. SUFFICES ASSUME S # {} PROVE FALSE
  OBVIOUS
<1>2. Typed /\ ParentInv /\ ResultInv
  BY DEF IInv
<1>3. PICK k \in S : \A x \in S : ~Outranks(x, k)
  BY <1>1, <1>2, OneIsNotOutranked
<1>4. parent[k] # 0 /\ parent[k] \in Items /\ Outranks(parent[k], k)
  BY <1>2, ItemsAreNumbers DEF ResultInv, ParentInv, Typed, Items
<1>5. parent[k] \notin S
  BY <1>3, <1>4
<1>6. k \in Waiting
  BY <1>4, <1>5 DEF Waiting
<1>. QED
  BY <1>2, <1>6 DEF ResultInv

------------------------------------------------------------------------------
(***************************************************************************)
(* The properties.                                                         *)
(***************************************************************************)
\* However the items overlap, optimizeWithinArea loses none of them and reads none twice.
THEOREM ItemsAreInOnePlace == Spec => []EveryItemInOnePlace
<1>1. IInv => EveryItemInOnePlace
  BY DEF IInv
<1>. QED
  BY <1>1, Invariance, PTL

\* Every block can be read with one request, although only the item that is added last is
\* compared with the payload size.
THEOREM BlocksFit == Spec => []BlocksFitPayload
<1>1. IInv => BlocksFitPayload
  BY DEF IInv
<1>. QED
  BY <1>1, Invariance, PTL

\* The optimized list cannot be made shorter by joining elements, whatever the items.
THEOREM NothingLeftToJoin == Spec => []ListIsJoined
<1>1. IInv => ListIsJoined
  BY DEF IInv
<1>. QED
  BY <1>1, Invariance, PTL

\* dispatchResults reaches every item: nesting has no cycles, and offsets add up to the
\* place of the item in the block, so that it gets its own bytes or the error.
THEOREM ItemsGetTheirBytes == Spec => []EveryItemGetsItsBytes
<1>1. IInv => EveryItemGetsItsBytes
  <2>. SUFFICES ASSUME IInv, pc = "done", NEW k \in Items
                PROVE  \/ result[k] = [status |-> "ok", bytesRead |-> readBytes[k], from |-> startByte[k]]
                       \/ result[k] # NoResult /\ result[k].bytesRead = 0
    BY DEF EveryItemGetsItsBytes
  <2>1. result[k] \in {OwnBytes(k)} \union Failures
    BY NobodyWaitsForever DEF IInv, ResultInv
  <2>. QED
    BY <2>1, ResultsDiffer DEF Failures, OwnBytes
<1>. QED
  BY <1>1, Invariance, PTL
==============================================================================
