---------------------------- MODULE ReadOptimizer ----------------------------
(***************************************************************************)
(* PortDriverReadOptimizer::optimizeWithinArea, which merges the read      *)
(* items of one memory area into as few blocks as possible, and            *)
(* dispatchResults, which hands the data of the blocks back to the items.  *)
(*                                                                         *)
(* The items are numbered in the order of the sorted list, so that a list  *)
(* is a set of numbers and an iterator is a number.  A block that joins    *)
(* several items has the number of the first of them.  The bytes of a      *)
(* buffer are not modelled: a buffer is the address its first byte comes   *)
(* from.  An operator that is not used is a variant, with a bug, of the    *)
(* one that follows it.                                                    *)
(***************************************************************************)
EXTENDS Integers, FiniteSets

CONSTANTS
  NumItems,             \* number of items of the area
  Starts, Lengths,      \* the values startByte and readBytes may have
  MaxPayload            \* maxPayloadSize

ASSUME ItemAssumption ==
  /\ NumItems \in Nat
  /\ Starts \subseteq Nat
  /\ Lengths \subseteq Nat \ {0}
  /\ MaxPayload \in Nat

Items == 1..NumItems
End == NumItems + 1     \* the end iterator

VARIABLES
  startByte, readBytes, \* the items
  pc,
  items, kept,          \* the list and the items that have been dealt with
  first, i, endByte,    \* firstItem, the iterator and the end of the block
  itemsInBlock,
  parent,               \* the item whose includedReadItems has an item, or 0
  block,                \* the block whose includedReadItems has an item, or 0
  blockEnd,             \* the end of each block
  result                \* bytesRead, status and buffer of each item

vars == <<startByte, readBytes, pc, items, kept, first, i, endByte, itemsInBlock, parent,
          block, blockEnd, result>>

input == <<startByte, readBytes>>
list  == <<items, kept>>
tree  == <<parent, block, blockEnd>>

EndByte(k) == startByte[k] + readBytes[k]

\* The first number of a set, from a number on, and the end if there is none.
NextFrom(S, k) ==
  LET rest == {x \in S : x >= k} IN
  IF rest = {} THEN End ELSE CHOOSE x \in rest : \A y \in rest : x <= y

NoResult == [status |-> "none", bytesRead |-> 0, from |-> 0]

------------------------------------------------------------------------------
Init ==
  /\ startByte \in [Items -> Starts]
  /\ \A k \in Items : k > 1 => startByte[k - 1] <= startByte[k]
  /\ readBytes \in [Items -> Lengths]
  /\ pc = "include"
  /\ items = Items /\ kept = {}
  /\ first = End /\ i = End /\ endByte = 0 /\ itemsInBlock = {}
  /\ parent = [k \in Items |-> 0]
  /\ block = [k \in Items |-> 0] /\ blockEnd = [k \in Items |-> 0]
  /\ result = [k \in Items |-> NoResult]

------------------------------------------------------------------------------
(***************************************************************************)
(* First loop: items that lie within another one.                          *)
(***************************************************************************)
Includes(a, b) == startByte[a] <= startByte[b] /\ EndByte(a) >= EndByte(b)

TakeToInclude ==
  /\ pc = "include" /\ items # {}
  /\ first' = NextFrom(items, 1)
  /\ i' = NextFrom(items, first' + 1)
  /\ pc' = "including"
  /\ UNCHANGED <<input, list, endByte, itemsInBlock, tree, result>>

IncludeFirstAndKeep ==
  /\ pc = "including" /\ i # End
  /\ Includes(i, first)
  /\ parent' = [parent EXCEPT ![first] = i]
  /\ kept' = kept \union {first}
  /\ items' = items \ {first}
  /\ pc' = "include"
  /\ UNCHANGED <<input, first, i, endByte, itemsInBlock, block, blockEnd, result>>

\* The item at the iterator includes the first item, which is then dropped.
IncludeFirst ==
  /\ pc = "including" /\ i # End
  /\ Includes(i, first)
  /\ parent' = [parent EXCEPT ![first] = i]
  /\ items' = items \ {first}
  /\ pc' = "include"
  /\ UNCHANGED <<input, kept, first, i, endByte, itemsInBlock, block, blockEnd, result>>

\* The first item includes the one at the iterator.
IncludeItem ==
  /\ pc = "including" /\ i # End
  /\ ~Includes(i, first) /\ Includes(first, i)
  /\ parent' = [parent EXCEPT ![i] = first]
  /\ items' = items \ {i}
  /\ i' = NextFrom(items, i + 1)
  /\ UNCHANGED <<input, pc, kept, first, endByte, itemsInBlock, block, blockEnd, result>>

SkipOverlappingInPlace ==
  /\ pc = "including" /\ i # End
  /\ ~Includes(i, first) /\ ~Includes(first, i)
  /\ EndByte(first) > startByte[i]
  /\ i' = NextFrom(items, i)
  /\ UNCHANGED <<input, pc, list, first, endByte, itemsInBlock, tree, result>>

SkipOverlapping ==
  /\ pc = "including" /\ i # End
  /\ ~Includes(i, first) /\ ~Includes(first, i)
  /\ EndByte(first) > startByte[i]
  /\ i' = NextFrom(items, i + 1)
  /\ UNCHANGED <<input, pc, list, first, endByte, itemsInBlock, tree, result>>

\* The end of the list, or an item behind the first one: nothing more to include.
KeepFirst ==
  /\ pc = "including"
  /\ \/ i = End
     \/ i # End /\ ~Includes(i, first) /\ ~Includes(first, i) /\ EndByte(first) <= startByte[i]
  /\ kept' = kept \union {first}
  /\ items' = items \ {first}
  /\ pc' = "include"
  /\ UNCHANGED <<input, first, i, endByte, itemsInBlock, tree, result>>

StartJoining ==
  /\ pc = "include" /\ items = {}
  /\ items' = kept /\ kept' = {}
  /\ pc' = "join"
  /\ UNCHANGED <<input, first, i, endByte, itemsInBlock, tree, result>>

------------------------------------------------------------------------------
(***************************************************************************)
(* Second loop: items that are close to each other.                        *)
(***************************************************************************)
TakeToJoin ==
  /\ pc = "join" /\ items # {}
  /\ first' = NextFrom(items, 1)
  /\ i' = NextFrom(items, first' + 1)
  /\ endByte' = EndByte(first')
  /\ itemsInBlock' = {}
  /\ pc' = "joining"
  /\ UNCHANGED <<input, list, tree, result>>

TooLongByHeader(k) == EndByte(k) - startByte[first] > MaxPayload
TooLong(k) == EndByte(k) - startByte[first] + 4 > MaxPayload
CloseWithoutGap(k) == startByte[k] <= endByte
Close(k) == startByte[k] <= endByte + 4

JoinItem ==
  /\ pc = "joining" /\ i # End
  /\ ~TooLong(i) /\ Close(i)
  /\ endByte' = EndByte(i)
  /\ itemsInBlock' = itemsInBlock \union {i}
  /\ items' = items \ {i}
  /\ i' = NextFrom(items, i + 1)
  /\ UNCHANGED <<input, pc, kept, first, tree, result>>

\* The block is closed.  addReadItems makes it longer if an item should not fit.
CloseBlock ==
  /\ pc = "joining"
  /\ i = End \/ (i # End /\ (TooLong(i) \/ ~Close(i)))
  /\ LET members == itemsInBlock \union {first}
         ends == {endByte} \union {EndByte(k) : k \in members} IN
     IF itemsInBlock = {}
     THEN UNCHANGED tree
     ELSE /\ block' = [k \in Items |-> IF k \in members THEN first ELSE block[k]]
          /\ blockEnd' = [blockEnd EXCEPT ![first] =
                            CHOOSE e \in ends : \A x \in ends : x <= e]
          /\ UNCHANGED parent
  /\ kept' = kept \union {first}
  /\ items' = items \ {first}
  /\ pc' = "join"
  /\ UNCHANGED <<input, first, i, endByte, itemsInBlock, result>>

StartReading ==
  /\ pc = "join" /\ items = {}
  /\ items' = kept /\ kept' = {}
  /\ pc' = "read"
  /\ UNCHANGED <<input, first, i, endByte, itemsInBlock, tree, result>>

------------------------------------------------------------------------------
(***************************************************************************)
(* The list is read, and dispatchResults passes the results on.            *)
(***************************************************************************)
\* The length of an element of the optimized list: a block or a single item.
BlockLength(k) == IF block[k] = k THEN blockEnd[k] - startByte[k] ELSE readBytes[k]

\* What reading an element of the list leaves in it: all of its bytes, the error status if
\* the PLC refuses it, or no bytes and the status of a success if a request fails as a whole.
\* (An item too long for any request is also left without bytes, see MultiItemRead.)
Reading(k, refused, unread) ==
  IF k \in refused THEN [status |-> "error", bytesRead |-> 0, from |-> 0]
  ELSE IF k \in unread THEN [status |-> "ok", bytesRead |-> 0, from |-> 0]
  ELSE [status |-> "ok", bytesRead |-> BlockLength(k), from |-> startByte[k]]

Lesser(a, b) == IF a <= b THEN a ELSE b

\* What an item that starts at byte start takes from the result of the element that
\* includes it.
FromBeginning(k, start, source) ==
  IF source.status = "ok" /\ source.bytesRead # 0
  THEN [status |-> "ok", bytesRead |-> Lesser(source.bytesRead, readBytes[k]),
        from |-> source.from]
  ELSE [source EXCEPT !.bytesRead = 0]

Share(k, start, source) ==
  LET offset == startByte[k] - start IN
  IF source.status = "ok" /\ source.bytesRead # 0
  THEN [status |-> "ok", bytesRead |-> Lesser(source.bytesRead - offset, readBytes[k]),
        from |-> source.from + offset]
  ELSE [source EXCEPT !.bytesRead = 0]

\* Every element of the list gets its result, and a block shares it with its items.
ReadList ==
  /\ pc = "read"
  /\ \E refused \in SUBSET items : \E unread \in SUBSET (items \ refused) :
       result' = [k \in Items |->
         IF block[k] # 0 THEN Share(k, startByte[block[k]], Reading(block[k], refused, unread))
         ELSE IF k \in items THEN Reading(k, refused, unread)
         ELSE NoResult]
  /\ pc' = "dispatch"
  /\ UNCHANGED <<input, list, first, i, endByte, itemsInBlock, tree>>

\* An item shares its result with the items it includes, once it has one itself.
Waiting == {k \in Items : result[k] = NoResult /\ parent[k] # 0 /\ result[parent[k]] # NoResult}

Dispatch ==
  /\ pc = "dispatch"
  /\ Waiting # {}
  /\ LET k == NextFrom(Waiting, 1) IN
     result' = [result EXCEPT ![k] = Share(k, startByte[parent[k]], result[parent[k]])]
  /\ UNCHANGED <<input, pc, list, first, i, endByte, itemsInBlock, tree>>

Finish ==
  /\ pc = "dispatch"
  /\ Waiting = {}
  /\ pc' = "done"
  /\ UNCHANGED <<input, list, first, i, endByte, itemsInBlock, tree, result>>

Done == pc = "done" /\ UNCHANGED vars

Next ==
  \/ TakeToInclude \/ IncludeFirst \/ IncludeItem \/ SkipOverlapping \/ KeepFirst
  \/ StartJoining \/ TakeToJoin \/ JoinItem \/ CloseBlock \/ StartReading
  \/ ReadList \/ Dispatch \/ Finish \/ Done

Spec == Init /\ [][Next]_vars
FairSpec == Spec /\ WF_vars(Next)

------------------------------------------------------------------------------
(***************************************************************************)
(* Properties                                                              *)
(***************************************************************************)
Count(b) == IF b THEN 1 ELSE 0

\* No item is ever lost or read twice: at every step it is in exactly one place, the
\* list, the items dealt with, the block being built, a finished block, or another item.
EveryItemInOnePlace ==
  \A k \in Items :
    Count(k \in items) + Count(k \in kept) + Count(parent[k] # 0)
      + Count(pc = "joining" /\ k \in itemsInBlock)
      + Count(block[k] \notin {0, k}) = 1

\* A block can be read with a single request.
BlocksFitPayload ==
  \A k \in Items : block[k] = k => blockEnd[k] - startByte[k] + 4 <= MaxPayload

\* The end of an element of the list, a block or a single item.
ElementEnd(k) == IF block[k] = k THEN blockEnd[k] ELSE EndByte(k)

\* The list is as short as joining can make it: no item that an element of the list starts
\* with could have joined an earlier element, it is too far away or makes it too long.
ListIsJoined ==
  pc = "read" =>
    \A a, b \in items :
      a < b => \/ startByte[b] > ElementEnd(a) + 4
               \/ EndByte(b) - startByte[a] + 4 > MaxPayload

\* In the end every item, however deep it is nested, has its own bytes, or none at all because
\* the PLC has refused its block or the request has failed: no item is forgotten, and none has
\* the bytes of another one.
EveryItemGetsItsBytes ==
  pc = "done" =>
    \A k \in Items :
      \/ result[k] = [status |-> "ok", bytesRead |-> readBytes[k], from |-> startByte[k]]
      \/ result[k] # NoResult /\ result[k].bytesRead = 0

\* The loops over the list and the dispatching end.
OptimizerEnds == <>(pc = "done")
==============================================================================
