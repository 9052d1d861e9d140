-------------------------- MODULE BitTransferProofs --------------------------
(***************************************************************************)
(* Proofs about BitTransfer: what a write of a bool record does to the     *)
(* PLC, and that it is read back, for records of every size that start at  *)
(* a byte boundary or lie within one byte.                                 *)
(***************************************************************************)
EXTENDS BitTransfer, TLAPS

\* The transfers that the properties are about: the others are written and read wrongly,
\* as the counterexamples of the runs over unaligned transfers show.
SimpleTransfer == startBit = 0 \/ numBits + startBit <= 8

(***************************************************************************)
(* The inductive invariant: which of the bits are written already.         *)
(***************************************************************************)
NeighboursUntouched == \A j \in DOMAIN plc \ Addressed : plc[j] = Old(j)

BitsOldOrNew == \A j \in Addressed : plc[j] \in {Old(j), Datum(j - startBit)}

WrittenBelow(k) == \A j \in Addressed : j < k => plc[j] = Datum(j - startBit)

AllWritten == \A j \in Addressed : plc[j] = Datum(j - startBit)

RecordOK ==
  /\ numBits \in Nat \ {0} /\ startBit \in 0..7
  /\ MemoryBits \in Nat /\ numBits + startBit + 16 <= MemoryBits
  /\ DOMAIN plc = 0..(MemoryBits - 1)

Progress ==
  /\ pc \in {"first", "bytes", "last", "written", "read", "failed"}
  /\ pc = "first" => /\ startBit # 0
                     /\ numBitsWritten \in 0..(numBits - 1)
                     /\ bitNumber = startBit + numBitsWritten
                     /\ WrittenBelow(bitNumber)
  /\ pc = "bytes" => IF startBit = 0 THEN numBitsWritten = 0
                     ELSE numBitsWritten = numBits /\ AllWritten
  /\ pc = "last" => IF startBit = 0
                    THEN /\ numBitsWritten = numBits - (numBits % 8)
                         /\ bitNumber \in 0..(numBits % 8)
                         /\ WrittenBelow(numBitsWritten + bitNumber)
                    ELSE numBitsWritten = numBits /\ AllWritten

IInv ==
  /\ RecordOK
  /\ SimpleTransfer => /\ NeighboursUntouched /\ BitsOldOrNew /\ BitsAreWritten
                       /\ ReadsWhatWasWritten
                       /\ Progress

------------------------------------------------------------------------------
(***************************************************************************)
(* The sizes of the parts of a transfer.                                   *)
(***************************************************************************)
LEMMA BytesForBits ==
  ASSUME NEW n \in Nat
  PROVE  /\ BytesFor(n) = (n \div 8) + (IF n % 8 = 0 THEN 0 ELSE 1)
         /\ BytesFor(n) \in Nat /\ n <= 8 * BytesFor(n) /\ 8 * BytesFor(n) < n + 8
  BY DEF BytesFor

LEMMA DivMod ==
  ASSUME NEW n \in Nat
  PROVE  /\ n = 8 * (n \div 8) + (n % 8) /\ n \div 8 \in Nat /\ n % 8 \in 0..7
         /\ 8 * (n \div 8) = n - (n % 8)
  OBVIOUS

\* A record at a byte boundary: the whole bytes are followed by the last bits.
LEMMA AlignedSizes ==
  ASSUME RecordOK, startBit = 0
  PROVE  /\ 8 * BytesWriteLength = numBits - (numBits % 8)
         /\ BytesWriteLength \in Nat
         /\ BytesOffset = 0
         /\ LastByte = numBits - (numBits % 8)
         /\ EndBit = numBits % 8
<1>1. numBits \in Nat /\ numBits + startBit = numBits
  BY DEF RecordOK
<1>2. BytesWriteLength = numBits \div 8
  <2>1. BytesWriteLength = BytesFor(numBits) - (IF numBits % 8 = 0 THEN 0 ELSE 1) - 0
    BY <1>1 DEF BytesWriteLength
  <2>2. BytesFor(numBits) = (numBits \div 8) + (IF numBits % 8 = 0 THEN 0 ELSE 1)
    BY <1>1, BytesForBits
  <2>3. numBits \div 8 \in Nat
    BY <1>1, DivMod
  <2>. QED
    BY <2>1, <2>2, <2>3
<1>3. BytesOffset = 0
  BY DEF BytesOffset
<1>4. EndBit = numBits % 8
  BY <1>1, DivMod DEF EndBit
<1>. QED
  BY <1>1, <1>2, <1>3, <1>4, DivMod DEF LastByte

\* The buffer of a simple transfer is as long as its intermediate buffer.
LEMMA SimpleSizes ==
  ASSUME RecordOK, SimpleTransfer
  PROVE  /\ UsedBits = BufferBits
         /\ BufferBits \in Nat /\ numBits <= BufferBits /\ BufferBits < numBits + 8
         /\ numBits + startBit <= BufferBits
         /\ BufferBits \div 8 = BytesFor(numBits) /\ BufferBits = 8 * BytesFor(numBits)
         /\ BytesFor(numBits) \in Nat
<1>1. numBits \in Nat /\ numBits >= 1 /\ startBit \in 0..7
  BY DEF RecordOK
<1>2. BytesFor(numBits + startBit) = BytesFor(numBits)
  <2>1. CASE startBit = 0
    BY <1>1, <2>1
  <2>2. CASE numBits + startBit <= 8
    BY <1>1, <2>2 DEF BytesFor
  <2>. QED
    BY <2>1, <2>2 DEF SimpleTransfer
<1>3. /\ BytesFor(numBits) \in Nat /\ numBits <= 8 * BytesFor(numBits)
      /\ 8 * BytesFor(numBits) < numBits + 8
      /\ numBits + startBit <= 8 * BytesFor(numBits + startBit)
  BY <1>1, BytesForBits
<1>. HIDE DEF BytesFor
<1>4. (8 * BytesFor(numBits)) \div 8 = BytesFor(numBits)
  BY <1>3
<1>. QED
  BY <1>2, <1>3, <1>4 DEF UsedBits, BufferBits

------------------------------------------------------------------------------
LEMMA InitIInv == Init => IInv
<1>. SUFFICES ASSUME Init PROVE IInv
  OBVIOUS
<1>1. RecordOK
  <2>1. PICK t \in Transfers : numBits = t[1] /\ startBit = t[2]
    BY DEF Init
  <2>2. t[1] \in Nat \ {0} /\ t[2] \in 0..7 /\ t[1] + t[2] + 16 <= MemoryBits /\ MemoryBits \in Nat
    BY TransferAssumption
  <2>. QED
    BY <2>1, <2>2 DEF Init, RecordOK
<1>2. \A j \in Addressed : j \in 0..(MemoryBits - 1) /\ j >= startBit
  BY <1>1 DEF RecordOK, Addressed
<1>3. NeighboursUntouched /\ BitsOldOrNew
  BY <1>2 DEF Init, NeighboursUntouched, BitsOldOrNew
<1>4. Progress
  BY <1>1, <1>2 DEF Init, Progress, WrittenBelow, RecordOK
<1>. QED
  BY <1>1, <1>3, <1>4 DEF IInv, Init, BitsAreWritten, ReadsWhatWasWritten

(***************************************************************************)
(* A step that writes nothing but bits of the record, and these right.     *)
(***************************************************************************)
LEMMA WriteOfRecord ==
  ASSUME RecordOK, NeighboursUntouched, BitsOldOrNew,
         numBits' = numBits, startBit' = startBit, DOMAIN plc' = DOMAIN plc,
         \A j \in DOMAIN plc : plc'[j] = plc[j] \/ (j \in Addressed /\ plc'[j] = Datum(j - startBit))
  PROVE  /\ RecordOK' /\ NeighboursUntouched' /\ BitsOldOrNew' /\ Addressed' = Addressed
         /\ \A k : WrittenBelow(k) => WrittenBelow(k)'
         /\ AllWritten => AllWritten'
<1>1. Addressed' = Addressed /\ RecordOK'
  BY DEF Addressed, RecordOK
<1>2. Addressed \subseteq DOMAIN plc
  BY DEF Addressed, RecordOK
<1>3. NeighboursUntouched' /\ BitsOldOrNew'
  BY <1>1, <1>2 DEF NeighboursUntouched, BitsOldOrNew
<1>4. ASSUME NEW k, WrittenBelow(k) PROVE WrittenBelow(k)'
  BY <1>1, <1>2, <1>4 DEF WrittenBelow
<1>5. AllWritten => AllWritten'
  BY <1>1, <1>2 DEF AllWritten
<1>. QED
  BY <1>1, <1>3, <1>4, <1>5

LEMMA BitOfRecord ==
  ASSUME RecordOK, NEW j \in Addressed, WriteBit(j, Datum(j - startBit))
  PROVE  /\ DOMAIN plc' = DOMAIN plc /\ plc'[j] = Datum(j - startBit)
         /\ \A i \in DOMAIN plc : plc'[i] = plc[i] \/ (i \in Addressed /\ plc'[i] = Datum(i - startBit))
  BY DEF RecordOK, Addressed, WriteBit

\* Writing the bits in turn.
LEMMA NextBitWritten ==
  ASSUME RecordOK, NEW j \in Addressed, WrittenBelow(j), WrittenBelow(j)', Addressed' = Addressed,
         startBit' = startBit, plc'[j] = Datum(j - startBit)
  PROVE  WrittenBelow(j + 1)'
<1>1. \A i \in Addressed : i \in Int /\ j \in Int
  BY DEF Addressed, RecordOK
<1>. QED
  BY <1>1 DEF WrittenBelow

LEMMA EndWritten ==
  ASSUME RecordOK, NEW k, k = startBit + numBits, WrittenBelow(k)
  PROVE  AllWritten
  BY DEF WrittenBelow, AllWritten, Addressed, RecordOK

------------------------------------------------------------------------------
(***************************************************************************)
(* The steps of a write.  Each writes some bits of the record, and then    *)
(* the other conjuncts of the invariant follow from WriteOfRecord.         *)
(***************************************************************************)
WriteInv == RecordOK /\ NeighboursUntouched /\ BitsOldOrNew /\ Progress

LEMMA FirstBitInv ==
  ASSUME WriteInv, SimpleTransfer, WriteFirstBit
  PROVE  WriteInv' /\ pc' \in {"first", "bytes", "failed"}
<1>1. /\ RecordOK /\ NeighboursUntouched /\ BitsOldOrNew /\ Progress
      /\ pc = "first" /\ numBits' = numBits /\ startBit' = startBit
  BY DEF WriteInv, WriteFirstBit
<1>2. /\ startBit # 0 /\ numBits + startBit <= 8 /\ numBitsWritten \in 0..(numBits - 1)
      /\ bitNumber = startBit + numBitsWritten /\ WrittenBelow(bitNumber)
      /\ numBits \in Nat /\ startBit \in 1..7
  BY <1>1 DEF Progress, SimpleTransfer, RecordOK
<1>3. PICK k \in Nat : k = bitNumber
  BY <1>2
<1>4. k \in Addressed /\ WrittenBelow(k)
  BY <1>2, <1>3 DEF Addressed
<1>5. Used(bitNumber) = Datum(k - startBit)
  BY <1>1, <1>2, <1>3, SimpleSizes DEF Used, Buffer
<1>6. CASE /\ WriteBit(bitNumber, Used(bitNumber))
           /\ numBitsWritten' = numBitsWritten + 1
           /\ bitNumber' = bitNumber + 1
           /\ pc' = IF EndOfFirstBits(bitNumber, numBitsWritten') THEN "bytes" ELSE "first"
  <2>1. WriteBit(k, Datum(k - startBit))
    BY <1>3, <1>5, <1>6 DEF WriteBit
  <2>2. /\ DOMAIN plc' = DOMAIN plc /\ plc'[k] = Datum(k - startBit)
        /\ \A i \in DOMAIN plc : plc'[i] = plc[i] \/ (i \in Addressed /\ plc'[i] = Datum(i - startBit))
    BY <1>1, <1>4, <2>1, BitOfRecord
  <2>3. /\ RecordOK' /\ NeighboursUntouched' /\ BitsOldOrNew' /\ Addressed' = Addressed
        /\ WrittenBelow(k)'
    BY <1>1, <1>4, <2>2, WriteOfRecord
  <2>4. WrittenBelow(k + 1)'
    BY <1>1, <1>4, <2>2, <2>3, NextBitWritten
  <2>5. CASE EndOfFirstBits(bitNumber, numBitsWritten')
    <3>1. k + 1 = startBit' + numBits' /\ numBitsWritten' = numBits'
      BY <1>1, <1>2, <1>3, <1>6, <2>5 DEF EndOfFirstBits
    <3>2. AllWritten'
      <4>1. \A j \in Addressed : j < k + 1
        BY <1>1, <1>2, <1>3, <3>1 DEF Addressed
      <4>. QED
        BY <2>3, <2>4, <4>1 DEF WrittenBelow, AllWritten
    <3>. QED
      BY <1>1, <1>2, <1>6, <2>3, <2>5, <3>1, <3>2 DEF WriteInv, Progress
  <2>6. CASE ~EndOfFirstBits(bitNumber, numBitsWritten')
    <3>1. numBitsWritten' \in 0..(numBits' - 1) /\ bitNumber' = startBit' + numBitsWritten'
      BY <1>1, <1>2, <1>6, <2>6 DEF EndOfFirstBits
    <3>2. bitNumber' = k + 1
      BY <1>3, <1>6
    <3>3. WrittenBelow(bitNumber)'
      BY <2>4, <3>2 DEF WrittenBelow
    <3>. QED
      BY <1>1, <1>2, <1>6, <2>3, <2>6, <3>1, <3>3 DEF WriteInv, Progress
  <2>. QED
    BY <1>6, <2>5, <2>6 DEF EndOfFirstBits
<1>7. CASE BitFails(bitNumber, Used(bitNumber))
  <2>1. /\ DOMAIN plc' = DOMAIN plc
        /\ \A i \in DOMAIN plc : plc'[i] = plc[i] \/ (i \in Addressed /\ plc'[i] = Datum(i - startBit))
    <3>1. CASE plc' = plc
      BY <3>1
    <3>2. CASE WriteBit(k, Datum(k - startBit))
      BY <1>1, <1>4, <3>2, BitOfRecord
    <3>. QED
      BY <1>3, <1>5, <1>7, <3>1, <3>2 DEF BitFails, WriteBit
  <2>2. RecordOK' /\ NeighboursUntouched' /\ BitsOldOrNew'
    BY <1>1, <2>1, WriteOfRecord
  <2>. QED
    BY <1>7, <2>2 DEF WriteInv, Progress, BitFails
<1>. QED
  BY <1>6, <1>7 DEF WriteFirstBit

LEMMA BytesInv ==
  ASSUME WriteInv, SimpleTransfer, WriteBytes \/ NoBytes
  PROVE  WriteInv' /\ pc' \in {"last", "failed"}
<1>1. /\ RecordOK /\ NeighboursUntouched /\ BitsOldOrNew /\ Progress
      /\ pc = "bytes" /\ numBits' = numBits /\ startBit' = startBit /\ bitNumber' = 0
      /\ numBits \in Nat /\ numBits % 8 \in 0..7 /\ startBit \in 0..7
  BY DivMod DEF WriteInv, WriteBytes, NoBytes, RecordOK
<1>2. CASE NoBytes
  <2>1. /\ plc' = plc /\ numBitsWritten' = numBitsWritten /\ numBits - numBitsWritten < 8
        /\ pc' = "last"
    BY <1>2 DEF NoBytes
  <2>2. /\ RecordOK' /\ NeighboursUntouched' /\ BitsOldOrNew'
        /\ AllWritten => AllWritten'
    BY <1>1, <2>1, WriteOfRecord
  <2>3. CASE startBit = 0
    <3>1. numBitsWritten = 0 /\ numBits < 8 /\ numBits % 8 = numBits
      BY <1>1, <2>1, <2>3 DEF Progress
    <3>2. WrittenBelow(numBitsWritten + bitNumber)'
      BY <1>1, <2>1, <2>3, <3>1 DEF WrittenBelow, Addressed
    <3>. QED
      BY <1>1, <2>1, <2>2, <2>3, <3>1, <3>2 DEF WriteInv, Progress
  <2>4. CASE startBit # 0
    BY <1>1, <2>1, <2>2, <2>4 DEF WriteInv, Progress
  <2>. QED
    BY <2>3, <2>4
<1>3. CASE WriteBytes
  <2>1. numBits - numBitsWritten >= 8 /\ startBit = 0 /\ numBitsWritten = 0
    BY <1>1, <1>3 DEF WriteBytes, Progress, SimpleTransfer
  <2>2. /\ 8 * BytesWriteLength = numBits - (numBits % 8) /\ BytesWriteLength \in Nat
        /\ BytesOffset = 0
    BY <1>1, <2>1, AlignedSizes
  <2>3. ASSUME NEW k \in 0..BytesWriteLength, WriteBuffer(8 * k)
        PROVE  /\ RecordOK' /\ NeighboursUntouched' /\ BitsOldOrNew' /\ Addressed' = Addressed
               /\ WrittenBelow(8 * k)'
    <3>1. 8 * k \in Nat /\ 8 * k <= numBits
      BY <1>1, <2>2
    <3>2. \A j \in 0..(8 * k - 1) : Buffer(j) = Datum(j)
      BY <1>1, <3>1 DEF Buffer
    <3>3. plc' = [j \in DOMAIN plc |-> IF j \in 0..(8 * k - 1) THEN Buffer(j) ELSE plc[j]]
      <4>1. plc' = [j \in DOMAIN plc |-> IF j \in 0..(8 * k - 1) THEN Buffer(j - 0) ELSE plc[j]]
        BY <2>1, <2>2, <2>3 DEF WriteBuffer
      <4>. QED
        BY <4>1
    <3>4. \A j \in 0..(8 * k - 1) : j \in Addressed /\ j - startBit = j
      BY <1>1, <2>1, <3>1 DEF Addressed
    <3>5. \A j \in DOMAIN plc : plc'[j] = plc[j] \/ (j \in Addressed /\ plc'[j] = Datum(j - startBit))
      BY <3>2, <3>3, <3>4
    <3>6. /\ RecordOK' /\ NeighboursUntouched' /\ BitsOldOrNew' /\ Addressed' = Addressed
      BY <1>1, <3>3, <3>5, WriteOfRecord
    <3>7. ASSUME NEW j \in Addressed, j < 8 * k PROVE plc'[j] = Datum(j - startBit')
      <4>1. j \in 0..(8 * k - 1) /\ j \in DOMAIN plc
        BY <1>1, <2>1, <3>1, <3>7 DEF Addressed, RecordOK
      <4>. QED
        BY <1>1, <3>2, <3>3, <3>4, <4>1
    <3>. QED
      BY <3>6, <3>7 DEF WrittenBelow
  <2>4. CASE /\ WriteBuffer(8 * BytesWriteLength)
             /\ numBitsWritten' = numBitsWritten + 8 * BytesWriteLength
             /\ pc' = "last"
    <3>1. PICK k \in 0..BytesWriteLength : k = BytesWriteLength
      BY <2>2
    <3>2. RecordOK' /\ NeighboursUntouched' /\ BitsOldOrNew' /\ WrittenBelow(8 * k)'
      BY <2>3, <2>4, <3>1
    <3>3. numBitsWritten' = 8 * k /\ numBitsWritten' + bitNumber' = 8 * k
      BY <1>1, <2>1, <2>2, <2>4, <3>1
    <3>4. WrittenBelow(numBitsWritten + bitNumber)'
      BY <3>2, <3>3 DEF WrittenBelow
    <3>. QED
      BY <1>1, <2>1, <2>2, <2>4, <3>1, <3>2, <3>3, <3>4 DEF WriteInv, Progress
  <2>5. CASE (\E k \in 0..BytesWriteLength : WriteBuffer(8 * k)) /\ pc' = "failed"
    BY <2>3, <2>5 DEF WriteInv, Progress
  <2>. QED
    BY <1>3, <2>4, <2>5 DEF WriteBytes
<1>. QED
  BY <1>2, <1>3

\* The bits behind the last byte come from the buffer of the record.
LEMMA LastBitInv ==
  ASSUME WriteInv, SimpleTransfer, WriteLastBit
  PROVE  WriteInv' /\ pc' \in {"last", "failed"}
<1>1. /\ RecordOK /\ NeighboursUntouched /\ BitsOldOrNew /\ Progress
      /\ pc = "last" /\ numBits' = numBits /\ startBit' = startBit
      /\ numBits \in Nat /\ numBits % 8 \in 0..7 /\ startBit \in 0..7
  BY DivMod DEF WriteInv, WriteLastBit, RecordOK
<1>2. /\ startBit = 0 /\ numBitsWritten = numBits - (numBits % 8)
      /\ bitNumber \in 0..((numBits % 8) - 1)
      /\ LastByte = numBitsWritten /\ WrittenBelow(numBitsWritten + bitNumber)
  <2>1. startBit = 0
    BY <1>1 DEF Progress, WriteLastBit
  <2>2. bitNumber < numBits % 8 /\ LastByte = numBits - (numBits % 8)
    BY <1>1, <2>1, AlignedSizes DEF WriteLastBit
  <2>. QED
    BY <1>1, <2>1, <2>2 DEF Progress
<1>3. PICK k \in Nat : k = LastByte + bitNumber
  BY <1>1, <1>2
<1>4. k \in Addressed /\ WrittenBelow(k) /\ k < numBits
  BY <1>1, <1>2, <1>3 DEF Addressed
<1>5. LastBit(bitNumber) = Datum(k - startBit)
  BY <1>1, <1>2, <1>3, <1>4 DEF LastBit, Buffer
<1>6. CASE /\ WriteBit(LastByte + bitNumber, LastBit(bitNumber))
           /\ bitNumber' = bitNumber + 1
           /\ UNCHANGED <<pc, numBitsWritten>>
  <2>1. WriteBit(k, Datum(k - startBit))
    BY <1>3, <1>5, <1>6 DEF WriteBit
  <2>2. /\ DOMAIN plc' = DOMAIN plc /\ plc'[k] = Datum(k - startBit)
        /\ \A i \in DOMAIN plc : plc'[i] = plc[i] \/ (i \in Addressed /\ plc'[i] = Datum(i - startBit))
    BY <1>1, <1>4, <2>1, BitOfRecord
  <2>3. /\ RecordOK' /\ NeighboursUntouched' /\ BitsOldOrNew' /\ Addressed' = Addressed
        /\ WrittenBelow(k)'
    BY <1>1, <1>4, <2>2, WriteOfRecord
  <2>4. WrittenBelow(k + 1)'
    BY <1>1, <1>4, <2>2, <2>3, NextBitWritten
  <2>5. numBitsWritten' + bitNumber' = k + 1
    BY <1>1, <1>2, <1>3, <1>6
  <2>6. WrittenBelow(numBitsWritten + bitNumber)'
    BY <2>4, <2>5 DEF WrittenBelow
  <2>7. bitNumber' \in 0..(numBits' % 8)
    BY <1>1, <1>2, <1>6
  <2>. QED
    BY <1>1, <1>2, <1>6, <2>3, <2>6, <2>7 DEF WriteInv, Progress
<1>7. CASE BitFails(LastByte + bitNumber, LastBit(bitNumber))
  <2>1. /\ DOMAIN plc' = DOMAIN plc
        /\ \A i \in DOMAIN plc : plc'[i] = plc[i] \/ (i \in Addressed /\ plc'[i] = Datum(i - startBit))
    <3>1. CASE plc' = plc
      BY <3>1
    <3>2. CASE WriteBit(k, Datum(k - startBit))
      BY <1>1, <1>4, <3>2, BitOfRecord
    <3>. QED
      BY <1>3, <1>5, <1>7, <3>1, <3>2 DEF BitFails, WriteBit
  <2>2. RecordOK' /\ NeighboursUntouched' /\ BitsOldOrNew'
    BY <1>1, <2>1, WriteOfRecord
  <2>. QED
    BY <1>7, <2>2 DEF WriteInv, Progress, BitFails
<1>. QED
  BY <1>6, <1>7 DEF WriteLastBit

\* A write that reports success ends with all bits written.
LEMMA WriteEndsInv ==
  ASSUME WriteInv, SimpleTransfer, WriteEnds
  PROVE  WriteInv' /\ AllWritten'
<1>1. /\ RecordOK /\ NeighboursUntouched /\ BitsOldOrNew /\ Progress
      /\ pc = "last" /\ numBits' = numBits /\ startBit' = startBit /\ plc' = plc
      /\ pc' = "written" /\ numBits \in Nat /\ numBits % 8 \in 0..7 /\ startBit \in 0..7
  BY DivMod DEF WriteInv, WriteEnds, RecordOK
<1>2. RecordOK' /\ NeighboursUntouched' /\ BitsOldOrNew' /\ (AllWritten => AllWritten')
  BY <1>1, WriteOfRecord
<1>3. AllWritten
  <2>1. CASE startBit = 0
    <3>1. EndBit = numBits % 8
      BY <1>1, <2>1, AlignedSizes
    <3>2. numBitsWritten + bitNumber = startBit + numBits
      BY <1>1, <2>1, <3>1 DEF WriteEnds, Progress
    <3>3. WrittenBelow(numBitsWritten + bitNumber)
      BY <1>1, <2>1 DEF Progress
    <3>. QED
      BY <1>1, <3>2, <3>3, EndWritten
  <2>2. CASE startBit # 0
    BY <1>1, <2>2 DEF Progress
  <2>. QED
    BY <2>1, <2>2
<1>. QED
  BY <1>1, <1>2, <1>3 DEF WriteInv, Progress

------------------------------------------------------------------------------
(***************************************************************************)
(* Reading the record back.                                                *)
(***************************************************************************)
LEMMA ReadBackOK ==
  ASSUME RecordOK, SimpleTransfer, AllWritten, ReadBack
  PROVE  ReadsWhatWasWritten'
<1>1. /\ numBits' = numBits /\ startBit' = startBit /\ read' = ReadFromPlc /\ polled' = PollResponse
      /\ numBits \in Nat /\ startBit \in 0..7
  BY DEF ReadBack, RecordOK
<1>2. /\ UsedBits = BufferBits
      /\ BufferBits \in Nat /\ numBits <= BufferBits /\ BufferBits < numBits + 8
      /\ numBits + startBit <= BufferBits
      /\ BufferBits \div 8 = BytesFor(numBits) /\ BufferBits = 8 * BytesFor(numBits)
      /\ BytesFor(numBits) \in Nat
  BY SimpleSizes
<1>3. UnusedBits' = UnusedBits
  BY <1>1 DEF UnusedBits, BufferBits, BytesFor
\* The unused bits are in the last byte, which is the one that processPollResponse clears.
<1>4. {i \in UnusedBits : i \div 8 = UsedBits \div 8 - 1} = UnusedBits
  <2>1. ASSUME NEW i \in UnusedBits PROVE i \div 8 = BytesFor(numBits) - 1
    <3>1. /\ i \in Nat /\ i < 8 * BytesFor(numBits)
          /\ i >= 8 * (BytesFor(numBits) - 1)
      BY <1>1, <1>2 DEF UnusedBits
    <3>. HIDE DEF BytesFor
    <3>. QED
      BY <1>2, <3>1
  <2>. QED
    BY <1>2, <2>1
<1>5. polled' = read'
  BY <1>1, <1>2, <1>4 DEF PollResponse, ReadFromPlc
<1>6. read' = Shifted(UnusedBits)
  BY <1>1, <1>2 DEF ReadFromPlc
<1>7. ASSUME NEW i \in 0..(numBits - 1) PROVE read'[i] = Datum(i)
  <2>1. i \in 0..(BufferBits - 1) /\ i \notin UnusedBits /\ ~(i + startBit >= UsedBits)
    BY <1>1, <1>2 DEF UnusedBits
  <2>2. PICK j \in Addressed : j = i + startBit /\ j - startBit = i
    BY <1>1 DEF Addressed
  <2>3. read'[i] = plc[j]
    BY <1>6, <2>1, <2>2 DEF Shifted
  <2>4. plc[j] = Datum(i)
    BY <2>2 DEF AllWritten
  <2>. QED
    BY <2>2, <2>3, <2>4
<1>8. ASSUME NEW i \in UnusedBits PROVE read'[i] = Zero
  <2>1. i \in 0..(BufferBits - 1)
    BY <1>1, <1>2 DEF UnusedBits
  <2>. QED
    BY <1>6, <2>1 DEF Shifted
<1>9. read' # Failed
  <2>1. 0 \in DOMAIN read'
    BY <1>1, <1>2, <1>6 DEF Shifted, RecordOK
  <2>2. 0 \notin DOMAIN Failed
    BY DEF Failed
  <2>. QED
    BY <2>1, <2>2
<1>. QED
  BY <1>1, <1>3, <1>5, <1>7, <1>8, <1>9 DEF ReadsWhatWasWritten

LEMMA IInvIsWriteInv ==
  ASSUME SimpleTransfer
  PROVE  /\ IInv => WriteInv
         /\ WriteInv /\ BitsAreWritten /\ ReadsWhatWasWritten => IInv
  BY DEF IInv, WriteInv

LEMMA NextIInv == IInv /\ [Next]_vars => IInv'
<1>. SUFFICES ASSUME IInv, [Next]_vars PROVE IInv'
  OBVIOUS
<1>1. UNCHANGED <<numBits, startBit>>
  BY DEF Next, WriteFirstBit, WriteBytes, NoBytes, WriteLastBit, WriteEnds, ReadBack, Done, vars
<1>2. DOMAIN plc' = DOMAIN plc
  BY DEF Next, WriteFirstBit, WriteBytes, NoBytes, WriteLastBit, WriteEnds, ReadBack, Done, vars,
         BitFails, WriteBit, WriteBuffer
<1>3. RecordOK' /\ (SimpleTransfer' <=> SimpleTransfer)
  BY <1>1, <1>2 DEF IInv, RecordOK, SimpleTransfer
<1>4. CASE ~SimpleTransfer
  BY <1>3, <1>4 DEF IInv
<1>5. CASE SimpleTransfer
  <2>. SUFFICES /\ NeighboursUntouched' /\ BitsOldOrNew' /\ BitsAreWritten'
                /\ ReadsWhatWasWritten' /\ Progress'
    BY <1>3 DEF IInv
  <2>1. WriteInv
    BY <1>5, IInvIsWriteInv
  <2>2. ASSUME WriteInv', pc' \in {"first", "bytes", "last", "failed"}
        PROVE  /\ NeighboursUntouched' /\ BitsOldOrNew' /\ BitsAreWritten'
               /\ ReadsWhatWasWritten' /\ Progress'
    BY <2>2 DEF WriteInv, BitsAreWritten, ReadsWhatWasWritten
  <2>3. CASE WriteFirstBit
    BY <1>5, <2>1, <2>2, <2>3, FirstBitInv
  <2>4. CASE WriteBytes \/ NoBytes
    BY <1>5, <2>1, <2>2, <2>4, BytesInv
  <2>5. CASE WriteLastBit
    BY <1>5, <2>1, <2>2, <2>5, LastBitInv
  <2>6. CASE WriteEnds
    <3>1. WriteInv' /\ AllWritten' /\ pc' = "written"
      BY <1>5, <2>1, <2>6, WriteEndsInv DEF WriteEnds
    <3>. QED
      BY <3>1 DEF WriteInv, AllWritten, BitsAreWritten, ReadsWhatWasWritten
  <2>7. CASE ReadBack
    <3>1. AllWritten /\ RecordOK
      BY <1>5, <2>7 DEF IInv, BitsAreWritten, AllWritten, ReadBack
    <3>2. ReadsWhatWasWritten'
      BY <1>5, <2>7, <3>1, ReadBackOK
    <3>3. UNCHANGED <<numBits, startBit, plc>> /\ pc' = "read"
      BY <2>7 DEF ReadBack
    <3>4. NeighboursUntouched' /\ BitsOldOrNew' /\ AllWritten'
      BY <2>1, <3>1, <3>3, WriteOfRecord DEF WriteInv
    <3>. QED
      BY <3>2, <3>3, <3>4 DEF AllWritten, BitsAreWritten, Progress
  <2>8. CASE UNCHANGED vars
    <3>1. UNCHANGED <<numBits, startBit, plc, pc, bitNumber, numBitsWritten, read, polled>>
      BY <2>8 DEF vars
    <3>. QED
      BY <1>5, <3>1 DEF IInv, NeighboursUntouched, BitsOldOrNew, BitsAreWritten,
         ReadsWhatWasWritten, Progress, WrittenBelow, AllWritten, Addressed,
         UnusedBits, BufferBits
  <2>. QED
    BY <2>3, <2>4, <2>5, <2>6, <2>7, <2>8 DEF Next, Done
<1>. QED
  BY <1>4, <1>5

LEMMA Invariance == Spec => []IInv
  BY InitIInv, NextIInv, PTL DEF Spec

------------------------------------------------------------------------------
\* However many bits the record has, a write of it changes no bit of the PLC that does not
\* belong to the record, and gives none of its bits a wrong value, at no time and whether it
\* succeeds or not.
THEOREM OnlyItsBitsChange == Spec => [](SimpleTransfer => OnlyTheArrayChanges)
<1>1. IInv => (SimpleTransfer => OnlyTheArrayChanges)
  BY DEF IInv, NeighboursUntouched, BitsOldOrNew, OnlyTheArrayChanges
<1>. QED
  BY <1>1, Invariance, PTL

\* The single bits and the bytes of a write that succeeds are together all of its bits.
THEOREM WriteIsComplete == Spec => [](SimpleTransfer => BitsAreWritten)
<1>1. IInv => (SimpleTransfer => BitsAreWritten)
  BY DEF IInv
<1>. QED
  BY <1>1, Invariance, PTL

\* The realignment of a read inverts that of a write, and so does the realignment of the
\* poll group, which is a copy of the code that finds the byte with the unused bits in
\* another way.
THEOREM ReadInvertsWrite == Spec => [](SimpleTransfer => ReadsWhatWasWritten)
<1>1. IInv => (SimpleTransfer => ReadsWhatWasWritten)
  BY DEF IInv
<1>. QED
  BY <1>1, Invariance, PTL
==============================================================================
