----------------------------- MODULE BitTransfer -----------------------------
(***************************************************************************)
(* How the bits of a bool record (bi, bo, and arrays addressed by a bit)   *)
(* get to the PLC and back: S7nodaveRecord::writeToPlc, readFromPlc and    *)
(* the realignment in S7nodaveInputRecord::processPollResponse.  A record  *)
(* has numBits bits that start at bit startBit of a byte of the PLC, which *)
(* is byte 0 here.  A write takes several calls (single bits, then bytes,  *)
(* then single bits), each of which may fail.                              *)
(*                                                                         *)
(* Bits are not given values: each is identified by where it comes from,   *)
(* so that one behaviour stands for all contents of the record and the PLC.*)
(* Buffers and the PLC are functions from bit numbers; bit k of byte p has *)
(* number 8 * p + k.                                                       *)
(***************************************************************************)
EXTENDS Integers

CONSTANTS
  Transfers,            \* the pairs <<numBits, startBit>> of the records
  MemoryBits            \* bits of the PLC memory that are modelled

ASSUME TransferAssumption ==
  /\ MemoryBits \in Nat
  /\ Transfers \subseteq (Nat \ {0}) \X (0..7)
  /\ \A t \in Transfers : t[1] + t[2] + 16 <= MemoryBits

VARIABLES
  numBits, startBit,    \* the record: getIoBufferSizeInBits() and the address
  plc,                  \* the memory of the PLC
  pc, bitNumber,        \* where writeToPlc is
  numBitsWritten,
  read, polled          \* the buffers of readFromPlc and of processPollResponse

vars == <<numBits, startBit, plc, pc, bitNumber, numBitsWritten, read, polled>>

\* The bits: bit i of the record and bit j of the PLC as it was, a bit cleared by the
\* code, a bit behind the last one of the record in its buffer, and memory that does not
\* belong to the buffer.
Datum(i) == <<"record", i>>
Old(j) == <<"plc", j>>
Zero == <<"zero", 0>>
Pad == <<"pad", 0>>
Undefined == <<"undefined", 0>>
Failed == <<"failed", 0>>
NotRead == <<"none", 0>>

Addressed == startBit..(startBit + numBits - 1)

BytesFor(bits) == (bits + 7) \div 8
BufferBits == 8 * BytesFor(numBits)
UsedBits == 8 * BytesFor(numBits + startBit)

\* The buffer of the record, and the intermediate buffer with the bits at their place.
Buffer(i) == IF i < numBits THEN Datum(i) ELSE IF i < BufferBits THEN Pad ELSE Undefined

Unshifted(j) == Buffer(j)
Used(j) ==
  IF j < startBit \/ j - startBit >= BufferBits THEN Zero ELSE Buffer(j - startBit)

\* The bytes that writeToPlc writes as such.
PartialByteIncluded == BytesFor(numBits + startBit) - (IF startBit = 0 THEN 0 ELSE 1)
BytesWriteLength ==
  BytesFor(numBits + startBit)
    - (IF (numBits + startBit) % 8 = 0 THEN 0 ELSE 1) - (IF startBit = 0 THEN 0 ELSE 1)
BytesOffset == IF startBit = 0 THEN 0 ELSE 1
LastByte == 8 * (BytesOffset + BytesWriteLength)

Init ==
  /\ \E t \in Transfers : numBits = t[1] /\ startBit = t[2]
  /\ plc = [j \in 0..(MemoryBits - 1) |-> Old(j)]
  /\ pc = (IF startBit = 0 THEN "bytes" ELSE "first")
  /\ bitNumber = startBit
  /\ numBitsWritten = 0
  /\ read = NotRead /\ polled = NotRead

------------------------------------------------------------------------------
(***************************************************************************)
(* writeToPlc.                                                             *)
(***************************************************************************)
WriteBit(j, value) == plc' = [plc EXCEPT ![j] = value]

\* A call fails; the PLC may have executed it all the same.
BitFails(j, value) ==
  /\ plc' = plc \/ WriteBit(j, value)
  /\ pc' = "failed"
  /\ UNCHANGED <<bitNumber, numBitsWritten>>

EndOfFirstBits(bit, written) == bit = 7 \/ written = numBits

\* The bits of the partial byte at the start.
WriteFirstBit ==
  /\ pc = "first"
  /\ \/ /\ WriteBit(bitNumber, Used(bitNumber))
        /\ numBitsWritten' = numBitsWritten + 1
        /\ bitNumber' = bitNumber + 1
        /\ pc' = IF EndOfFirstBits(bitNumber, numBitsWritten') THEN "bytes" ELSE "first"
     \/ BitFails(bitNumber, Used(bitNumber))
  /\ UNCHANGED <<numBits, startBit, read, polled>>

\* The first `bits' bits of the buffer are written behind the partial byte.
WriteBuffer(bits) ==
  plc' = [j \in DOMAIN plc |-> IF j \in (8 * BytesOffset)..(8 * BytesOffset + bits - 1)
                               THEN (IF startBit = 0 THEN Buffer(j - 8 * BytesOffset)
                                                     ELSE Used(j - 8 * BytesOffset))
                               ELSE plc[j]]

\* plcWrite is split into several requests, so it may fail after any byte.
WriteBytes ==
  /\ pc = "bytes"
  /\ numBits - numBitsWritten >= 8
  /\ \/ /\ WriteBuffer(8 * BytesWriteLength)
        /\ numBitsWritten' = numBitsWritten + 8 * BytesWriteLength
        /\ pc' = "last"
     \/ /\ \E k \in 0..BytesWriteLength : WriteBuffer(8 * k)
        /\ pc' = "failed"
        /\ UNCHANGED numBitsWritten
  /\ bitNumber' = 0
  /\ UNCHANGED <<numBits, startBit, read, polled>>

NoBytes ==
  /\ pc = "bytes"
  /\ numBits - numBitsWritten < 8
  /\ bitNumber' = 0
  /\ pc' = "last"
  /\ UNCHANGED <<numBits, startBit, plc, numBitsWritten, read, polled>>

\* The bits of the partial byte at the end: their values come from the buffer of the
\* record, and from bit 8 on from no bit at all.
OneBitLess == startBit + (numBits % 8) - 1
EndBit == startBit + (numBits % 8)

LastBit(bit) == IF bit < 8 THEN Buffer(LastByte + bit) ELSE Zero

WriteLastBit ==
  /\ pc = "last"
  /\ numBitsWritten < numBits
  /\ bitNumber < EndBit
  /\ \/ /\ WriteBit(LastByte + bitNumber, LastBit(bitNumber))
        /\ bitNumber' = bitNumber + 1
        /\ UNCHANGED <<pc, numBitsWritten>>
     \/ BitFails(LastByte + bitNumber, LastBit(bitNumber))
  /\ UNCHANGED <<numBits, startBit, read, polled>>

WriteEnds ==
  /\ pc = "last"
  /\ numBitsWritten = numBits \/ bitNumber >= EndBit
  /\ pc' = "written"
  /\ UNCHANGED <<numBits, startBit, plc, bitNumber, numBitsWritten, read, polled>>

------------------------------------------------------------------------------
(***************************************************************************)
(* Reading the record back, with readFromPlc and through the poll group.   *)
(***************************************************************************)
\* The bits of a buffer that has been shifted and whose bits in unused are cleared.
Shifted(unused) ==
  [i \in 0..(BufferBits - 1) |->
     IF i \in unused \/ i + startBit >= UsedBits THEN Zero ELSE plc[i + startBit]]

UnusedBits == numBits..(BufferBits - 1)

\* readFromPlc compares the number of bytes read with the size of the buffer of the
\* record, although it reads into the intermediate buffer.
ReadUnmasked == IF UsedBits # BufferBits THEN Failed ELSE Shifted({})
ReadFromPlc == IF UsedBits # BufferBits THEN Failed ELSE Shifted(UnusedBits)

\* processPollResponse clears unused bits in the byte whose number is the size of the
\* intermediate buffer, which is the last byte of the result or one that is behind it.
PollClearsAll == Shifted(0..(BufferBits - 1))
PollResponse == Shifted({i \in UnusedBits : i \div 8 = UsedBits \div 8 - 1})

ReadBack ==
  /\ pc = "written"
  /\ pc' = "read"
  /\ read' = ReadFromPlc
  /\ polled' = PollResponse
  /\ UNCHANGED <<numBits, startBit, plc, bitNumber, numBitsWritten>>

Done == pc \in {"read", "failed"} /\ UNCHANGED vars

Next ==
  \/ WriteFirstBit \/ WriteBytes \/ NoBytes \/ WriteLastBit \/ WriteEnds
  \/ ReadBack \/ Done

Spec == Init /\ [][Next]_vars

------------------------------------------------------------------------------
(***************************************************************************)
(* Properties                                                              *)
(***************************************************************************)
\* At no time of a write, whether it succeeds or fails half-way, does a bit change that
\* does not belong to the record ("the number of bits written to the PLC equals the number
\* of elements in the array", manual.xml:1064-1065), and each bit that does is as before or
\* as the record wants it.
OnlyTheArrayChanges ==
  \A j \in DOMAIN plc : plc[j] = Old(j) \/ (j \in Addressed /\ plc[j] = Datum(j - startBit))

\* A write that reports success has written every bit of the record.
BitsAreWritten ==
  pc \in {"written", "read"} => \A j \in Addressed : plc[j] = Datum(j - startBit)

\* What has been written is what is read back, by an asynchronous read and by a poll group
\* alike, and the bits of the last byte that the record does not have are clear.
ReadsWhatWasWritten ==
  pc = "read" =>
    /\ read # Failed /\ polled = read
    /\ \A i \in 0..(numBits - 1) : read[i] = Datum(i)
    /\ \A i \in UnusedBits : read[i] = Zero

\* Wherever an array starts, a write that reports success has written its bits and no
\* others: "the number of bits written to the PLC equals the number of elements in the
\* array. The write does not have to be aligned to byte boundaries" (manual.xml:1064-1066).
ExactlyTheArrayIsWritten ==
  pc \in {"written", "read"} =>
    plc = [j \in DOMAIN plc |-> IF j \in Addressed THEN Datum(j - startBit) ELSE Old(j)]
==============================================================================
