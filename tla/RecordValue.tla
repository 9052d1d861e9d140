----------------------------- MODULE RecordValue -----------------------------
(***************************************************************************)
(* The conversions between the value of a record and the bytes that are    *)
(* transferred to or from the PLC, for each kind of record.                *)
(*                                                                         *)
(* A record has an unchanging configuration c: its type, the size of its   *)
(* memory, the data type requested by the user and the fields that matter  *)
(* for its kind (FTVL, NELM, DLV and DHV if they are given, EGUL, EGUF,    *)
(* ESLO and EOFF as they are before the initialization by the device       *)
(* support, the state values, NOBT, SHFT).  Its changing fields are VAL,   *)
(* RVAL, and B0 to BF as a number.                                         *)
(*                                                                         *)
(* A value is a number, a sequence of numbers (arrays, and the characters  *)
(* of a string up to its end), or for an array of strings a sequence of    *)
(* strings.  Everything is in the order of bytes of the PLC, the most      *)
(* significant one first.  The widths are those of the code with bytes of  *)
(* ByteBits bits.  A float is a whole number or one of NaN, Inf and -Inf;  *)
(* its precision is not modelled.  The access to bits that do not start at *)
(* the boundary of a byte is in BitTransfer.  A definition whose name      *)
(* starts with Buggy is a variant, with a bug, of the one it is named for. *)
(***************************************************************************)
EXTENDS RecordTypes, FiniteSetsExt

CONSTANTS ByteBits,         \* bits of a byte
          MaxStringSize     \* MAX_STRING_SIZE

ASSUME SizeAssumption == ByteBits \in Nat \ {0, 1} /\ MaxStringSize \in Nat \ {0}

------------------------------------------------------------------------------
(***************************************************************************)
(* Numbers.                                                                *)
(***************************************************************************)
TwoTo[n \in Nat] == IF n = 0 THEN 1 ELSE 2 * TwoTo[n - 1]

\* f[0] + f[1] + ... + f[n - 1]
SumOf(f, n) == LET sum[i \in 0..n] == IF i = 0 THEN 0 ELSE sum[i - 1] + f[i - 1] IN sum[n]

BytesOf(dataSize) == CASE dataSize \in {"bit", "byte"} -> 1 [] dataSize = "word" -> 2 [] dataSize = "dword" -> 4
BitsOf(dataSize) == IF dataSize = "bit" THEN 1 ELSE ByteBits * BytesOf(dataSize)
Int32Bits == BitsOf("dword")

SignedTypes == {"int8", "int16", "int32"}
Bits(type) == BitsOf(SizeOfType(type))

\* A conversion of a number to an integer of the given width, as in C.
Unsigned(n, bits) == n % TwoTo[bits]
Signed(n, bits) ==
  IF Unsigned(n, bits) < TwoTo[bits - 1] THEN Unsigned(n, bits) ELSE Unsigned(n, bits) - TwoTo[bits]

\* Floats: the three bit patterns after the greatest positive one are special.
NaN == TwoTo[Int32Bits + 1]
Inf == TwoTo[Int32Bits + 2]
Special == <<NaN, Inf, -Inf>>
FirstSpecial == TwoTo[Int32Bits - 1]
FloatOf(n) == LET p == Unsigned(n, Int32Bits) - FirstSpecial + 1
              IN IF p \in DOMAIN Special THEN Special[p] ELSE Signed(n, Int32Bits)
FloatPattern(x) == IF \E p \in DOMAIN Special : Special[p] = x
                   THEN FirstSpecial - 1 + CHOOSE p \in DOMAIN Special : Special[p] = x ELSE x

\* NaN is different from everything, itself included.
Differs(x, y) == x = NaN \/ y = NaN \/ x # y

\* A number of a data type in the order of bytes of the PLC.
Encode(type, x) ==
  LET size == BytesOf(SizeOfType(type))
      n == IF type = "float" THEN FloatPattern(x) ELSE x
  IN [i \in 1..size |-> Unsigned(n \div TwoTo[ByteBits * (size - i)], ByteBits)]

NumberOfBytes(bytes) ==
  SumOf([i \in 0..(Len(bytes) - 1) |-> bytes[Len(bytes) - i] * TwoTo[ByteBits * i]], Len(bytes))

Decode(type, bytes) ==
  CASE type = "float" -> FloatOf(NumberOfBytes(bytes))
    [] type \in SignedTypes -> Signed(NumberOfBytes(bytes), ByteBits * Len(bytes))
    [] OTHER -> NumberOfBytes(bytes)

BitsIn(n) == {i \in 0..(Int32Bits - 1) : (n \div TwoTo[i]) % 2 = 1}
NumberOf(bits) ==
  SumOf([i \in 0..(Int32Bits - 1) |-> IF i \in bits THEN TwoTo[i] ELSE 0], Int32Bits)
And(m, n) == NumberOf(BitsIn(m) \intersect BitsIn(n))

\* The data type that a record uses: there is one, or the record is not initialized.
TypesOf(c) ==
  {t \in GetPlcDataType(c.recordType, c.ftvl, c.dataSize, c.requested) : SizeOfType(t) = c.dataSize}
Type(c) == CHOOSE t \in TypesOf(c) : TRUE

------------------------------------------------------------------------------
(***************************************************************************)
(* Analog records: conversion to engineering units by EPICS Base, with the *)
(* slope and the offset that are computed here.                            *)
(***************************************************************************)
BuggyTypeLimits(c) ==
  [low |-> -TwoTo[BitsOf(c.dataSize) - 1], high |-> TwoTo[BitsOf(c.dataSize) - 1] - 1]

\* The limits of the data type; those of a float are the initial ones.
TypeLimits(c) ==
  CASE Type(c) \in SignedTypes ->
         [low |-> -TwoTo[BitsOf(c.dataSize) - 1], high |-> TwoTo[BitsOf(c.dataSize) - 1] - 1]
    [] Type(c) = "float" -> [low |-> 0, high |-> 0]
    [] OTHER -> [low |-> 0, high |-> TwoTo[BitsOf(c.dataSize)] - 1]

\* The user's DLV and DHV have precedence.
DeviceLimits(c) == IF c.limits = {} THEN TypeLimits(c) ELSE CHOOSE l \in c.limits : TRUE

\* ESLO and EOFF stay as they are if the limits are equal.  The quotients are exact for the
\* records of the model.
Conversion(c, l) ==
  IF l.low = l.high
  THEN [eslo |-> c.eslo, eoff |-> c.eoff]
  ELSE [eslo |-> (c.eguf - c.egul) \div (l.high - l.low),
        eoff |-> (l.high * c.egul - l.low * c.eguf) \div (l.high - l.low)]

ConversionOf(c) ==
  IF c.linear THEN Conversion(c, DeviceLimits(c)) ELSE [eslo |-> 1, eoff |-> 0]

\* The record's own routines: VAL to RVAL, to the nearest integer and within an epicsInt32.
RawOf(c, val) ==
  LET k == ConversionOf(c)
      raw == (2 * (val - k.eoff) + k.eslo) \div (2 * k.eslo)
      max == TwoTo[Int32Bits - 1] - 1
  IN IF raw > max THEN max ELSE IF raw < -max - 1 THEN -max - 1 ELSE raw

AnalogWrite(c, rec) ==
  CASE Type(c) = "float" -> rec.val
    [] Type(c) = "bool" -> IF rec.rval # 0 THEN 1 ELSE 0
    [] OTHER -> rec.rval

AnalogRead(c, x, rec) ==
  IF Type(c) = "float" THEN [rec EXCEPT !.val = x] ELSE [rec EXCEPT !.rval = Signed(x, Int32Bits)]

\* RVAL is converted to VAL unless the device support says that there is nothing to convert.
Engineering(c, rec) == [rec EXCEPT !.val = rec.rval * ConversionOf(c).eslo + ConversionOf(c).eoff]
AiProcessRecord(c, rec) == IF Type(c) = "float" THEN rec ELSE Engineering(c, rec)
BuggyAoInitRecord(c, rec) == Engineering(c, rec)
AoInitRecord(c, rec) == IF Type(c) = "float" THEN rec ELSE Engineering(c, rec)

------------------------------------------------------------------------------
(***************************************************************************)
(* The other records with one number.                                      *)
(***************************************************************************)
LongWrite(c, rec) == IF Type(c) = "bool" THEN (IF rec.val # 0 THEN 1 ELSE 0) ELSE rec.val
LongRead(c, x) == Signed(x, Int32Bits)

BinaryWrite(rec) == IF rec.val # 0 THEN 1 ELSE 0
BinaryRead(c, x) ==
  IF Type(c) = "float"
  THEN IF \A y \in {0, NaN, Inf, -Inf} : Differs(x, y) THEN 1 ELSE 0
  ELSE IF x # 0 THEN 1 ELSE 0

\* MASK has the lowest NOBT bits set before.
Mask(c) ==
  IF c.nobt > BitsOf(c.dataSize) THEN 0 ELSE Unsigned((TwoTo[c.nobt] - 1) * TwoTo[c.shft], Int32Bits)

Masked(c, n) == IF Mask(c) = 0 THEN n ELSE And(n, Mask(c))
HasStates(c) == \E i \in DOMAIN c.states : c.states[i] # 0

BuggyMultiBinaryWrite(c, rec) ==
  CASE c.recordType = "mbbo" -> Masked(c, rec.val)
    [] c.recordType = "mbboDirect" -> IF Mask(c) # 0 THEN Masked(c, rec.val) ELSE rec.rval

\* writeCommon is shared; what an mbbo and an mbboDirect record give to it is not.
MultiBinaryWrite(c, rec) ==
  CASE c.recordType = "mbbo" -> IF HasStates(c) THEN Masked(c, rec.rval) ELSE rec.val
    [] c.recordType = "mbboDirect" -> IF Mask(c) # 0 THEN Masked(c, rec.val) ELSE rec.rval

MultiBinaryRead(c, x) == Masked(c, Unsigned(x, BitsOf(c.dataSize)))

\* The record's own routines: the state of RVAL, and RVAL for the state.
UnknownState == TwoTo[Int32Bits]
State(c, rval) ==
  LET n == rval \div TwoTo[c.shft]
      matches == {i \in DOMAIN c.states : c.states[i] = n}
  IN IF c.recordType \in {"mbbiDirect", "mbboDirect"} \/ ~HasStates(c) THEN n
     ELSE IF matches = {} THEN UnknownState ELSE Min(matches) - 1
RvalOf(c, rec) ==
  LET n == IF c.recordType = "mbbo" /\ HasStates(c) THEN c.states[rec.val + 1] ELSE rec.val
  IN IF c.recordType = "mbbo" /\ rec.val = UnknownState THEN rec.rval
     ELSE Unsigned(n * TwoTo[c.shft], Int32Bits)

MultiBinaryConvert(c, rec) == [rec EXCEPT !.val = State(c, rec.rval)]

\* B0 to BF are set, too.
MbboDirectInitRecord(c, rec) ==
  [MultiBinaryConvert(c, rec) EXCEPT !.bits = Masked(c, rec.rval \div TwoTo[c.shft])]

------------------------------------------------------------------------------
(***************************************************************************)
(* Strings and arrays.                                                     *)
(***************************************************************************)
\* A string is copied with its terminator; what follows is filled with zeros.
StringBytes(s) == [i \in 1..MaxStringSize |-> IF i <= Len(s) /\ i < MaxStringSize THEN s[i] ELSE 0]
StringOf(bytes) ==
  LET ends == {i \in 1..MaxStringSize : bytes[i] = 0} \union {MaxStringSize}
  IN SubSeq(bytes, 1, Min(ends) - 1)

\* The strings that stand for a bit.
TrueString == <<1>>
FalseString == <<2>>

StringWrite(c, val) ==
  IF Type(c) = "bool" THEN <<IF val = TrueString THEN 1 ELSE 0>> ELSE StringBytes(val)
StringRead(c, bytes) ==
  IF Type(c) # "bool" THEN StringOf(bytes) ELSE IF bytes[1] # 0 THEN TrueString ELSE FalseString

ElementBits(ftvl) ==
  BitsOf(CASE ftvl \in {"CHAR", "UCHAR"} -> "byte"
           [] ftvl \in {"SHORT", "USHORT", "ENUM"} -> "word"
           [] ftvl \in {"LONG", "ULONG"} -> "dword")

BuggyElementOf(ftvl, x) ==
  IF ftvl \in {"FLOAT", "DOUBLE"} THEN x ELSE Signed(x, ElementBits(ftvl))

\* convertBuffer assigns a number to an element of another type.
ElementOf(ftvl, x) ==
  CASE ftvl \in {"FLOAT", "DOUBLE"} -> x
    [] ftvl \in {"CHAR", "SHORT", "LONG"} -> Signed(x, ElementBits(ftvl))
    [] ftvl \in {"UCHAR", "USHORT", "ULONG", "ENUM"} -> Unsigned(x, ElementBits(ftvl))

\* Bits are packed from the least significant bit of the first byte on.
PackBits(bits) ==
  [i \in 1..((Len(bits) + ByteBits - 1) \div ByteBits) |->
     NumberOf({j \in 0..(ByteBits - 1) :
                 (i - 1) * ByteBits + j + 1 <= Len(bits) /\ bits[(i - 1) * ByteBits + j + 1] # 0})]
UnpackBits(bytes, n) == [i \in 1..n |-> (bytes[(i - 1) \div ByteBits + 1] \div TwoTo[(i - 1) % ByteBits]) % 2]

\* The elements of an array follow one another.
Joined(parts, size) ==
  [i \in 1..(Len(parts) * size) |-> parts[(i - 1) \div size + 1][((i - 1) % size) + 1]]
Part(bytes, i, size) == SubSeq(bytes, (i - 1) * size + 1, i * size)

ArrayWrite(c, val) ==
  CASE c.ftvl = "STRING" -> Joined([i \in 1..c.nelm |-> StringBytes(val[i])], MaxStringSize)
    [] Type(c) = "bool" -> PackBits(val)
    [] OTHER -> Joined([i \in 1..c.nelm |-> Encode(Type(c), val[i])], BytesOf(c.dataSize))

ArrayRead(c, bytes) ==
  CASE c.ftvl = "STRING" ->
         [i \in 1..c.nelm |-> StringOf(Part(bytes, i, MaxStringSize))]
    [] Type(c) = "bool" -> UnpackBits(bytes, c.nelm)
    [] OTHER -> [i \in 1..c.nelm |->
                   ElementOf(c.ftvl, Decode(Type(c), Part(bytes, i, BytesOf(c.dataSize))))]

------------------------------------------------------------------------------
(***************************************************************************)
(* Buffers.                                                                *)
(***************************************************************************)
Support(c) == ClassOf[c.recordType].support

StringBufferBits(c) == IF Type(c) = "bool" THEN ByteBits ELSE MaxStringSize * ByteBits
ArrayBufferBits(c) == (IF c.ftvl = "STRING" THEN MaxStringSize ELSE 1) * c.nelm * BitsOf(c.dataSize)

\* getIoBufferSizeInBits and getIoBufferSizeInBytes.
IoBufferSizeInBits(c) ==
  CASE Support(c) = "string" -> StringBufferBits(c)
    [] Support(c) = "array" -> ArrayBufferBits(c)
    [] OTHER -> BitsOf(c.dataSize)
IoBufferSizeInBytes(c) == (IoBufferSizeInBits(c) + ByteBits - 1) \div ByteBits

\* The record before the device support is called: its own conversion of VAL.
Converted(c, rec) ==
  CASE Support(c) = "analog" /\ Type(c) # "float" -> [rec EXCEPT !.rval = RawOf(c, rec.val)]
    [] Support(c) = "multiBinary" -> [rec EXCEPT !.rval = RvalOf(c, rec)]
    [] OTHER -> rec

\* readFromRecord.
ReadFromRecord(c, rec) ==
  CASE Support(c) = "analog" -> Encode(Type(c), AnalogWrite(c, rec))
    [] Support(c) = "long" -> Encode(Type(c), LongWrite(c, rec))
    [] Support(c) = "binary" -> Encode(Type(c), BinaryWrite(rec))
    [] Support(c) = "multiBinary" -> Encode(Type(c), MultiBinaryWrite(c, rec))
    [] Support(c) = "string" -> StringWrite(c, rec.val)
    [] Support(c) = "array" -> ArrayWrite(c, rec.val)

\* readFromPlc: the bits of the record, and zeros behind them in the last byte.
Buffer(c, bytes) ==
  LET used == IoBufferSizeInBits(c)
  IN [i \in 1..IoBufferSizeInBytes(c) |->
        IF i * ByteBits <= used THEN bytes[i] ELSE Unsigned(bytes[i], used % ByteBits)]

\* writeToRecord.
WriteToRecord(c, bytes, rec) ==
  LET buffer == Buffer(c, bytes)
      x == Decode(Type(c), buffer)
  IN CASE Support(c) = "analog" -> AnalogRead(c, x, rec)
       [] Support(c) = "long" -> [rec EXCEPT !.val = LongRead(c, x)]
       [] Support(c) = "binary" -> [rec EXCEPT !.val = BinaryRead(c, x)]
       [] Support(c) = "multiBinary" -> [rec EXCEPT !.rval = MultiBinaryRead(c, x)]
       [] Support(c) = "string" -> [rec EXCEPT !.val = StringRead(c, buffer)]
       [] Support(c) = "array" -> [rec EXCEPT !.val = ArrayRead(c, buffer)]

\* What the record makes of it, when an output record is initialized or an input record
\* is processed.
Initialized(c, rec) ==
  CASE c.recordType = "ao" -> AoInitRecord(c, rec)
    [] c.recordType = "mbboDirect" -> MbboDirectInitRecord(c, rec)
    [] c.recordType = "mbbo" -> MultiBinaryConvert(c, rec)
    [] OTHER -> rec
Processed(c, rec) ==
  CASE c.recordType = "ai" -> AiProcessRecord(c, rec)
    [] c.recordType \in {"mbbi", "mbbiDirect"} -> MultiBinaryConvert(c, rec)
    [] OTHER -> rec

\* The bytes of the memory after a write: behind the bits of the record nothing changes.
Written(c, buffer, bytes) ==
  [i \in DOMAIN bytes |->
     LET n == IoBufferSizeInBits(c) - (i - 1) * ByteBits
     IN IF n >= ByteBits THEN buffer[i]
        ELSE IF n <= 0 THEN bytes[i]
        ELSE (bytes[i] \div TwoTo[n]) * TwoTo[n] + Unsigned(buffer[i], n)]

EmptyRecord(c) ==
  [val |-> CASE Support(c) = "string" -> <<>>
             [] Support(c) = "array" -> [i \in 1..c.nelm |-> IF c.ftvl = "STRING" THEN <<>> ELSE 0]
             [] OTHER -> 0,
   rval |-> 0, bits |-> 0]
=============================================================================
