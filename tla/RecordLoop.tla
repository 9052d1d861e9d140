----------------------------- MODULE RecordLoop ------------------------------
(***************************************************************************)
(* The value of an output record on its way into the memory of the PLC,    *)
(* from there into every input record that reads it, and back into the     *)
(* output record when the IOC is started again.  Transfers succeed or do   *)
(* nothing; their failures are in OutputRecord and BitTransfer.            *)
(***************************************************************************)
EXTENDS RecordValue

CONSTANTS Outputs,      \* the configurations of output records
          Values(_),    \* what may be put into such a record
          Contents      \* what the PLC may have in its memory

------------------------------------------------------------------------------
(***************************************************************************)
(* What the constants may be.                                              *)
(***************************************************************************)
RangeOf(type) ==
  CASE type = "bool" -> 0..1
    [] type = "float" -> {FloatOf(n) : n \in 0..(TwoTo[Int32Bits] - 1)}
    [] type \in SignedTypes -> (-TwoTo[Bits(type) - 1])..(TwoTo[Bits(type) - 1] - 1)
    [] OTHER -> 0..(TwoTo[Bits(type)] - 1)

Bytes == 0..(TwoTo[ByteBits] - 1)

\* At most one data type is requested.  A multi-bit record has at most sixteen state values.
Configurations ==
  [recordType: OutputTypes, ftvl: ElementTypes, dataSize: DataSizes,
   requested: {{}} \union {{t} : t \in PlcDataTypes}, nelm: Nat \ {0},
   linear: BOOLEAN, limits: {s \in SUBSET [low: Int, high: Int] : \A l, m \in s : l = m},
   egul: Int, eguf: Int, eslo: Int, eoff: Int, states: {s \in Seq(Nat) : Len(s) <= 16}, nobt: Nat, shft: Nat]

\* Slopes are positive and whole (which is a matter of the unit of VAL), and 32-bit integers are not written as floats, which would
\* have to be rounded.
IsConfiguration(c) ==
  /\ c \in Configurations
  /\ TypesOf(c) # {} =>
       /\ c.linear =>
            LET l == DeviceLimits(c)
            IN /\ l.low = l.high => c.eslo > 0
               /\ l.low # l.high => /\ l.low < l.high /\ c.egul < c.eguf
                                   /\ (c.eguf - c.egul) % (l.high - l.low) = 0
       /\ Support(c) = "array" /\ c.ftvl \in {"LONG", "ULONG"} => Type(c) # "float"

\* Strings of the PLC and of a record; for a bit of the PLC any string will do.
Strings == {s \in Seq(Bytes \ {0}) : Len(s) < MaxStringSize}

ElementRange(ftvl) ==
  CASE ftvl = "STRING" -> Strings
    [] ftvl \in {"FLOAT", "DOUBLE"} -> RangeOf("float")
    [] ftvl \in {"CHAR", "SHORT", "LONG"} ->
         (-TwoTo[ElementBits(ftvl) - 1])..(TwoTo[ElementBits(ftvl) - 1] - 1)
    [] ftvl \in {"UCHAR", "USHORT", "ULONG", "ENUM"} -> 0..(TwoTo[ElementBits(ftvl)] - 1)

LegalValues(c) ==
  CASE Support(c) = "analog" -> IF Type(c) = "float" THEN RangeOf("float") ELSE Int
    [] Support(c) = "long" -> RangeOf("int32")
    [] Support(c) = "binary" -> {0, 1}
    [] Support(c) = "multiBinary" ->
         IF c.recordType = "mbbo" /\ HasStates(c) THEN 0..(Len(c.states) - 1) ELSE RangeOf("uint16")
    [] Support(c) = "string" -> IF Type(c) = "bool" THEN Seq(Nat) ELSE Strings
    [] Support(c) = "array" -> [1..c.nelm -> ElementRange(c.ftvl)]

ASSUME OutputsAssumption == \A c \in Outputs : IsConfiguration(c)
ASSUME ValuesAssumption ==
  \A c \in Outputs : TypesOf(c) # {} => Values(c) \subseteq LegalValues(c)
ASSUME ContentsAssumption ==
  \A bytes \in Contents :
    /\ bytes \in Seq(Bytes)
    /\ \A c \in Outputs : TypesOf(c) # {} => IoBufferSizeInBytes(c) <= Len(bytes)

------------------------------------------------------------------------------
VARIABLES
  config,     \* the configuration of the record
  record,     \* its fields VAL, RVAL and B0 to BF
  memory,     \* the bytes of the PLC from the address of the record on
  phase,      \* what has happened to the record: "off", "blank" (initialized without
              \* a value), "started" (with a value), "changed" or "written"
  mine        \* the memory is as the record has written it, where it reads it

loopVars == <<config, record, memory, phase, mine>>

\* What multi-bit records write where they read it.  An mbbo record without state values
\* writes VAL as if there were neither a mask nor SHFT, and an mbboDirect record with a mask
\* writes VAL as if there were no SHFT.
ShiftIsWritten(c) ==
  c.shft = 0 \/ (IF c.recordType = "mbbo" THEN HasStates(c) ELSE Mask(c) = 0)
WritesWhereItReads(c, val) ==
  Support(c) = "multiBinary" =>
    /\ ShiftIsWritten(c)
    /\ c.recordType = "mbbo" /\ ~HasStates(c) => Masked(c, val) = val

LoopInit ==
  /\ config \in {c \in Outputs : TypesOf(c) # {}}
  /\ record = EmptyRecord(config)
  /\ memory \in Contents
  /\ phase = "off"
  /\ mine = FALSE

\* The record is initialized, with the value in the PLC if it can be read.
InitRecord ==
  /\ phase = "off"
  /\ \/ phase' = "started" /\ record' = Initialized(config, WriteToRecord(config, memory, record))
     \/ phase' = "blank" /\ UNCHANGED record
  /\ UNCHANGED <<config, memory, mine>>

Put ==
  /\ phase # "off"
  /\ \E v \in Values(config) : record' = [record EXCEPT !.val = v]
  /\ phase' = "changed"
  /\ UNCHANGED <<config, memory, mine>>

Process ==
  /\ phase # "off"
  /\ record' = Converted(config, record)
  /\ memory' = Written(config, ReadFromRecord(config, record'), memory)
  /\ phase' = "written"
  /\ mine' = WritesWhereItReads(config, record.val)
  /\ UNCHANGED config

\* The IOC ends and is started again.
Restart ==
  /\ phase \in {"started", "written"}
  /\ record' = EmptyRecord(config)
  /\ phase' = "off"
  /\ UNCHANGED <<config, memory, mine>>

PlcChanges ==
  /\ phase = "off"
  /\ memory' \in Contents
  /\ mine' = FALSE
  /\ UNCHANGED <<config, record, phase>>

LoopNext == InitRecord \/ Put \/ Process \/ Restart \/ PlcChanges

LoopSpec == LoopInit /\ [][LoopNext]_loopVars

------------------------------------------------------------------------------
(***************************************************************************)
(* Properties.                                                             *)
(***************************************************************************)
InputFor ==
  [aao |-> "aai", ao |-> "ai", bo |-> "bi", longout |-> "longin", mbbo |-> "mbbi",
   mbboDirect |-> "mbbiDirect", stringout |-> "stringin", waveformOut |-> "waveformIn"]

\* The input record of the same kind with the data type of the output record.
Partner(c) == [c EXCEPT !.recordType = InputFor[c.recordType], !.requested = {Type(c)}]
HasPartner(c) == TypesOf(Partner(c)) # {}

\* What an input record shows that reads the memory.
Shown(c) == Processed(c, WriteToRecord(c, memory, EmptyRecord(c))).val

\* The values for all the numbers of the data type, in equal steps: EGUL stands for DLV and
\* EGUF for DHV, or for the least and the greatest number of the data type.
EngineeringValues(c) ==
  LET range == RangeOf(Type(c))
      low == IF c.limits = {} THEN Min(range) ELSE (CHOOSE l \in c.limits : TRUE).low
      high == IF c.limits = {} THEN Max(range) ELSE (CHOOSE l \in c.limits : TRUE).high
  IN IF low = high
     THEN {n * c.eslo + c.eoff : n \in range}
     ELSE {c.egul + (n - low) * ((c.eguf - c.egul) \div (high - low)) : n \in range}

\* The values that need not be cut off: for analog records with a linear conversion those
\* that stand for a number of the data type, for multi-bit records those that the mask lets pass,
\* and for arrays of anything but bits all values that an element can have.
Fits(c, val) ==
  CASE Support(c) = "analog" /\ c.linear -> Type(c) # "float" /\ val \in EngineeringValues(c)
    [] Support(c) = "analog" /\ ~c.linear -> val \in RangeOf(Type(c))
    [] Support(c) = "long" -> val \in RangeOf(Type(c))
    [] Support(c) = "binary" -> TRUE
    [] Support(c) = "multiBinary" /\ val = UnknownState -> FALSE
    [] Support(c) = "multiBinary" /\ val # UnknownState ->
         LET n == IF c.recordType = "mbbo" /\ HasStates(c) THEN c.states[val + 1] ELSE val
         IN /\ ShiftIsWritten(c)
            /\ Masked(c, n * TwoTo[c.shft]) = n * TwoTo[c.shft] /\ n * TwoTo[c.shft] < TwoTo[BitsOf(c.dataSize)]
            /\ c.recordType = "mbbo" /\ HasStates(c) => \A i \in 1..val : c.states[i] # n
    [] Support(c) = "string" -> Type(c) = "bool" => val \in {TrueString, FalseString}
    [] Support(c) = "array" -> Type(c) = "bool" => \A i \in DOMAIN val : val[i] \in {0, 1}

\* What an output record has written is what an input record of the same kind shows, for
\* all values that its data type, its state values or its mask allow, and whether DLV and DHV
\* are within the range of the data type, go beyond it, or are equal.
WrittenValueIsShown ==
  phase = "written" /\ Fits(config, record.val) /\ HasPartner(config)
    => Shown(Partner(config)) = record.val

\* After a start an output record shows the value of the PLC, in VAL and in the bits of an
\* mbboDirect record, as an input record of the same kind would.
StartsWithValueOfPlc ==
  phase = "started" =>
    /\ HasPartner(config) => Shown(Partner(config)) = record.val
    /\ config.recordType = "mbboDirect" /\ ShiftIsWritten(config) => record.bits = record.val

\* A restart is bumpless: a record that is processed after a start, and has not got another
\* value, leaves in the PLC what it has written before the IOC was stopped.
RestartIsBumpless == [][phase = "started" /\ mine /\ Process => memory' = memory]_loopVars

\* The number that bytes of the PLC stand for: the most significant bit of a signed one has
\* a negative weight.
Meaning(type, bytes) ==
  LET n == Len(bytes) * ByteBits
      weight(i) == IF i = n - 1 /\ type \in SignedTypes THEN -TwoTo[i] ELSE TwoTo[i]
      bit(i) == (bytes[Len(bytes) - i \div ByteBits] \div TwoTo[i % ByteBits]) % 2
  IN SumOf([i \in 0..(n - 1) |-> bit(i) * weight(i)], n)

\* An array shows every number that the PLC may have with the right sign and without
\* cutting it off, whatever types its elements and the PLC have.
ArraysShowTheNumbersOfThePlc ==
  Support(config) = "array" =>
    \A requested \in {{}} \union {{t} : t \in PlcDataTypes} :
      LET c == [config EXCEPT !.recordType = InputFor[@], !.requested = requested, !.nelm = 1]
      IN c.ftvl # "STRING" /\ TypesOf(c) # {} /\ Type(c) \notin {"bool", "float"}
           => Shown(c) = <<Meaning(Type(c), SubSeq(memory, 1, BytesOf(c.dataSize)))>>
=============================================================================
