----------------------------- MODULE RecordTypes -----------------------------
(***************************************************************************)
(* The sixteen record types of the device support: the class that handles  *)
(* a record, the functions it gives to the record, and the PLC data type   *)
(* it chooses (getPlcDataType).  An Optional is a set with at most one     *)
(* element.                                                                *)
(***************************************************************************)
EXTENDS PlcAddress

PlcDataTypes == {"bool", "int8", "uint8", "int16", "uint16", "int32", "uint32", "float"}
ElementTypes == {"STRING", "CHAR", "UCHAR", "SHORT", "USHORT", "LONG", "ULONG", "FLOAT", "DOUBLE", "ENUM"}

\* The data size that a data type needs.
SizeOfType(plcDataType) ==
  CASE plcDataType = "bool" -> "bit"
    [] plcDataType \in {"int8", "uint8"} -> "byte"
    [] plcDataType \in {"int16", "uint16"} -> "word"
    [] plcDataType \in {"int32", "uint32", "float"} -> "dword"

------------------------------------------------------------------------------
(***************************************************************************)
(* The choice of a PLC data type: by the user, if the record supports the  *)
(* type, or else by the size of the memory.                                *)
(***************************************************************************)
DefaultType(dataSize) ==
  CASE dataSize = "bit" -> {"bool"}
    [] dataSize = "byte" -> {"int8"}
    [] dataSize = "word" -> {"int16"}
    [] dataSize = "dword" -> {"int32"}

Instead(types, unsupported, replacement) ==
  IF types \intersect unsupported # {} THEN {replacement} ELSE types

AnalogType(requested, default) ==
  IF requested # {} THEN requested \ {"uint32"} ELSE Instead(default, {"uint32"}, "int32")

LongType(requested, default) ==
  IF requested # {} THEN requested \ {"uint32", "float"}
  ELSE Instead(default, {"uint32", "float"}, "int32")

BinaryType(requested, default) == IF requested # {} THEN requested ELSE default

MultiBinaryType(requested, default) ==
  IF requested # {} THEN requested \ {"bool", "float"}
  ELSE Instead(default \ {"bool"}, {"float"}, "uint32")

StringType(requested, dataSize) ==
  IF requested # {} THEN requested \intersect {"bool", "int8", "uint8"}
  ELSE CASE dataSize = "bit" -> {"bool"}
         [] dataSize = "byte" -> {"int8"}
         [] OTHER -> {}

\* The types that an array of elements of type ftvl accepts from the user.
ArrayInRequested(ftvl) ==
  CASE ftvl = "STRING" -> {"int8", "uint8"}
    [] ftvl = "CHAR" -> {"bool", "int8"}
    [] ftvl = "UCHAR" -> {"bool", "uint8"}
    [] ftvl = "SHORT" -> {"bool", "int8", "uint8", "int16"}
    [] ftvl \in {"USHORT", "ENUM"} -> {"bool", "uint8", "uint16"}
    [] ftvl = "LONG" -> {"bool", "int8", "uint8", "int16", "uint16", "int32"}
    [] ftvl = "ULONG" -> {"bool", "uint8", "uint16", "uint32"}
    [] ftvl \in {"FLOAT", "DOUBLE"} -> PlcDataTypes

ArrayOutRequested(ftvl) ==
  CASE ftvl = "STRING" -> {"int8", "uint8"}
    [] ftvl = "CHAR" -> {"bool", "int8", "int16", "int32", "float"}
    [] ftvl = "UCHAR" -> {"bool", "uint8", "int16", "uint16", "int32", "uint32", "float"}
    [] ftvl = "SHORT" -> {"bool", "int16", "int32", "float"}
    [] ftvl \in {"USHORT", "ENUM"} -> {"bool", "uint16", "int32", "uint32", "float"}
    [] ftvl = "LONG" -> {"bool", "int32", "float"}
    [] ftvl = "ULONG" -> {"bool", "uint32", "float"}
    [] ftvl \in {"FLOAT", "DOUBLE"} -> {"float"}

\* The defaults.  An element must hold whatever is read, and the PLC whatever is written.
ArrayInDefault(ftvl) ==
  CASE ftvl = "STRING" -> [byte |-> "int8"]
    [] ftvl = "CHAR" -> [bit |-> "bool", byte |-> "int8"]
    [] ftvl = "UCHAR" -> [bit |-> "bool", byte |-> "uint8"]
    [] ftvl = "SHORT" -> [bit |-> "bool", byte |-> "int8", word |-> "int16"]
    [] ftvl \in {"USHORT", "ENUM"} -> [bit |-> "bool", byte |-> "uint8", word |-> "uint16"]
    [] ftvl = "LONG" -> [bit |-> "bool", byte |-> "int8", word |-> "int16", dword |-> "int32"]
    [] ftvl = "ULONG" -> [bit |-> "bool", byte |-> "uint8", word |-> "uint16", dword |-> "uint32"]
    [] ftvl \in {"FLOAT", "DOUBLE"} -> [bit |-> "bool", byte |-> "uint8", word |-> "uint16", dword |-> "float"]

ArrayOutDefault(ftvl) ==
  CASE ftvl = "STRING" -> [byte |-> "int8"]
    [] ftvl = "CHAR" -> [bit |-> "bool", byte |-> "int8", word |-> "int16", dword |-> "int32"]
    [] ftvl = "UCHAR" -> [bit |-> "bool", byte |-> "uint8", word |-> "uint16", dword |-> "uint32"]
    [] ftvl = "SHORT" -> [bit |-> "bool", word |-> "int16", dword |-> "int32"]
    [] ftvl \in {"USHORT", "ENUM"} -> [bit |-> "bool", word |-> "uint16", dword |-> "uint32"]
    [] ftvl = "LONG" -> [bit |-> "bool", dword |-> "int32"]
    [] ftvl = "ULONG" -> [bit |-> "bool", dword |-> "uint32"]
    [] ftvl \in {"FLOAT", "DOUBLE"} -> [bit |-> "bool", dword |-> "float"]

ArrayType(requested, dataSize, accepted, default) ==
  IF requested # {} THEN requested \intersect accepted
  ELSE {default[s] : s \in {dataSize} \intersect DOMAIN default}

------------------------------------------------------------------------------
(***************************************************************************)
(* The classes: the direction of a record, the field that holds the        *)
(* address, the conversion of values, and the parameters that an address   *)
(* may have.                                                               *)
(***************************************************************************)
Class(input, link, support, parameters) ==
  [input |-> input, link |-> link, support |-> support, parameters |-> parameters]

S7nodaveAaiRecord         == Class(TRUE, "inp", "array", {"PG"})
S7nodaveAaoRecord         == Class(FALSE, "out", "array", {})
S7nodaveAiRecord          == Class(TRUE, "inp", "analog", {"PG", "DLV", "DHV"})
S7nodaveAoRecord          == Class(FALSE, "out", "analog", {"DLV", "DHV"})
S7nodaveBiRecord          == Class(TRUE, "inp", "binary", {"PG"})
S7nodaveBoRecord          == Class(FALSE, "out", "binary", {})
S7nodaveLonginRecord      == Class(TRUE, "inp", "long", {"PG"})
S7nodaveLongoutRecord     == Class(FALSE, "out", "long", {})
S7nodaveMbbiRecord        == Class(TRUE, "inp", "multiBinary", {"PG"})
S7nodaveMbboRecord        == Class(FALSE, "out", "multiBinary", {})
S7nodaveMbbiDirectRecord  == Class(TRUE, "inp", "multiBinary", {"PG"})
S7nodaveMbboDirectRecord  == Class(FALSE, "out", "multiBinary", {})
S7nodaveStringinRecord    == Class(TRUE, "inp", "string", {"PG"})
S7nodaveStringoutRecord   == Class(FALSE, "out", "string", {})
S7nodaveWaveformInRecord  == Class(TRUE, "inp", "array", {"PG"})
S7nodaveWaveformOutRecord == Class(FALSE, "inp", "array", {})

\* s7nodaveInitRecord creates the object that a record needs.
ClassOf ==
  [aai |-> S7nodaveAaiRecord, aao |-> S7nodaveAaoRecord,
   ai |-> S7nodaveAiRecord, ao |-> S7nodaveAoRecord,
   bi |-> S7nodaveBiRecord, bo |-> S7nodaveBoRecord,
   longin |-> S7nodaveLonginRecord, longout |-> S7nodaveLongoutRecord,
   mbbi |-> S7nodaveMbbiRecord, mbbo |-> S7nodaveMbboRecord,
   mbbiDirect |-> S7nodaveMbbiDirectRecord, mbboDirect |-> S7nodaveMbboDirectRecord,
   stringin |-> S7nodaveStringinRecord, stringout |-> S7nodaveStringoutRecord,
   waveformIn |-> S7nodaveWaveformInRecord, waveformOut |-> S7nodaveWaveformOutRecord]

RecordTypes == DOMAIN ClassOf
InputTypes == {t \in RecordTypes : ClassOf[t].input}
OutputTypes == RecordTypes \ InputTypes

\* getPlcDataType of a class.
GetPlcDataType(recordType, ftvl, dataSize, requested) ==
  LET class == ClassOf[recordType]
      default == DefaultType(dataSize)
  IN CASE class.support = "analog" -> AnalogType(requested, default)
       [] class.support = "long" -> LongType(requested, default)
       [] class.support = "binary" -> BinaryType(requested, default)
       [] class.support = "multiBinary" -> MultiBinaryType(requested, default)
       [] class.support = "string" -> StringType(requested, dataSize)
       [] class.support = "array" /\ class.input ->
            ArrayType(requested, dataSize, ArrayInRequested(ftvl), ArrayInDefault(ftvl))
       [] class.support = "array" /\ ~class.input ->
            ArrayType(requested, dataSize, ArrayOutRequested(ftvl), ArrayOutDefault(ftvl))

------------------------------------------------------------------------------
(***************************************************************************)
(* The device support entry tables: how many functions there are, and      *)
(* which of the optional ones.                                             *)
(***************************************************************************)
Dset(numberOfFunctionPointers, recordType, getIoIntInfo, convert) ==
  [numberOfFunctionPointers |-> numberOfFunctionPointers, recordType |-> recordType,
   getIoIntInfo |-> getIoIntInfo, convert |-> convert]

devAaiS7nodave         == Dset(5, "aai", TRUE, FALSE)
devAaoS7nodave         == Dset(5, "aao", FALSE, FALSE)
devAiS7nodave          == Dset(6, "ai", TRUE, TRUE)
devAoS7nodave          == Dset(6, "ao", FALSE, TRUE)
devBiS7nodave          == Dset(5, "bi", TRUE, FALSE)
devBoS7nodave          == Dset(5, "bo", FALSE, FALSE)
devLonginS7nodave      == Dset(5, "longin", TRUE, FALSE)
devLongoutS7nodave     == Dset(5, "longout", FALSE, FALSE)
devMbbiS7nodave        == Dset(5, "mbbi", TRUE, FALSE)
devMbboS7nodave        == Dset(5, "mbbo", FALSE, FALSE)
devMbbiDirectS7nodave  == Dset(5, "mbbiDirect", TRUE, FALSE)
devMbboDirectS7nodave  == Dset(5, "mbboDirect", FALSE, FALSE)
devStringinS7nodave    == Dset(5, "stringin", TRUE, FALSE)
devStringoutS7nodave   == Dset(5, "stringout", FALSE, FALSE)
devWaveformInS7nodave  == Dset(5, "waveformIn", TRUE, FALSE)
devWaveformOutS7nodave == Dset(5, "waveformOut", FALSE, FALSE)

\* The tables by the type of the record and the name of the device support.
Devices ==
  {devAaiS7nodave, devAaoS7nodave, devAiS7nodave, devAoS7nodave, devBiS7nodave, devBoS7nodave,
   devLonginS7nodave, devLongoutS7nodave, devMbbiS7nodave, devMbboS7nodave,
   devMbbiDirectS7nodave, devMbboDirectS7nodave, devStringinS7nodave, devStringoutS7nodave,
   devWaveformInS7nodave, devWaveformOutS7nodave}
=============================================================================
