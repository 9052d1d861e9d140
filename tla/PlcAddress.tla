------------------------------ MODULE PlcAddress ------------------------------
(***************************************************************************)
(* PLC memory addresses (PlcAddress) and the conversions between them and  *)
(* their textual form: DB3.DBD4, DB50.DBX17.3, FW4, Q8.3, T2, ...          *)
(*                                                                         *)
(* A text is a sequence of tokens.  A token is a letter or a dot, in upper *)
(* case, or a longest run of digits, represented by the number it spells   *)
(* without leading zeros.  An Optional is a set with at most one element.  *)
(* An operator that is not used is a variant, with a bug, of the one that  *)
(* follows it.                                                             *)
(***************************************************************************)
EXTENDS Integers, Sequences

Areas == {"db", "flags", "inputs", "outputs", "timer", "counter"}
DataSizes == {"bit", "byte", "word", "dword"}

\* The attributes of the class.
Address == [area: Areas, areaNumber: Nat, dataSize: DataSizes, startByte: Nat, startBit: 0..7]

Letters == {"D", "B", "F", "M", "I", "E", "Q", "A", "T", "C", "Z", "X", "W"}
Letter(c) == [sym |-> c, num |-> 0]
Digits(n) == [sym |-> "digits", num |-> n]
Dot == Letter(".")
IsDigits(t) == t.sym = "digits"
DecimalDigits == 0..9

Token == [sym: Letters \union {".", ",", "digits"}, num: Nat]

------------------------------------------------------------------------------
DataSizeInBits(dataSize) ==
  CASE dataSize = "bit" -> 1
    [] dataSize = "byte" -> 8
    [] dataSize = "word" -> 16
    [] dataSize = "dword" -> 32

\* English and German names of the areas that have one letter.
AreaOfLetter(c) ==
  CASE c \in {"F", "M"} -> {"flags"}
    [] c \in {"I", "E"} -> {"inputs"}
    [] c \in {"Q", "A"} -> {"outputs"}
    [] c = "T" -> {"timer"}
    [] c \in {"C", "Z"} -> {"counter"}
    [] OTHER -> {}

StartsWithDB(s) == Len(s) >= 2 /\ s[1].sym = "D" /\ s[2].sym = "B"

StringToArea(s) ==
  IF StartsWithDB(s) THEN {"db"} ELSE IF s = <<>> THEN {} ELSE AreaOfLetter(s[1].sym)

AreaToString(area) ==
  CASE area = "db" -> <<Letter("D"), Letter("B")>>
    [] area = "flags" -> <<Letter("F")>>
    [] area = "inputs" -> <<Letter("I")>>
    [] area = "outputs" -> <<Letter("Q")>>
    [] area = "timer" -> <<Letter("T")>>
    [] area = "counter" -> <<Letter("C")>>

StringToDataSize(c, isDB) ==
  CASE c = "B" -> {"byte"}
    [] c = "W" -> {"word"}
    [] c = "D" -> {"dword"}
    [] c = "X" /\ isDB -> {"bit"}
    [] OTHER -> {}

DataSizeToString(dataSize, isDB) ==
  CASE dataSize = "bit" -> IF isDB THEN <<Letter("X")>> ELSE <<>>
    [] dataSize = "byte" -> <<Letter("B")>>
    [] dataSize = "word" -> <<Letter("W")>>
    [] dataSize = "dword" -> <<Letter("D")>>

------------------------------------------------------------------------------
TextWithoutSize(a) ==
  AreaToString(a.area)
    \o (IF a.area = "db" THEN <<Digits(a.areaNumber), Dot>> \o AreaToString("db") ELSE <<>>)
    \o <<Digits(a.startByte)>>
    \o (IF a.dataSize = "bit" THEN <<Dot, Digits(a.startBit)>> ELSE <<>>)

Text(a) ==
  AreaToString(a.area)
    \o (IF a.area = "db" THEN <<Digits(a.areaNumber), Dot>> \o AreaToString("db") ELSE <<>>)
    \o (IF a.area \in {"timer", "counter"} THEN <<>>
        ELSE DataSizeToString(a.dataSize, a.area = "db"))
    \o <<Digits(a.startByte)>>
    \o (IF a.dataSize = "bit" THEN <<Dot, Digits(a.startBit)>> ELSE <<>>)

\* The first create: from the parts of an address.
Create(area, areaNumber, dataSize, startByte, startBit) ==
  IF /\ area # "db" => areaNumber = 0
     /\ dataSize # "bit" => startBit = 0
     /\ startBit \in 0..7
     /\ startByte >= 0
  THEN {[area |-> area, areaNumber |-> areaNumber, dataSize |-> dataSize,
         startByte |-> startByte, startBit |-> startBit]}
  ELSE {}

------------------------------------------------------------------------------
(***************************************************************************)
(* The second create: from a text.                                         *)
(***************************************************************************)
Rest(s, n) == SubSeq(s, n + 1, Len(s))

\* Timers and counters are words that have a number.
TimerOrCounter(area, s) ==
  IF Len(s) = 1 /\ IsDigits(s[1])
  THEN {[area |-> area, areaNumber |-> 0, dataSize |-> "word",
         startByte |-> s[1].num, startBit |-> 0]}
  ELSE {}

\* The byte and the bit of a bit address.  The number of the byte may be missing, which
\* atoi takes for zero; the bit is a single digit.
BytePartUnchecked(s) ==
  CASE Len(s) = 3 /\ IsDigits(s[1]) /\ s[2] = Dot /\ IsDigits(s[3])
         -> {[startByte |-> s[1].num, startBit |-> s[3].num]}
    [] OTHER -> {}

BitPosition(s) ==
  CASE /\ Len(s) = 3 /\ IsDigits(s[1]) /\ s[2] = Dot
       /\ IsDigits(s[3]) /\ s[3].num \in DecimalDigits /\ s[3].num \in 0..7
         -> {[startByte |-> s[1].num, startBit |-> s[3].num]}
    [] /\ Len(s) = 2 /\ s[1] = Dot
       /\ IsDigits(s[2]) /\ s[2].num \in DecimalDigits /\ s[2].num \in 0..7
         -> {[startByte |-> 0, startBit |-> s[2].num]}
    [] OTHER -> {}

\* What follows the area, and for a data block its number and ".DB".
SizeAndPosition(area, areaNumber, s) ==
  IF s = <<>> THEN {}
  ELSE LET dataSize == StringToDataSize(s[1].sym, area = "db")
           isBit == dataSize = {"bit"} \/ (dataSize = {} /\ area # "db" /\ IsDigits(s[1]))
           position == IF dataSize = {} THEN s ELSE Rest(s, 1)
       IN IF isBit
          THEN {[area |-> area, areaNumber |-> areaNumber, dataSize |-> "bit",
                 startByte |-> p.startByte, startBit |-> p.startBit] : p \in BitPosition(position)}
          ELSE IF Len(position) = 1 /\ IsDigits(position[1])
          THEN {[area |-> area, areaNumber |-> areaNumber, dataSize |-> d,
                 startByte |-> position[1].num, startBit |-> 0] : d \in dataSize}
          ELSE {}

\* The number of a data block, any token that is not a number, and "DB".
DataBlock(s) ==
  IF Len(s) >= 4 /\ IsDigits(s[1]) /\ ~IsDigits(s[2]) /\ StartsWithDB(Rest(s, 2))
  THEN SizeAndPosition("db", s[1].num, Rest(s, 4))
  ELSE {}

Parse(s) ==
  UNION {CASE area = "db" -> DataBlock(Rest(s, 2))
           [] area \in {"timer", "counter"} -> TimerOrCounter(area, Rest(s, 1))
           [] OTHER -> SizeAndPosition(area, 0, Rest(s, 1)) : area \in StringToArea(s)}

\* The addresses the program can have: those of a text.
IsAddress(a) ==
  /\ a \in Address
  /\ a.area # "db" => a.areaNumber = 0
  /\ a.dataSize # "bit" => a.startBit = 0
  /\ a.area \in {"timer", "counter"} => a.dataSize = "word"
=============================================================================
