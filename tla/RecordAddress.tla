---------------------------- MODULE RecordAddress ----------------------------
(***************************************************************************)
(* Device addresses of records (S7nodaveRecordAddress):                    *)
(*     port(parameter=value,...) PLC-address data-type                     *)
(* where the parameters and the data type are optional.                    *)
(*                                                                         *)
(* A text is a sequence of tokens: one of "(", ")", ",", "=", the token    *)
(* "space" for any run of white space, or a word of other characters.  The *)
(* names of parameters are in upper case.  Which words are PLC addresses is*)
(* the matter of PlcAddress; here it is a constant.  An Optional is a set  *)
(* with at most one element.                                               *)
(***************************************************************************)
EXTENDS RecordTypes

CONSTANTS Words,            \* all words
          PlcAddressWords   \* those that PlcAddress::create accepts

Punctuation == {"(", ")", ",", "="}

ASSUME WordAssumption ==
  /\ PlcAddressWords \union PlcDataTypes \subseteq Words
  /\ Words \intersect (Punctuation \union {"space"}) = {}

------------------------------------------------------------------------------
(***************************************************************************)
(* Texts.                                                                  *)
(***************************************************************************)
\* Positions of the given tokens; find_first_of is the least one.
Positions(s, tokens) == {i \in DOMAIN s : s[i] \in tokens}
Least(positions) == CHOOSE i \in positions : \A j \in positions : i <= j
From(s, i) == SubSeq(s, i, Len(s))
Before(s, i) == SubSeq(s, 1, i - 1)

\* A run of white space is one token, so that there is at most one to remove.
TrimLeft(s) == IF s # <<>> /\ s[1] = "space" THEN From(s, 2) ELSE s
TrimRight(s) == IF s # <<>> /\ s[Len(s)] = "space" THEN Before(s, Len(s)) ELSE s
Trim(s) == TrimLeft(TrimRight(s))

\* splitString: the parts between the separators, each at the place of the separator before it.
NextPosition(s, i, token) == Least({j \in Positions(s, {token}) : j > i} \union {Len(s) + 1})
SplitString(s, separator) ==
  [i \in {0} \union Positions(s, {separator}) |-> SubSeq(s, i + 1, NextPosition(s, i, separator) - 1)]

------------------------------------------------------------------------------
(***************************************************************************)
(* Parameters: a set of pairs of a name and an optional value.             *)
(***************************************************************************)
ParameterOfUntrimmed(s) ==
  LET equals == Positions(s, {"="})
  IN IF equals = {} THEN [name |-> Trim(s), value |-> {}]
     ELSE [name |-> Trim(Before(s, Least(equals))),
           value |-> {From(s, Least(equals) + 1)}]

ParameterOf(s) ==
  LET equals == Positions(s, {"="})
  IN IF equals = {} THEN [name |-> Trim(s), value |-> {}]
     ELSE [name |-> Trim(Before(s, Least(equals))),
           value |-> {Trim(From(s, Least(equals) + 1))}]

\* No name is empty and none appears twice.
ParseDeviceParameters(s) ==
  IF s = <<>> THEN {{}}
  ELSE LET parts == SplitString(s, ",")
           parameter == [i \in DOMAIN parts |-> ParameterOf(parts[i])]
       IN IF /\ \A i \in DOMAIN parts : parameter[i].name # <<>>
             /\ \A i, j \in DOMAIN parts : parameter[i].name = parameter[j].name => i = j
          THEN {{parameter[i] : i \in DOMAIN parts}} ELSE {}

------------------------------------------------------------------------------
(***************************************************************************)
(* Device addresses.                                                       *)
(***************************************************************************)
StringToPlcDataType(s) == IF Len(s) = 1 /\ s[1] \in PlcDataTypes THEN {s[1]} ELSE {}

Result(portName, parameters, plcAddress, plcDataType, valid) ==
  [portName |-> portName, parameters |-> parameters, plcAddress |-> plcAddress,
   plcDataType |-> plcDataType, valid |-> valid]

\* The PLC address up to the next white space, and the data type after it.
ParseMemory(portName, parameters, s) ==
  LET spaces == Positions(s, {"space"})
      address == IF spaces = {} THEN s ELSE Before(s, Least(spaces))
      type == IF spaces = {} THEN <<>> ELSE From(s, Least(spaces) + 1)
  IN IF Len(address) # 1 \/ address[1] \notin PlcAddressWords
     THEN Result(portName, parameters, {}, {}, FALSE)
     ELSE Result(portName, parameters, {address[1]}, StringToPlcDataType(type),
                 type = <<>> \/ StringToPlcDataType(type) # {})

\* The parameters in parentheses, if there are any.
ParseParameters(portName, s) ==
  LET closing == Positions(s, {")"})
      parameters == ParseDeviceParameters(SubSeq(s, 2, Least(closing) - 1))
  IN IF s = <<>> \/ s[1] # "(" THEN ParseMemory(portName, {{}}, s)
     ELSE IF closing = {} \/ parameters = {} THEN Result(portName, {}, {}, {}, FALSE)
     ELSE ParseMemory(portName, parameters, TrimLeft(From(s, Least(closing) + 1)))

\* The name of the port ends at white space or at an opening parenthesis.
ParseRecordAddress(s) ==
  LET text == Trim(s)
      ends == Positions(text, {"space", "("})
  IN IF ends = {} \/ Least(ends) = 1
     THEN Result(IF ends = {} THEN text ELSE <<>>, {}, {}, {}, FALSE)
     ELSE ParseParameters(Before(text, Least(ends)), TrimLeft(From(text, Least(ends))))

\* The data type must have the size of the memory.
CreateRecordAddress(portName, dataSize, plcDataType) ==
  portName # <<>> /\ dataSize = SizeOfType(plcDataType)
=============================================================================
