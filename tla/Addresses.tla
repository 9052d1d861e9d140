------------------------------ MODULE Addresses ------------------------------
(***************************************************************************)
(* Two texts that are rewritten without changing what they mean: a PLC     *)
(* address (PlcAddress) and a device address (RecordAddress).  Each step   *)
(* rewrites one text the way a user may, who follows the manual: with the  *)
(* names of the other language, with another layout, or in the canonical   *)
(* form.                                                                   *)
(***************************************************************************)
EXTENDS RecordAddress, SequencesExt

CONSTANTS PlcTexts, RecordTexts     \* the texts to start with

\* White space is one token, however long it is.
IsRecordText(s) ==
  /\ s \in Seq(Words \union Punctuation \union {"space"})
  /\ \A i \in 1..(Len(s) - 1) : s[i] # "space" \/ s[i + 1] # "space"

ASSUME TextAssumption == PlcTexts \subseteq Seq(Token) /\ \A s \in RecordTexts : IsRecordText(s)

VARIABLES plcText, recordText

textVars == <<plcText, recordText>>

TextInit ==
  \/ plcText \in PlcTexts /\ recordText = <<>>
  \/ plcText = <<>> /\ recordText \in RecordTexts

\* toString writes an address in its canonical form.
WritePlcAddress ==
  /\ \E a \in Parse(plcText) : plcText' = Text(a)
  /\ UNCHANGED recordText

\* M, E, A and Z are the German names of the areas F, I, Q and C.
Translation == [F |-> "M", I |-> "E", Q |-> "A", C |-> "Z",
                M |-> "F", E |-> "I", A |-> "Q", Z |-> "C"]

TranslatePlcAddress ==
  /\ plcText # <<>> /\ plcText[1].sym \in DOMAIN Translation
  /\ plcText' = <<Letter(Translation[plcText[1].sym])>> \o Tail(plcText)
  /\ UNCHANGED recordText

\* The tokens that structure a text: the parentheses round the parameters, and in them the
\* commas and the first "=" of each parameter.
IsOpening(s, i) == s[i] = "(" /\ \A j \in 1..(i - 1) : s[j] # "("
InParentheses(s, i) == \E j \in 1..(i - 1) : IsOpening(s, j) /\ \A k \in j..(i - 1) : s[k] # ")"
IsEquals(s, i) ==
  /\ s[i] = "="
  /\ \A j \in 1..(i - 1) : s[j] = "=" => \E k \in j..i : s[k] = "," \/ IsOpening(s, k)
IsMark(s, i) ==
  \/ IsOpening(s, i)
  \/ InParentheses(s, i) /\ (s[i] \in {",", ")"} \/ IsEquals(s, i))

\* White space at the ends and next to these tokens has no meaning.
SpaceIsOptional(s, i) == i \in {1, Len(s)} \/ IsMark(s, i - 1) \/ IsMark(s, i + 1)

RemoveSpace ==
  /\ ParseRecordAddress(recordText).valid
  /\ \E i \in {j \in Positions(recordText, {"space"}) : SpaceIsOptional(recordText, j)} :
       recordText' = Before(recordText, i) \o From(recordText, i + 1)
  /\ UNCHANGED plcText

\* The canonical form of a device address, with its parameters in any order.
ParameterText(p) == p.name \o (IF p.value = {} THEN <<>> ELSE <<"=">> \o CHOOSE v \in p.value : TRUE)

\* The texts of the first n parameters.
JoinedText(parameters) ==
  LET text[n \in 0..Len(parameters)] ==
        IF n = 0 THEN <<>>
        ELSE text[n - 1] \o (IF n = 1 THEN <<>> ELSE <<",">>) \o ParameterText(parameters[n])
  IN text[Len(parameters)]

ParametersText(parameters) ==
  IF parameters = <<>> THEN <<>> ELSE <<"(">> \o JoinedText(parameters) \o <<")">>

RewriteRecordAddress ==
  LET address == ParseRecordAddress(recordText)
  IN /\ address.valid
     /\ \E parameters \in UNION {SetToSeqs(set) : set \in address.parameters} :
          \E a \in address.plcAddress :
            recordText' = address.portName \o ParametersText(parameters) \o <<"space", a>>
                            \o (IF address.plcDataType = {} THEN <<>>
                                ELSE <<"space", CHOOSE t \in address.plcDataType : TRUE>>)
     /\ UNCHANGED plcText

TextNext ==
  \/ WritePlcAddress
  \/ TranslatePlcAddress
  \/ RemoveSpace
  \/ RewriteRecordAddress

TextSpec == TextInit /\ [][TextNext]_textVars

------------------------------------------------------------------------------
(***************************************************************************)
(* Properties.                                                             *)
(***************************************************************************)
\* What PlcAddress::create accepts as a text is an address that it would accept as
\* numbers, and that a program can have: the two functions agree on what an address is,
\* although each of them has checks of its own.
ParsedAddressesAreValid ==
  \A a \in Parse(plcText) :
    /\ IsAddress(a)
    /\ Create(a.area, a.areaNumber, a.dataSize, a.startByte, a.startBit) = {a}

\* An address that is written with toString and read again is the same address, and the
\* English and the German notation are equivalent.
PlcTextKeepsMeaning == [][Parse(plcText') = Parse(plcText)]_plcText

\* The layout of a device address and the order of its parameters do not matter: port,
\* parameters, PLC address and data type are found wherever white space is optional.
RecordTextKeepsMeaning ==
  [][ParseRecordAddress(recordText') = ParseRecordAddress(recordText)]_recordText
=============================================================================
