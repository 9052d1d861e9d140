----------------------------- MODULE MCAddresses -----------------------------
(***************************************************************************)
(* Short texts of all kinds, and longer ones put together from parts.      *)
(***************************************************************************)
EXTENDS Addresses

Tokens == {Letter(c) : c \in {"D", "B", "F", "M", "T", "X", "W", "."}} \union {Digits(n) : n \in {0, 7, 8, 12}}

NumbersApart(s) == \A i \in 1..(Len(s) - 1) : ~(IsDigits(s[i]) /\ IsDigits(s[i + 1]))

MCPlcTexts ==
  LET tails == BoundedSeq({Letter(c) : c \in {"D", "B", "X", "."}} \union {Digits(n) : n \in {0, 7, 8}}, 4)
      block == <<Letter("D"), Letter("B"), Digits(12), Dot, Letter("D"), Letter("B")>>
  IN {s \in BoundedSeq(Tokens, 4) \union {block \o s : s \in tails} : NumbersApart(s)}

\* Parts of a device address; an empty part is one that is left out.
Optional(s) == {<<>>, s}
Space == Optional(<<"space">>)
MCWords == {"plc", "FB0", "FB1", "PG", "DLV", "1s"} \union PlcDataTypes
MCPlcAddressWords == {"FB0", "FB1"}

Values == {<<"1s">>, <<"1s", "space", "=", "space", "(">>}
Parameters ==
  {<<>>, <<"(", ")">>} \union
  {<<"(">> \o s \o <<"PG">> \o t \o <<"=">> \o u \o x \o v \o w \o <<")">> :
     s \in Space, t \in Space, u \in Space, v \in Space, x \in Values,
     w \in {<<>>, <<",">>, <<",", "DLV">>, <<",", "space", "DLV", "=">>, <<",", "PG", "=", "1s">>}}

MCRecordTexts ==
  {r \in {s \o p \o t \o q \o u \o m \o v :
     s \in Space, p \in {<<>>, <<"plc">>}, t \in Space, q \in Parameters, u \in Space,
     m \in {<<>>, <<"FB0">>, <<"FB0", "space", "int8">>, <<"FB0", "space", "PG">>}, v \in Space} :
     \A i \in 1..(Len(r) - 1) : ~(r[i] = "space" /\ r[i + 1] = "space")}
=============================================================================
