---------------------------- MODULE MCRecordLoop -----------------------------
(***************************************************************************)
(* Every output record with every data type, of every size.  Bytes have    *)
(* two bits, so that the numbers of a double word are those of 8 bits.     *)
(***************************************************************************)
EXTENDS RecordLoop

Base ==
  [dataSize: DataSizes, requested: {{}} \union {{t} : t \in PlcDataTypes},
   ftvl: {"LONG"}, nelm: {1}, linear: {FALSE}, limits: {{}}, egul: {0}, eguf: {0},
   eslo: {2}, eoff: {1},
   states: {<<0, 0>>}, nobt: {0}, shft: {0}, recordType: {"longout", "bo", "stringout", "ao"}]

Linear ==
  UNION {{[c EXCEPT !.recordType = "ao", !.linear = TRUE, !.egul = e + k * DeviceLimits(c).low,
           !.eguf = e + k * DeviceLimits(c).high] : e \in {-3, 0}, k \in {1, 2, 3}} :
           c \in {b \in Base : b.recordType = "ao" /\ TypesOf(b) # {}}}

\* DLV and DHV within the range of a word (as 0 and 27648 are for 16 bits), beyond it, and equal.
WithLimits ==
  {[c EXCEPT !.recordType = "ao", !.linear = TRUE, !.limits = {[low |-> l[1], high |-> l[2]]},
     !.egul = e + k * l[1], !.eguf = e + k * l[2]] :
     e \in {-3, 0}, k \in {1, 3}, l \in {<<0, 6>>, <<-3, 20>>, <<5, 5>>},
     c \in {b \in Base : b.recordType = "ao"}}

MultiBinary ==
  {[c EXCEPT !.recordType = "mbbo", !.states = s, !.nobt = n, !.shft = f] :
     c \in {b \in Base : b.recordType = "bo"}, s \in {<<0, 1, 2>>, <<3, 1, 3>>}, n \in 0..3, f \in 0..2}
  \union
  {[c EXCEPT !.recordType = r, !.nobt = n, !.shft = f] :
     c \in {b \in Base : b.recordType = "bo"}, r \in {"mbbo", "mbboDirect"}, n \in 0..3, f \in 0..1}

Arrays ==
  {[c EXCEPT !.recordType = r, !.ftvl = f, !.nelm = IF r = "aao" THEN 3 ELSE 1] :
     c \in {b \in Base : b.recordType = "bo"}, r \in {"aao", "waveformOut"},
     f \in ElementTypes}

\* 32-bit integers are not written as floats, which would have to be rounded.
MCOutputs ==
  {c \in Base \union Linear \union WithLimits \union MultiBinary \union Arrays :
     ~(c.ftvl \in {"LONG", "ULONG"} /\ c.requested = {"float"} /\ ClassOf[c.recordType].support = "array")}

Numbers == {-128, -9, -8, -2, -1, 0, 1, 3, 7, 8, 15, 127}

ElementValues(c) ==
  IF c.ftvl = "STRING" THEN {<<>>, <<1>>, <<3, 2>>}
  ELSE IF c.ftvl \in {"FLOAT", "DOUBLE"} THEN {-9, 0, 1, NaN}
  ELSE ElementRange(c.ftvl) \intersect {-128, -8, -2, -1, 0, 3, 15, 255}

MCValues(c) ==
  CASE Support(c) = "array" ->
         {[i \in 1..c.nelm |-> IF i = 1 THEN x ELSE y] : x, y \in ElementValues(c)}
    [] Support(c) = "string" -> {<<>>, TrueString, FalseString, <<3, 1>>}
    [] Support(c) = "binary" -> {0, 1}
    [] c.recordType = "mbbo" -> 0..(IF HasStates(c) THEN 2 ELSE 3)
    [] c.recordType = "mbboDirect" -> 0..7
    [] Type(c) = "float" -> {-9, 0, 1, 120, NaN, Inf, -Inf}
    [] OTHER -> Numbers

\* Patterns of bytes: zeros, ones, the least number of every width, and a mixture.
MCContents ==
  {[i \in 1..13 |-> 0], [i \in 1..13 |-> 3], [i \in 1..13 |-> IF i % 4 = 1 THEN 2 ELSE 0], [i \in 1..13 |-> i % 3]}
=============================================================================
