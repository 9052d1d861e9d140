------------------------ MODULE DeviceSupportProofs --------------------------
(***************************************************************************)
(* Proofs about the addresses of records and the entry points of the       *)
(* device support.                                                         *)
(*                                                                         *)
(* PLC addresses: what is parsed is a valid PLC address, its canonical form*)
(* is parsed to the same address, and the other language names the same    *)
(* areas, for texts of any length.                                         *)
(*                                                                         *)
(* Device addresses: white space that the manual calls optional can be left*)
(* out, and the canonical form with the parameters in any order is read as *)
(* the same port, parameters, PLC address and data type, for texts of any  *)
(* length.                                                                 *)
(*                                                                         *)
(* Entry points: the safety properties of DeviceSupport hold for any number*)
(* of records, ports and poll groups and for every configuration.  They    *)
(* need three facts more: an asynUser exists from the first step of a      *)
(* creation or an initialization to its last, and is connected while the   *)
(* interfaces are looked for (AsynUsersFollowSteps), a record with SCAN    *)
(* "I/O Intr" can be scanned (ScannedRecordsCanBeScanned), and a record    *)
(* that has failed is disabled (FailedRecordsAreDisabled).                 *)
(***************************************************************************)
EXTENDS Addresses, DeviceSupport, SequenceTheorems, FiniteSetTheorems, WellFoundedInduction, TLAPS

------------------------------------------------------------------------------
(***************************************************************************)
(* Natural numbers.                                                        *)
(***************************************************************************)
\* A set of natural numbers that is not empty has a least element.
LEMMA LeastNatural ==
  ASSUME NEW S, S \subseteq Nat, S # {}
  PROVE  \E m \in S : \A k \in S : m <= k
<1>. DEFINE R == OpToRel(<, Nat)
<1>1. IsWellFoundedOn(R, Nat)
  BY NatLessThanWellFounded
<1>2. \A x, y \in Nat : y < x => <<y, x>> \in R
  BY DEF OpToRel
<1>. HIDE DEF R
<1>3. PICK m \in S : \A y \in S : ~(<<y, m>> \in R)
  BY <1>1, WFMin
<1>4. ASSUME NEW k \in S PROVE m <= k
  <2>1. ~(<<k, m>> \in R) /\ k \in Nat /\ m \in Nat
    BY <1>3
  <2>2. ~(k < m)
    BY <2>1, <1>2
  <2>. QED
    BY <2>1, <2>2
<1>. QED
  BY <1>4

\* Induction, for a set of natural numbers.
LEMMA SetOfAllNaturals ==
  ASSUME NEW T, 0 \in T, \A n \in Nat : n \in T => n + 1 \in T
  PROVE  Nat \subseteq T
<1>. DEFINE S == Nat \ T
<1>1. SUFFICES ASSUME S # {} PROVE FALSE
  OBVIOUS
<1>2. PICK m \in S : \A k \in S : m <= k
  BY <1>1, LeastNatural
<1>3. m # 0 /\ m \in Nat
  OBVIOUS
<1>4. m - 1 \in T
  BY <1>2, <1>3
<1>. QED
  BY <1>3, <1>4

------------------------------------------------------------------------------
(***************************************************************************)
(* PLC addresses: every lemma is about one function of the code, with a    *)
(* case for each of its returns.                                           *)
(***************************************************************************)
\* The record of an address.
ByteAddress(area, areaNumber, dataSize, startByte, startBit) ==
  [area |-> area, areaNumber |-> areaNumber, dataSize |-> dataSize,
   startByte |-> startByte, startBit |-> startBit]

------------------------------------------------------------------------------
(***************************************************************************)
(* Tokens.                                                                 *)
(***************************************************************************)
\* The numbers of a text are natural numbers.
LEMMA NumberOfToken ==
  ASSUME NEW s \in Seq(Token), NEW i \in 1..Len(s)
  PROVE  s[i] \in Token /\ s[i].num \in Nat
<1>1. s[i] \in Token
  OBVIOUS
<1>2. QED BY <1>1 DEF Token

\* What is left of a text without its first n tokens.
LEMMA RestOfText ==
  ASSUME NEW s \in Seq(Token), NEW n \in Nat, n <= Len(s)
  PROVE  /\ Rest(s, n) \in Seq(Token)
         /\ Len(Rest(s, n)) = Len(s) - n
         /\ \A i \in 1..(Len(s) - n) : Rest(s, n)[i] = s[i + n]
BY DEF Rest

\* The first tokens of what is left.
LEMMA TokensOfRest ==
  ASSUME NEW s \in Seq(Token), NEW n \in Nat, n <= Len(s), NEW t, t = Rest(s, n)
  PROVE  /\ t \in Seq(Token) /\ Len(t) = Len(s) - n
         /\ Len(s) >= n + 1 => t[1] = s[n + 1]
         /\ Len(s) >= n + 2 => t[2] = s[n + 2]
         /\ Len(s) >= n + 3 => t[3] = s[n + 3]
         /\ Len(s) >= n + 4 => t[4] = s[n + 4]
<1>1. t \in Seq(Token) /\ Len(t) = Len(s) - n /\ Len(s) \in Nat
  BY RestOfText
<1>2. ASSUME NEW i \in 1..4, Len(s) >= n + i
      PROVE  t[i] = s[n + i]
  <2>1. i \in 1..(Len(s) - n) /\ n + i = i + n
    BY <1>1, <1>2
  <2>2. QED BY <2>1, RestOfText
<1>3. QED BY <1>1, <1>2

\* Two texts with the same tokens are the same.
LEMMA SameText ==
  ASSUME NEW s \in Seq(Token), NEW t \in Seq(Token),
         Len(s) = Len(t), \A i \in 1..Len(s) : s[i] = t[i]
  PROVE  s = t
OBVIOUS

\* A text with one token more.
LEMMA OneMore ==
  ASSUME NEW s \in Seq(Token), NEW x \in Token, NEW t, t = s \o <<x>>
  PROVE  /\ t \in Seq(Token) /\ Len(t) = Len(s) + 1
         /\ \A i \in 1..Len(s) : t[i] = s[i]
         /\ t[Len(s) + 1] = x
OBVIOUS

\* A text with two tokens more.
LEMMA TwoMore ==
  ASSUME NEW s \in Seq(Token), NEW x \in Token, NEW y \in Token, NEW t, t = s \o <<x, y>>
  PROVE  /\ t \in Seq(Token) /\ Len(t) = Len(s) + 2
         /\ \A i \in 1..Len(s) : t[i] = s[i]
         /\ t[Len(s) + 1] = x /\ t[Len(s) + 2] = y
OBVIOUS

------------------------------------------------------------------------------
(***************************************************************************)
(* Addresses that are parsed are valid.                                    *)
(***************************************************************************)
\* The form of a parsed address decides whether it is valid.
LEMMA FormOfAddress ==
  ASSUME NEW area \in Areas, NEW areaNumber \in Nat, NEW dataSize \in DataSizes,
         NEW startByte \in Nat, NEW startBit \in 0..7,
         area # "db" => areaNumber = 0,
         dataSize # "bit" => startBit = 0,
         area \in {"timer", "counter"} => dataSize = "word"
  PROVE  IsAddress(ByteAddress(area, areaNumber, dataSize, startByte, startBit))
BY DEF IsAddress, Address, ByteAddress

\* Both ways to create an address agree on a valid one.
LEMMA CreateAgrees ==
  ASSUME NEW a, IsAddress(a)
  PROVE  Create(a.area, a.areaNumber, a.dataSize, a.startByte, a.startBit) = {a}
BY DEF IsAddress, Address, Create

\* A timer or a counter is a word.
LEMMA TimerOrCounterIsValid ==
  ASSUME NEW s \in Seq(Token), NEW area \in {"timer", "counter"},
         NEW a \in TimerOrCounter(area, s)
  PROVE  IsAddress(a)
<1>1. Len(s) = 1 /\ a = ByteAddress(area, 0, "word", s[1].num, 0)
  BY DEF TimerOrCounter, ByteAddress
<1>2. s[1].num \in Nat
  BY <1>1, NumberOfToken
<1>3. QED BY <1>1, <1>2, FormOfAddress DEF Areas, DataSizes

\* The position of a bit is a byte and a bit of it.
LEMMA BitPositionIsValid ==
  ASSUME NEW s \in Seq(Token), NEW p \in BitPosition(s)
  PROVE  p.startByte \in Nat /\ p.startBit \in 0..7
<1>1. CASE /\ Len(s) = 3 /\ IsDigits(s[1]) /\ s[2] = Dot
           /\ IsDigits(s[3]) /\ s[3].num \in DecimalDigits /\ s[3].num \in 0..7
  <2>1. p = [startByte |-> s[1].num, startBit |-> s[3].num]
    BY <1>1 DEF BitPosition
  <2>2. QED BY <1>1, <2>1, NumberOfToken
<1>2. CASE /\ Len(s) = 2 /\ s[1] = Dot
           /\ IsDigits(s[2]) /\ s[2].num \in DecimalDigits /\ s[2].num \in 0..7
  <2>1. p = [startByte |-> 0, startBit |-> s[2].num]
    BY <1>2 DEF BitPosition
  <2>2. QED BY <1>2, <2>1
<1>3. QED BY <1>1, <1>2 DEF BitPosition

\* What follows the area gives a valid address in it.
LEMMA SizeAndPositionIsValid ==
  ASSUME NEW area \in {"db", "flags", "inputs", "outputs"}, NEW areaNumber \in Nat,
         area # "db" => areaNumber = 0,
         NEW s \in Seq(Token), NEW a \in SizeAndPosition(area, areaNumber, s)
  PROVE  IsAddress(a)
<1> DEFINE dataSize == StringToDataSize(s[1].sym, area = "db")
           position == IF dataSize = {} THEN s ELSE Rest(s, 1)
           isBit == dataSize = {"bit"} \/ (dataSize = {} /\ area # "db" /\ IsDigits(s[1]))
<1>1. s # <<>> /\ Len(s) >= 1
  BY DEF SizeAndPosition
<1>2. position \in Seq(Token)
  BY <1>1, RestOfText
<1>3. dataSize \subseteq DataSizes /\ (dataSize # {"bit"} => "bit" \notin dataSize)
  BY DEF StringToDataSize, DataSizes
<1>4. CASE isBit
  <2>1. PICK p \in BitPosition(position) :
          a = ByteAddress(area, areaNumber, "bit", p.startByte, p.startBit)
    BY <1>1, <1>4 DEF SizeAndPosition, ByteAddress
  <2>2. p.startByte \in Nat /\ p.startBit \in 0..7
    BY <1>2, <2>1, BitPositionIsValid
  <2>3. QED BY <2>1, <2>2, FormOfAddress DEF Areas, DataSizes
<1>5. CASE ~isBit
  <2>1. PICK d \in dataSize :
          Len(position) = 1 /\ a = ByteAddress(area, areaNumber, d, position[1].num, 0)
    BY <1>1, <1>5 DEF SizeAndPosition, ByteAddress
  <2>2. position[1].num \in Nat
    BY <1>2, <2>1, NumberOfToken
  <2>3. QED BY <1>3, <2>1, <2>2, FormOfAddress DEF Areas
<1>6. QED BY <1>4, <1>5

\* What follows "DB" gives a valid address in a data block.
LEMMA DataBlockIsValid ==
  ASSUME NEW s \in Seq(Token), NEW a \in DataBlock(s)
  PROVE  IsAddress(a)
<1>1. Len(s) >= 4 /\ a \in SizeAndPosition("db", s[1].num, Rest(s, 4))
  BY DEF DataBlock
<1>2. Rest(s, 4) \in Seq(Token) /\ s[1].num \in Nat
  BY <1>1, RestOfText, NumberOfToken
<1>3. QED BY <1>1, <1>2, SizeAndPositionIsValid

\* The area of a text is one of the six.
LEMMA AreaOfText ==
  ASSUME NEW s \in Seq(Token), NEW area \in StringToArea(s)
  PROVE  /\ area \in Areas
         /\ Len(s) >= 1
         /\ area = "db" => StartsWithDB(s) /\ Len(s) >= 2
<1>1. CASE StartsWithDB(s)
  BY <1>1 DEF StringToArea, Areas, StartsWithDB
<1>2. CASE ~StartsWithDB(s)
  BY <1>2 DEF StringToArea, Areas, AreaOfLetter
<1>3. QED BY <1>1, <1>2

\* Whatever create accepts as a text is a valid address.
THEOREM ParsedTextIsValid ==
  ASSUME NEW s \in Seq(Token), NEW a \in Parse(s)
  PROVE  IsAddress(a)
<1>1. PICK area \in StringToArea(s) :
        a \in CASE area = "db" -> DataBlock(Rest(s, 2))
                [] area \in {"timer", "counter"} -> TimerOrCounter(area, Rest(s, 1))
                [] OTHER -> SizeAndPosition(area, 0, Rest(s, 1))
  BY DEF Parse
<1>2. area \in Areas /\ Len(s) >= 1 /\ (area = "db" => Len(s) >= 2)
  BY AreaOfText
<1>3. CASE area = "db"
  <2>1. a \in DataBlock(Rest(s, 2)) /\ Rest(s, 2) \in Seq(Token)
    BY <1>1, <1>2, <1>3, RestOfText
  <2>2. QED BY <2>1, DataBlockIsValid
<1>4. CASE area \in {"timer", "counter"}
  <2>1. a \in TimerOrCounter(area, Rest(s, 1)) /\ Rest(s, 1) \in Seq(Token)
    BY <1>1, <1>2, <1>4, RestOfText
  <2>2. QED BY <1>4, <2>1, TimerOrCounterIsValid
<1>5. CASE area \in {"flags", "inputs", "outputs"}
  <2>1. a \in SizeAndPosition(area, 0, Rest(s, 1)) /\ Rest(s, 1) \in Seq(Token)
    BY <1>1, <1>2, <1>5, RestOfText
  <2>2. QED BY <1>5, <2>1, SizeAndPositionIsValid
<1>6. QED BY <1>2, <1>3, <1>4, <1>5 DEF Areas

\* An address is unique: a text has at most one meaning.
LEMMA AtMostOneAddress ==
  ASSUME NEW s \in Seq(Token), NEW a \in Parse(s)
  PROVE  Parse(s) = {a}
<1>1. ASSUME NEW area \in StringToArea(s) PROVE StringToArea(s) = {area}
  BY <1>1 DEF StringToArea, AreaOfLetter
<1>2. ASSUME NEW r PROVE \A p, q \in BitPosition(r) : p = q
  BY DEF BitPosition
<1>3. ASSUME NEW r, NEW area \in {"timer", "counter"}
      PROVE  \A p, q \in TimerOrCounter(area, r) : p = q
  BY DEF TimerOrCounter
<1>4. ASSUME NEW r, NEW area, NEW n
      PROVE  \A p, q \in SizeAndPosition(area, n, r) : p = q
  <2> DEFINE dataSize == StringToDataSize(r[1].sym, area = "db")
             position == IF dataSize = {} THEN r ELSE Rest(r, 1)
             isBit == dataSize = {"bit"} \/ (dataSize = {} /\ area # "db" /\ IsDigits(r[1]))
  <2>1. \A d, e \in dataSize : d = e
    BY DEF StringToDataSize
  <2>2. \A p, q \in BitPosition(position) : p = q
    BY <1>2
  <2>3. CASE r = <<>>
    BY <2>3 DEF SizeAndPosition
  <2>4. CASE r # <<>> /\ isBit
    <3>1. SizeAndPosition(area, n, r) =
            {ByteAddress(area, n, "bit", p.startByte, p.startBit) : p \in BitPosition(position)}
      BY <2>4 DEF SizeAndPosition, ByteAddress
    <3> HIDE DEF position
    <3>2. QED BY <2>2, <3>1
  <2>5. CASE r # <<>> /\ ~isBit
    <3>1. SizeAndPosition(area, n, r) \subseteq {ByteAddress(area, n, d, position[1].num, 0) : d \in dataSize}
      BY <2>5 DEF SizeAndPosition, ByteAddress
    <3> HIDE DEF position, dataSize
    <3>2. QED BY <2>1, <3>1
  <2>6. QED BY <2>3, <2>4, <2>5
<1>5. ASSUME NEW r PROVE \A p, q \in DataBlock(r) : p = q
  BY <1>4 DEF DataBlock
<1>6. QED BY <1>1, <1>3, <1>4, <1>5 DEF Parse

------------------------------------------------------------------------------
(***************************************************************************)
(* The canonical form of an address is parsed to the same address.         *)
(***************************************************************************)
\* Letters and natural numbers are tokens, and differ.
LEMMA TokensDiffer ==
  /\ \A c \in Letters \union {"."} : Letter(c) \in Token /\ Letter(c).sym = c /\ ~IsDigits(Letter(c))
  /\ \A n \in Nat : Digits(n) \in Token /\ Digits(n).num = n /\ IsDigits(Digits(n))
  /\ Dot \in Token /\ ~IsDigits(Dot) /\ Dot.sym = "."
BY DEF Letter, Digits, Dot, Token, IsDigits, Letters

\* The letter of an area.
LetterOf == [flags |-> "F", inputs |-> "I", outputs |-> "Q", timer |-> "T", counter |-> "C"]
\* The letter of a type of memory.
LetterOfSize == [bit |-> "X", byte |-> "B", word |-> "W", dword |-> "D"]

\* An empty text after another text.
LEMMA NoMore ==
  ASSUME NEW s \in Seq(Token)
  PROVE  s \o <<>> = s
OBVIOUS

\* Texts can be joined in any order.
LEMMA ThreeTexts ==
  ASSUME NEW s \in Seq(Token), NEW t \in Seq(Token), NEW u \in Seq(Token)
  PROVE  s \o (t \o u) = (s \o t) \o u
<1>1. s \in Seq(Token) /\ t \in Seq(Token) /\ u \in Seq(Token)
  OBVIOUS
<1>2. QED BY <1>1, ConcatAssociative, SMTT(30)

\* Tokens of the parts of an address.
LEMMA TokensOfAddress ==
  ASSUME NEW a, IsAddress(a)
  PROVE  /\ Digits(a.areaNumber) \in Token /\ Digits(a.startByte) \in Token /\ Digits(a.startBit) \in Token
         /\ a.areaNumber \in Nat /\ a.startByte \in Nat /\ a.startBit \in 0..7
         /\ a.dataSize \in DataSizes /\ a.area \in Areas
BY TokensDiffer DEF IsAddress, Address

\* The canonical form of an address in a data block starts with the number of the data block.
LEMMA TextOfDataBlock ==
  ASSUME NEW n \in Token
  PROVE  LET t == AreaToString("db") \o (<<n, Dot>> \o AreaToString("db"))
         IN /\ t \in Seq(Token) /\ Len(t) = 6
            /\ t[1] = Letter("D") /\ t[2] = Letter("B") /\ t[3] = n /\ t[4] = Dot
            /\ t[5] = Letter("D") /\ t[6] = Letter("B")
<1> DEFINE p == <<Letter("D"), Letter("B")>>
           q == p \o <<n, Dot>>
           t == AreaToString("db") \o (<<n, Dot>> \o AreaToString("db"))
<1>1. /\ Letter("D") \in Token /\ Letter("B") \in Token /\ Dot \in Token
      /\ p \in Seq(Token) /\ Len(p) = 2 /\ p[1] = Letter("D") /\ p[2] = Letter("B")
  BY TokensDiffer DEF Letters
<1>2. t = q \o <<Letter("D"), Letter("B")>>
  <2>1. <<n, Dot>> \in Seq(Token)
    BY <1>1
  <2>2. QED BY <1>1, <2>1, ThreeTexts DEF AreaToString
<1>3. q = p \o <<n, Dot>>
  OBVIOUS
<1> SUFFICES /\ t \in Seq(Token) /\ Len(t) = 6
             /\ t[1] = Letter("D") /\ t[2] = Letter("B") /\ t[3] = n /\ t[4] = Dot
             /\ t[5] = Letter("D") /\ t[6] = Letter("B")
  OBVIOUS
<1> HIDE DEF t, q, p
<1>4. /\ q \in Seq(Token) /\ Len(q) = 4 /\ (\A i \in 1..2 : q[i] = p[i])
      /\ q[3] = n /\ q[4] = Dot
  <2>1. n \in Token /\ Dot \in Token /\ p \in Seq(Token)
    BY <1>1
  <2>2. /\ q \in Seq(Token) /\ Len(q) = Len(p) + 2 /\ (\A i \in 1..Len(p) : q[i] = p[i])
        /\ q[Len(p) + 1] = n /\ q[Len(p) + 2] = Dot
    BY <2>1, <1>3, TwoMore
  <2>3. QED BY <1>1, <2>2
<1>5. /\ t \in Seq(Token) /\ Len(t) = 6 /\ (\A i \in 1..4 : t[i] = q[i])
      /\ t[5] = Letter("D") /\ t[6] = Letter("B")
  <2>1. Letter("D") \in Token /\ Letter("B") \in Token /\ q \in Seq(Token)
    BY <1>1, <1>4
  <2>2. /\ t \in Seq(Token) /\ Len(t) = Len(q) + 2 /\ (\A i \in 1..Len(q) : t[i] = q[i])
        /\ t[Len(q) + 1] = Letter("D") /\ t[Len(q) + 2] = Letter("B")
    BY <2>1, <1>2, TwoMore
  <2>3. QED BY <1>4, <2>2
<1>6. QED BY <1>1, <1>4, <1>5

\* The tokens of the canonical form of an address in a data block.
LEMMA TextOfDataBlockAddress ==
  ASSUME NEW a, IsAddress(a), a.area = "db", NEW t, t = Text(a)
  PROVE  /\ t \in Seq(Token)
         /\ t[1] = Letter("D") /\ t[2] = Letter("B") /\ t[3] = Digits(a.areaNumber) /\ t[4] = Dot
         /\ t[5] = Letter("D") /\ t[6] = Letter("B")
         /\ t[7] = Letter(LetterOfSize[a.dataSize]) /\ t[8] = Digits(a.startByte)
         /\ IF a.dataSize = "bit" THEN Len(t) = 10 /\ t[9] = Dot /\ t[10] = Digits(a.startBit)
                                  ELSE Len(t) = 8
<1> DEFINE q == AreaToString("db") \o (<<Digits(a.areaNumber), Dot>> \o AreaToString("db"))
           size == Letter(LetterOfSize[a.dataSize])
           u == q \o <<size>>
           v == u \o <<Digits(a.startByte)>>
           w == v \o <<Dot, Digits(a.startBit)>>
<1>1. /\ Digits(a.areaNumber) \in Token /\ Digits(a.startByte) \in Token /\ Digits(a.startBit) \in Token
      /\ Dot \in Token /\ size \in Token
  BY TokensOfAddress, TokensDiffer DEF LetterOfSize, Letters, DataSizes
<1>2. DataSizeToString(a.dataSize, TRUE) = <<size>>
  BY TokensOfAddress DEF DataSizeToString, LetterOfSize, DataSizes
<1>3. t = IF a.dataSize = "bit" THEN w ELSE v
  <2>1. t = q \o <<size>> \o <<Digits(a.startByte)>>
              \o (IF a.dataSize = "bit" THEN <<Dot, Digits(a.startBit)>> ELSE <<>>)
    BY <1>2 DEF Text
  <2>2. v \o <<>> = v
    BY <1>1, <1>2, TextOfDataBlock, TokensOfAddress, OneMore, NoMore
  <2>3. QED BY <2>1, <2>2
<1>4. /\ q = AreaToString("db") \o (<<Digits(a.areaNumber), Dot>> \o AreaToString("db"))
      /\ u = q \o <<size>> /\ v = u \o <<Digits(a.startByte)>>
      /\ w = v \o <<Dot, Digits(a.startBit)>>
  OBVIOUS
<1> HIDE DEF q, u, v, w, size
<1>5. /\ q \in Seq(Token) /\ Len(q) = 6
      /\ q[1] = Letter("D") /\ q[2] = Letter("B") /\ q[3] = Digits(a.areaNumber) /\ q[4] = Dot
      /\ q[5] = Letter("D") /\ q[6] = Letter("B")
  BY <1>4, TokensOfAddress, TextOfDataBlock
<1>6. u \in Seq(Token) /\ Len(u) = 7 /\ (\A i \in 1..6 : u[i] = q[i]) /\ u[7] = size
  BY <1>1, <1>4, <1>5, OneMore
<1>7. v \in Seq(Token) /\ Len(v) = 8 /\ (\A i \in 1..7 : v[i] = u[i]) /\ v[8] = Digits(a.startByte)
  BY <1>1, <1>4, <1>6, OneMore
<1>8. /\ w \in Seq(Token) /\ Len(w) = 10 /\ (\A i \in 1..8 : w[i] = v[i])
      /\ w[9] = Dot /\ w[10] = Digits(a.startBit)
  <2>1. v \in Seq(Token) /\ Dot \in Token /\ Digits(a.startBit) \in Token
    BY <1>1, <1>7
  <2>2. /\ w \in Seq(Token) /\ Len(w) = Len(v) + 2 /\ (\A i \in 1..Len(v) : w[i] = v[i])
        /\ w[Len(v) + 1] = Dot /\ w[Len(v) + 2] = Digits(a.startBit)
    BY <1>4, <2>1, TwoMore
  <2>3. QED BY <1>7, <2>2
<1>9. size = Letter(LetterOfSize[a.dataSize])
  BY DEF size
<1>10. CASE a.dataSize = "bit"
  BY <1>3, <1>5, <1>6, <1>7, <1>8, <1>9, <1>10
<1>11. CASE a.dataSize # "bit"
  BY <1>3, <1>5, <1>6, <1>7, <1>9, <1>11
<1>12. QED BY <1>10, <1>11

\* The tokens of the canonical form of an address in another area.
LEMMA TextOfOtherAddress ==
  ASSUME NEW a, IsAddress(a), a.area # "db", NEW t, t = Text(a)
  PROVE  /\ t \in Seq(Token) /\ t[1] = Letter(LetterOf[a.area])
         /\ a.area \in {"timer", "counter"} => Len(t) = 2 /\ t[2] = Digits(a.startByte)
         /\ a.area \notin {"timer", "counter"} /\ a.dataSize = "bit" =>
              Len(t) = 4 /\ t[2] = Digits(a.startByte) /\ t[3] = Dot /\ t[4] = Digits(a.startBit)
         /\ a.area \notin {"timer", "counter"} /\ a.dataSize # "bit" =>
              Len(t) = 3 /\ t[2] = Letter(LetterOfSize[a.dataSize]) /\ t[3] = Digits(a.startByte)
<1> DEFINE letter == Letter(LetterOf[a.area])
           size == Letter(LetterOfSize[a.dataSize])
           p == <<letter>>
<1>1. /\ Digits(a.startByte) \in Token /\ Digits(a.startBit) \in Token
      /\ Dot \in Token /\ letter \in Token /\ size \in Token
  BY TokensOfAddress, TokensDiffer DEF LetterOf, LetterOfSize, Letters, DataSizes, Areas
<1>2. AreaToString(a.area) = p
  BY TokensOfAddress DEF AreaToString, LetterOf, Areas
<1>3. DataSizeToString(a.dataSize, FALSE) = IF a.dataSize = "bit" THEN <<>> ELSE <<size>>
  BY TokensOfAddress DEF DataSizeToString, LetterOfSize, DataSizes
<1>4. p \in Seq(Token) /\ Len(p) = 1 /\ p[1] = letter
  BY <1>1
<1> DEFINE sizes == IF a.area \in {"timer", "counter"} \/ a.dataSize = "bit" THEN <<>> ELSE <<size>>
           bits == IF a.dataSize = "bit" THEN <<Dot, Digits(a.startBit)>> ELSE <<>>
<1>5. t = p \o <<>> \o sizes \o <<Digits(a.startByte)>> \o bits
  BY <1>2, <1>3 DEF Text
<1>6. p \o <<>> = p
  BY <1>4, NoMore
<1>7. letter = Letter(LetterOf[a.area]) /\ size = Letter(LetterOfSize[a.dataSize])
  OBVIOUS
<1> HIDE DEF p, letter, size
<1>8. CASE a.area \in {"timer", "counter"} \/ a.dataSize = "bit"
  <2> DEFINE q == p \o <<Digits(a.startByte)>>
  <2>1. t = q \o bits
    BY <1>4, <1>5, <1>6, <1>8, NoMore
  <2>2. q = p \o <<Digits(a.startByte)>>
    OBVIOUS
  <2> HIDE DEF q
  <2>3. p \in Seq(Token)
    BY <1>4
  <2>4. /\ q \in Seq(Token) /\ Len(q) = Len(p) + 1 /\ (\A i \in 1..Len(p) : q[i] = p[i])
        /\ q[Len(p) + 1] = Digits(a.startByte)
    BY <1>1, <2>2, <2>3, OneMore
  <2>5. q \in Seq(Token) /\ Len(q) = 2 /\ q[1] = letter /\ q[2] = Digits(a.startByte)
    BY <1>4, <2>4
  <2>6. CASE a.dataSize # "bit"
    <3>1. t = q
      BY <2>1, <2>4, <2>6, NoMore
    <3>2. QED BY <1>7, <1>8, <2>5, <2>6, <3>1
  <2>7. CASE a.dataSize = "bit"
    <3>1. t = q \o <<Dot, Digits(a.startBit)>>
      BY <2>1, <2>7
    <3>2. /\ t \in Seq(Token) /\ Len(t) = Len(q) + 2 /\ (\A i \in 1..Len(q) : t[i] = q[i])
          /\ t[Len(q) + 1] = Dot /\ t[Len(q) + 2] = Digits(a.startBit)
      BY <1>1, <2>4, <3>1, TwoMore
    <3>3. /\ Len(t) = 4 /\ t[1] = letter /\ t[2] = Digits(a.startByte)
          /\ t[3] = Dot /\ t[4] = Digits(a.startBit)
      BY <2>5, <3>2
    <3>4. a.area \notin {"timer", "counter"}
      BY <2>7 DEF IsAddress
    <3>5. QED BY <1>7, <2>7, <3>2, <3>3, <3>4
  <2>8. QED BY <2>6, <2>7
<1>9. CASE a.area \notin {"timer", "counter"} /\ a.dataSize # "bit"
  <2> DEFINE q == p \o <<size>>
             u == q \o <<Digits(a.startByte)>>
  <2>1. p \in Seq(Token)
    BY <1>4
  <2>2. q = p \o <<size>> /\ u = q \o <<Digits(a.startByte)>> /\ t = u \o <<>>
    BY <1>5, <1>6, <1>9
  <2> HIDE DEF q, u
  <2>3. /\ q \in Seq(Token) /\ Len(q) = Len(p) + 1 /\ (\A i \in 1..Len(p) : q[i] = p[i])
        /\ q[Len(p) + 1] = size
    BY <1>1, <2>1, <2>2, OneMore
  <2>4. /\ u \in Seq(Token) /\ Len(u) = Len(q) + 1 /\ (\A i \in 1..Len(q) : u[i] = q[i])
        /\ u[Len(q) + 1] = Digits(a.startByte)
    BY <1>1, <2>2, <2>3, OneMore
  <2>5. Len(u) = 3 /\ u[1] = letter /\ u[2] = size /\ u[3] = Digits(a.startByte)
    BY <1>4, <2>3, <2>4
  <2>6. t = u
    BY <2>2, <2>4, NoMore
  <2>7. QED BY <1>7, <1>9, <2>4, <2>5, <2>6
<1>10. QED BY <1>8, <1>9

\* A byte and a bit that are written are read again.
LEMMA BitPositionOfText ==
  ASSUME NEW s \in Seq(Token), NEW n \in Nat, NEW b \in 0..7,
         Len(s) = 3, s[1] = Digits(n), s[2] = Dot, s[3] = Digits(b)
  PROVE  BitPosition(s) = {[startByte |-> n, startBit |-> b]}
<1>1. IsDigits(s[1]) /\ s[1].num = n /\ IsDigits(s[3]) /\ s[3].num = b
  BY TokensDiffer
<1>2. s[3].num \in DecimalDigits /\ s[3].num \in 0..7
  BY <1>1 DEF DecimalDigits
<1>3. QED BY <1>1, <1>2 DEF BitPosition

\* What follows the area in the canonical form.
IsCanonical(s, a) ==
  \/ /\ a.dataSize = "bit" /\ a.area = "db" /\ Len(s) = 4 /\ s[1] = Letter("X")
     /\ s[2] = Digits(a.startByte) /\ s[3] = Dot /\ s[4] = Digits(a.startBit)
  \/ /\ a.dataSize = "bit" /\ a.area # "db" /\ Len(s) = 3
     /\ s[1] = Digits(a.startByte) /\ s[2] = Dot /\ s[3] = Digits(a.startBit)
  \/ /\ a.dataSize # "bit" /\ Len(s) = 2
     /\ s[1] = Letter(LetterOfSize[a.dataSize]) /\ s[2] = Digits(a.startByte)

\* What follows the area in the canonical form is read again.
LEMMA SizeAndPositionOfText ==
  ASSUME NEW a, IsAddress(a), a.area \in {"db", "flags", "inputs", "outputs"},
         NEW s \in Seq(Token), IsCanonical(s, a)
  PROVE  SizeAndPosition(a.area, a.areaNumber, s) = {a}
<1> DEFINE area == a.area
           areaNumber == a.areaNumber
           d == a.dataSize
           n == a.startByte
           b == a.startBit
<1>1. /\ areaNumber \in Nat /\ n \in Nat /\ b \in 0..7 /\ d \in DataSizes
      /\ area \in {"db", "flags", "inputs", "outputs"}
      /\ d # "bit" => b = 0
      /\ a = ByteAddress(area, areaNumber, d, n, b)
  BY DEF IsAddress, Address, ByteAddress
<1>2. IsCanonical(s, a)
  OBVIOUS
<1>3. \/ /\ d = "bit" /\ area = "db" /\ Len(s) = 4
         /\ s[1] = Letter("X") /\ s[2] = Digits(n) /\ s[3] = Dot /\ s[4] = Digits(b)
      \/ d = "bit" /\ area # "db" /\ Len(s) = 3 /\ s[1] = Digits(n) /\ s[2] = Dot /\ s[3] = Digits(b)
      \/ d # "bit" /\ Len(s) = 2 /\ s[1] = Letter(LetterOfSize[d]) /\ s[2] = Digits(n)
  BY <1>2 DEF IsCanonical
<1> HIDE DEF area, areaNumber, d, n, b
<1> SUFFICES SizeAndPosition(area, areaNumber, s) = {ByteAddress(area, areaNumber, d, n, b)}
  BY <1>1 DEF area, areaNumber
<1> USE <1>1, <1>3
<1> DEFINE dataSize == StringToDataSize(s[1].sym, area = "db")
           isBit == dataSize = {"bit"} \/ (dataSize = {} /\ area # "db" /\ IsDigits(s[1]))
           position == IF dataSize = {} THEN s ELSE Rest(s, 1)
<1>4. s # <<>> /\ Len(s) >= 1
  OBVIOUS
<1>5. /\ Rest(s, 1) \in Seq(Token) /\ Len(Rest(s, 1)) = Len(s) - 1
      /\ Len(s) >= 1 + 1 => Rest(s, 1)[1] = s[1 + 1]
      /\ Len(s) >= 1 + 2 => Rest(s, 1)[2] = s[1 + 2]
      /\ Len(s) >= 1 + 3 => Rest(s, 1)[3] = s[1 + 3]
  BY <1>4, TokensOfRest
<1>6. CASE d = "bit"
  <2>1. isBit /\ position \in Seq(Token) /\ Len(position) = 3
           /\ position[1] = Digits(n) /\ position[2] = Dot /\ position[3] = Digits(b)
    <3>1. CASE area = "db"
      <4>1. s[1].sym = "X" /\ dataSize = {"bit"}
        BY <1>6, <3>1, TokensDiffer DEF Letters, StringToDataSize
      <4>2. position = Rest(s, 1) /\ isBit
        BY <4>1
      <4>3. Len(s) = 4 /\ s[2] = Digits(n) /\ s[3] = Dot /\ s[4] = Digits(b)
        BY <1>6, <3>1
      <4> DEFINE r == Rest(s, 1)
      <4>4. /\ r \in Seq(Token) /\ Len(r) = Len(s) - 1
            /\ Len(s) >= 2 => r[1] = s[2]
            /\ Len(s) >= 3 => r[2] = s[3]
            /\ Len(s) >= 4 => r[3] = s[4]
        BY <1>5
      <4> HIDE DEF r
      <4>5. Len(r) = 3 /\ r[1] = Digits(n) /\ r[2] = Dot /\ r[3] = Digits(b)
        BY <4>3, <4>4
      <4>6. r = position
        BY <4>2 DEF r
      <4> HIDE DEF position
      <4>7. QED BY <4>2, <4>4, <4>5, <4>6
    <3>2. CASE area # "db"
      <4>1. s[1].sym = "digits" /\ IsDigits(s[1])
        BY <1>6, <3>2 DEF Digits, IsDigits
      <4>2. dataSize = {}
        BY <4>1 DEF StringToDataSize
      <4>3. QED BY <1>6, <3>2, <4>1, <4>2
    <3>3. QED BY <3>1, <3>2
  <2>2. BitPosition(position) = {[startByte |-> n, startBit |-> b]}
    BY <2>1, BitPositionOfText
  <2>3. SizeAndPosition(area, areaNumber, s) =
          {ByteAddress(area, areaNumber, "bit", q.startByte, q.startBit) : q \in BitPosition(position)}
    BY <1>4, <2>1 DEF SizeAndPosition, ByteAddress
  <2> DEFINE bit == [startByte |-> n, startBit |-> b]
  <2>4. bit.startByte = n /\ bit.startBit = b /\ BitPosition(position) = {bit}
    BY <2>2
  <2> HIDE DEF bit, position
  <2>5. QED BY <1>6, <2>3, <2>4
<1>7. CASE d # "bit"
  <2>0. Len(s) = 2 /\ s[1] = Letter(LetterOfSize[d]) /\ s[2] = Digits(n)
    BY <1>7
  <2>1. s[1].sym = LetterOfSize[d] /\ dataSize = {d} /\ ~isBit
    BY <1>7, TokensDiffer, SMTT(30) DEF Letters, StringToDataSize, LetterOfSize, DataSizes
  <2>2. position = Rest(s, 1) /\ Len(position) = 1 /\ position[1] = Digits(n)
    <3>1. position = Rest(s, 1)
      BY <2>1
    <3>2. Len(s) = 2 /\ Len(Rest(s, 1)) = 1 /\ Rest(s, 1)[1] = s[2]
      BY <1>5, <2>0
    <3>3. QED BY <2>0, <3>1, <3>2
  <2>3. IsDigits(position[1]) /\ position[1].num = n
    BY <2>2, TokensDiffer
  <2>4. SizeAndPosition(area, areaNumber, s) =
          {ByteAddress(area, areaNumber, e, position[1].num, 0) : e \in dataSize}
    BY <1>4, <2>1, <2>2, <2>3 DEF SizeAndPosition, ByteAddress
  <2>5. QED BY <1>7, <2>1, <2>3, <2>4
<1>8. QED BY <1>6, <1>7

\* The canonical form of an address in a data block is read again.
LEMMA DataBlockOfText ==
  ASSUME NEW a, IsAddress(a), a.area = "db"
  PROVE  DataBlock(Rest(Text(a), 2)) = {a}
<1> DEFINE t == Text(a)
           s == Rest(t, 2)
           u == Rest(s, 2)
           v == Rest(s, 4)
           d == a.dataSize
<1>1. /\ t \in Seq(Token) /\ t[3] = Digits(a.areaNumber) /\ t[4] = Dot
      /\ t[5] = Letter("D") /\ t[6] = Letter("B")
      /\ t[7] = Letter(LetterOfSize[d]) /\ t[8] = Digits(a.startByte)
      /\ IF d = "bit" THEN Len(t) = 10 /\ t[9] = Dot /\ t[10] = Digits(a.startBit)
                      ELSE Len(t) = 8
  BY TextOfDataBlockAddress
<1>2. /\ a.areaNumber \in Nat /\ a.startByte \in Nat /\ a.startBit \in 0..7 /\ d \in DataSizes
      /\ d # "bit" => a.startBit = 0
  BY TokensOfAddress DEF IsAddress
<1> HIDE DEF t, d
<1>3. /\ s \in Seq(Token) /\ Len(s) = Len(t) - 2
      /\ s[1] = t[3] /\ s[2] = t[4] /\ s[3] = t[5] /\ s[4] = t[6] /\ s[5] = t[7] /\ s[6] = t[8]
      /\ Len(t) = 10 => s[7] = t[9] /\ s[8] = t[10]
  <2>1. /\ Rest(t, 2) \in Seq(Token) /\ Len(Rest(t, 2)) = Len(t) - 2
        /\ \A i \in 1..(Len(t) - 2) : Rest(t, 2)[i] = t[i + 2]
    <3>1. t \in Seq(Token) /\ 2 <= Len(t)
      BY <1>1
    <3>2. QED BY <3>1, RestOfText
  <2> HIDE DEF s
  <2>2. s \in Seq(Token) /\ Len(s) = Len(t) - 2 /\ \A i \in 1..(Len(t) - 2) : s[i] = t[i + 2]
    BY <2>1 DEF s
  <2>3. Len(t) = 10 \/ Len(t) = 8
    BY <1>1
  <2>4. s[1] = t[3] /\ s[2] = t[4] /\ s[3] = t[5] /\ s[4] = t[6] /\ s[5] = t[7] /\ s[6] = t[8]
    BY <2>2, <2>3
  <2>5. Len(t) = 10 => s[7] = t[9] /\ s[8] = t[10]
    BY <2>2
  <2>6. QED BY <2>2, <2>4, <2>5
<1>4. Len(s) >= 6 /\ Len(s) \in Nat
  BY <1>1, <1>3, SMTT(30)
<1> HIDE DEF s
<1>5. StartsWithDB(u)
  <2>1. /\ Rest(s, 2) \in Seq(Token) /\ Len(Rest(s, 2)) = Len(s) - 2
        /\ \A i \in 1..(Len(s) - 2) : Rest(s, 2)[i] = s[i + 2]
    <3>1. s \in Seq(Token) /\ 2 <= Len(s)
      BY <1>3, <1>4
    <3>2. QED BY <3>1, RestOfText
  <2> HIDE DEF u
  <2>2. Len(u) = Len(s) - 2 /\ \A i \in 1..(Len(s) - 2) : u[i] = s[i + 2]
    BY <2>1 DEF u
  <2>3. Len(u) >= 2 /\ u[1] = Letter("D") /\ u[2] = Letter("B")
    <3>1. Len(u) >= 2 /\ u[1] = s[3] /\ u[2] = s[4]
      BY <1>4, <2>2
    <3>2. QED BY <1>1, <1>3, <3>1
  <2>4. QED BY <2>3 DEF StartsWithDB, Letter
<1>6. /\ v \in Seq(Token) /\ Len(v) = Len(s) - 4 /\ v[1] = s[5] /\ v[2] = s[6]
      /\ Len(s) = 8 => v[3] = s[7] /\ v[4] = s[8]
  <2>1. /\ Rest(s, 4) \in Seq(Token) /\ Len(Rest(s, 4)) = Len(s) - 4
        /\ \A i \in 1..(Len(s) - 4) : Rest(s, 4)[i] = s[i + 4]
    <3>1. s \in Seq(Token) /\ 4 <= Len(s)
      BY <1>3, <1>4
    <3>2. QED BY <3>1, RestOfText
  <2> HIDE DEF v
  <2>2. v \in Seq(Token) /\ Len(v) = Len(s) - 4 /\ \A i \in 1..(Len(s) - 4) : v[i] = s[i + 4]
    BY <2>1 DEF v
  <2>3. QED BY <1>4, <2>2
<1>7. /\ IsDigits(s[1]) /\ ~IsDigits(s[2]) /\ s[1].num = a.areaNumber
  BY <1>1, <1>2, <1>3, TokensDiffer, SMTT(30)
<1>8. DataBlock(s) = SizeAndPosition("db", a.areaNumber, v)
  BY <1>4, <1>5, <1>7 DEF DataBlock, u, v
<1> HIDE DEF v
<1>9. SizeAndPosition("db", a.areaNumber, v) = {a}
  <2>1. CASE d = "bit"
    <3>1. /\ Len(v) = 4 /\ v[1] = Letter("X") /\ v[2] = Digits(a.startByte)
          /\ v[3] = Dot /\ v[4] = Digits(a.startBit)
      <4>1. LetterOfSize["bit"] = "X"
        BY DEF LetterOfSize
      <4>2. Len(t) = 10 /\ Len(s) = 8
        BY <1>1, <1>3, <2>1
      <4>3. QED BY <1>1, <1>3, <1>6, <2>1, <4>1, <4>2
    <3>2. IsCanonical(v, a)
      BY <2>1, <3>1 DEF IsCanonical, d
    <3>3. v \in Seq(Token)
      BY <1>6
    <3>4. QED BY <3>2, <3>3, SizeAndPositionOfText
  <2>2. CASE d # "bit"
    <3>1. Len(v) = 2 /\ v[1] = Letter(LetterOfSize[d]) /\ v[2] = Digits(a.startByte)
      BY <1>1, <1>3, <1>6, <2>2
    <3>2. IsCanonical(v, a)
      BY <2>2, <3>1 DEF IsCanonical, d
    <3>3. v \in Seq(Token)
      BY <1>6
    <3>4. QED BY <3>2, <3>3, SizeAndPositionOfText
  <2>3. QED BY <2>1, <2>2
<1>10. QED BY <1>8, <1>9 DEF s, t

\* An address that is written as a text and read again is the same address.
THEOREM WrittenAddressIsReadAgain ==
  ASSUME NEW a, IsAddress(a)
  PROVE  Parse(Text(a)) = {a}
<1> DEFINE t == Text(a)
<1>1. /\ a.startByte \in Nat /\ a.startBit \in 0..7 /\ a.dataSize \in DataSizes /\ a.area \in Areas
      /\ a.dataSize # "bit" => a.startBit = 0
      /\ a.area # "db" => a.areaNumber = 0
      /\ a.area \in {"timer", "counter"} => a.dataSize = "word"
  BY TokensOfAddress DEF IsAddress
<1>2. a = ByteAddress(a.area, a.areaNumber, a.dataSize, a.startByte, a.startBit)
  BY DEF IsAddress, Address, ByteAddress
<1>3. CASE a.area = "db"
  <2>1. Len(t) >= 2 /\ t[1] = Letter("D") /\ t[2] = Letter("B")
    <3> HIDE DEF t
    <3>1. t = Text(a)
      BY DEF t
    <3>2. QED BY <1>3, <3>1, TextOfDataBlockAddress
  <2>2. StartsWithDB(t)
    BY <2>1 DEF StartsWithDB, Letter
  <2>3. StringToArea(t) = {"db"}
    BY <2>2 DEF StringToArea
  <2> HIDE DEF t
  <2>4. Parse(t) = DataBlock(Rest(t, 2))
    BY <2>3 DEF Parse
  <2>5. QED BY <1>3, <2>4, DataBlockOfText DEF t
<1>4. CASE a.area # "db"
  <2> HIDE DEF t
  <2>1. /\ t \in Seq(Token) /\ t[1] = Letter(LetterOf[a.area])
        /\ a.area \in {"timer", "counter"} => Len(t) = 2 /\ t[2] = Digits(a.startByte)
        /\ a.area \notin {"timer", "counter"} /\ a.dataSize = "bit" =>
             Len(t) = 4 /\ t[2] = Digits(a.startByte) /\ t[3] = Dot /\ t[4] = Digits(a.startBit)
        /\ a.area \notin {"timer", "counter"} /\ a.dataSize # "bit" =>
             Len(t) = 3 /\ t[2] = Letter(LetterOfSize[a.dataSize]) /\ t[3] = Digits(a.startByte)
    BY <1>4, TextOfOtherAddress DEF t
  <2>2. Len(t) >= 1 /\ t # <<>> /\ t[1].sym = LetterOf[a.area] /\ LetterOf[a.area] \in {"F", "I", "Q", "T", "C"}
    BY <1>1, <1>4, <2>1 DEF Areas, LetterOf, Letter
  <2>3. StringToArea(t) = {a.area}
    <3>1. ~StartsWithDB(t)
      BY <2>2 DEF StartsWithDB
    <3>2. AreaOfLetter(LetterOf[a.area]) = {a.area}
      BY <1>1, <1>4 DEF AreaOfLetter, LetterOf, Areas
    <3>3. QED BY <2>2, <3>1, <3>2 DEF StringToArea
  <2> DEFINE s == Rest(t, 1)
  <2>4. /\ s \in Seq(Token) /\ Len(s) = Len(t) - 1
        /\ Len(t) >= 2 => s[1] = t[2]
        /\ Len(t) >= 3 => s[2] = t[3]
        /\ Len(t) >= 4 => s[3] = t[4]
    <3>1. /\ s \in Seq(Token) /\ Len(s) = Len(t) - 1
          /\ Len(t) >= 1 + 1 => s[1] = t[1 + 1]
          /\ Len(t) >= 1 + 2 => s[2] = t[1 + 2]
          /\ Len(t) >= 1 + 3 => s[3] = t[1 + 3]
      BY <2>1, <2>2, TokensOfRest
    <3> HIDE DEF s
    <3>2. QED BY <3>1
  <2>5. Parse(t) = IF a.area \in {"timer", "counter"} THEN TimerOrCounter(a.area, s)
                   ELSE SizeAndPosition(a.area, 0, s)
    BY <1>4, <2>3 DEF Parse
  <2> HIDE DEF s
  <2>6. CASE a.area \in {"timer", "counter"}
    <3>1. Len(s) = 1 /\ s[1] = Digits(a.startByte) /\ IsDigits(s[1]) /\ s[1].num = a.startByte
      BY <1>1, <2>1, <2>4, <2>6, TokensDiffer
    <3>2. TimerOrCounter(a.area, s) = {ByteAddress(a.area, 0, "word", a.startByte, 0)}
      BY <3>1 DEF TimerOrCounter, ByteAddress
    <3>3. QED BY <1>1, <1>2, <1>4, <2>5, <2>6, <3>2 DEF t
  <2>7. CASE a.area \notin {"timer", "counter"}
    <3>1. a.area \in {"db", "flags", "inputs", "outputs"}
      BY <1>1, <2>7 DEF Areas
    <3>2. SizeAndPosition(a.area, a.areaNumber, s) = {a}
      <4>0. s \in Seq(Token)
        BY <2>4
      <4>1. CASE a.dataSize = "bit"
        <5>1. Len(s) = 3 /\ s[1] = Digits(a.startByte) /\ s[2] = Dot /\ s[3] = Digits(a.startBit)
          BY <2>1, <2>4, <2>7, <4>1
        <5>2. IsCanonical(s, a)
          BY <1>4, <4>1, <5>1 DEF IsCanonical
        <5>3. QED BY <3>1, <4>0, <5>2, SizeAndPositionOfText
      <4>2. CASE a.dataSize # "bit"
        <5>1. Len(s) = 2 /\ s[1] = Letter(LetterOfSize[a.dataSize]) /\ s[2] = Digits(a.startByte)
          BY <2>1, <2>4, <2>7, <4>2
        <5>2. IsCanonical(s, a)
          BY <4>2, <5>1 DEF IsCanonical
        <5>3. QED BY <3>1, <4>0, <5>2, SizeAndPositionOfText
      <4>3. QED BY <4>1, <4>2
    <3>3. QED BY <1>1, <1>4, <2>5, <2>7, <3>2 DEF t
  <2>8. QED BY <2>6, <2>7
<1>5. QED BY <1>3, <1>4

------------------------------------------------------------------------------
(***************************************************************************)
(* The properties of the specification.                                    *)
(***************************************************************************)
\* The German and the English letter of an area have the same meaning.
LEMMA TranslationKeepsMeaning ==
  ASSUME NEW s \in Seq(Token), s # <<>>, s[1].sym \in DOMAIN Translation,
         NEW t, t = <<Letter(Translation[s[1].sym])>> \o Tail(s)
  PROVE  t \in Seq(Token) /\ Parse(t) = Parse(s)
<1> DEFINE c == s[1].sym
           letter == Letter(Translation[c])
           p == <<letter>>
           r == Tail(s)
<1>1. /\ c \in {"F", "I", "Q", "C", "M", "E", "A", "Z"}
      /\ Translation[c] \in {"F", "I", "Q", "C", "M", "E", "A", "Z"}
      /\ AreaOfLetter(Translation[c]) = AreaOfLetter(c)
      /\ AreaOfLetter(c) \subseteq {"flags", "inputs", "outputs", "counter"}
  BY DEF Translation, AreaOfLetter
<1>2. letter \in Token /\ letter.sym = Translation[c]
  BY <1>1, TokensDiffer DEF Letters
<1>3. p \in Seq(Token) /\ Len(p) = 1 /\ p[1] = letter
  BY <1>2
<1>4. /\ r \in Seq(Token) /\ Len(r) = Len(s) - 1
      /\ \A i \in 1..Len(r) : r[i] = s[i + 1]
  BY HeadTailProperties
<1>5. Len(s) \in Nat /\ Len(s) >= 1
  OBVIOUS
<1> HIDE DEF p, r, letter, c
<1>6. /\ t \in Seq(Token) /\ Len(t) = Len(p) + Len(r)
      /\ \A i \in 1..(Len(p) + Len(r)) : t[i] = IF i <= Len(p) THEN p[i] ELSE r[i - Len(p)]
  <2>1. t = p \o r
    BY DEF p, r, letter, c
  <2>2. p \in Seq(Token) /\ r \in Seq(Token)
    BY <1>3, <1>4
  <2>3. QED BY <2>1, <2>2, ConcatProperties
<1>7. /\ Len(t) = Len(s) /\ t[1] = letter
      /\ \A i \in 2..Len(s) : t[i] = s[i]
  BY <1>3, <1>4, <1>5, <1>6
<1>8. Rest(t, 1) = Rest(s, 1)
  <2> DEFINE u == Rest(t, 1)
             v == Rest(s, 1)
  <2>1. 1 <= Len(t) /\ 1 <= Len(s)
    BY <1>5, <1>7
  <2>2. u \in Seq(Token) /\ Len(u) = Len(t) - 1 /\ \A i \in 1..(Len(t) - 1) : u[i] = t[i + 1]
    BY <1>6, <2>1, RestOfText
  <2>3. v \in Seq(Token) /\ Len(v) = Len(s) - 1 /\ \A i \in 1..(Len(s) - 1) : v[i] = s[i + 1]
    BY <2>1, RestOfText
  <2> HIDE DEF u, v
  <2>4. Len(u) = Len(v) /\ \A i \in 1..Len(u) : u[i] = v[i]
    BY <1>5, <1>7, <2>2, <2>3
  <2>5. u = v
    BY <2>2, <2>3, <2>4, SameText
  <2>6. QED BY <2>5 DEF u, v
<1>9. StringToArea(t) = AreaOfLetter(c) /\ StringToArea(s) = AreaOfLetter(c)
  <2>1. ~StartsWithDB(t) /\ t # <<>> /\ t[1].sym = Translation[c]
    BY <1>1, <1>2, <1>5, <1>7 DEF StartsWithDB
  <2>2. ~StartsWithDB(s) /\ s[1].sym = c
    BY <1>1 DEF StartsWithDB, c
  <2>3. QED BY <1>1, <2>1, <2>2 DEF StringToArea
<1>10. ASSUME NEW area \in AreaOfLetter(c)
       PROVE  (CASE area = "db" -> DataBlock(Rest(t, 2))
                 [] area \in {"timer", "counter"} -> TimerOrCounter(area, Rest(t, 1))
                 [] OTHER -> SizeAndPosition(area, 0, Rest(t, 1)))
            = (CASE area = "db" -> DataBlock(Rest(s, 2))
                 [] area \in {"timer", "counter"} -> TimerOrCounter(area, Rest(s, 1))
                 [] OTHER -> SizeAndPosition(area, 0, Rest(s, 1)))
  <2>1. area # "db"
    BY <1>1
  <2>2. QED BY <1>8, <2>1
<1>11. Parse(t) = Parse(s)
  BY <1>9, <1>10 DEF Parse
<1>12. QED BY <1>6, <1>11

\* PLC addresses remain texts.
PlcTextIsText == plcText \in Seq(Token)

\* A step that changes the PLC address keeps its meaning.
LEMMA PlcTextStep ==
  ASSUME PlcTextIsText, [TextNext]_textVars
  PROVE  plcText' \in Seq(Token) /\ Parse(plcText') = Parse(plcText)
<1>1. CASE WritePlcAddress
  <2>1. PICK a \in Parse(plcText) : plcText' = Text(a)
    BY <1>1 DEF WritePlcAddress
  <2>2. IsAddress(a)
    BY <2>1, ParsedTextIsValid DEF PlcTextIsText
  <2>3. plcText' \in Seq(Token) /\ Parse(plcText') = {a}
    <3>1. CASE a.area = "db"
      BY <2>1, <2>2, <3>1, TextOfDataBlockAddress, WrittenAddressIsReadAgain
    <3>2. CASE a.area # "db"
      BY <2>1, <2>2, <3>2, TextOfOtherAddress, WrittenAddressIsReadAgain
    <3>3. QED BY <3>1, <3>2
  <2>4. Parse(plcText) = {a}
    BY AtMostOneAddress DEF PlcTextIsText
  <2>5. QED BY <2>3, <2>4
<1>2. CASE TranslatePlcAddress
  BY <1>2, TranslationKeepsMeaning DEF TranslatePlcAddress, PlcTextIsText
<1>3. CASE UNCHANGED plcText
  BY <1>3 DEF PlcTextIsText
<1>4. QED
  BY <1>1, <1>2, <1>3 DEF TextNext, RemoveSpace, RewriteRecordAddress, textVars

\* The text of a PLC address stays a text.
LEMMA TextInvariant == TextSpec => []PlcTextIsText
<1>1. TextInit => PlcTextIsText
  <2>1. plcText \in PlcTexts => PlcTextIsText
    BY TextAssumption DEF PlcTextIsText
  <2>2. plcText = <<>> => PlcTextIsText
    BY EmptySeq DEF PlcTextIsText
  <2>3. QED BY <2>1, <2>2 DEF TextInit
<1>2. PlcTextIsText /\ [TextNext]_textVars => PlcTextIsText'
  BY PlcTextStep DEF PlcTextIsText
<1>3. QED BY <1>1, <1>2, PTL DEF TextSpec

\* Whatever text is parsed, the address is one that the other create accepts as numbers.
THEOREM ParsedAddressesAlwaysValid == TextSpec => []ParsedAddressesAreValid
<1>1. PlcTextIsText => ParsedAddressesAreValid
  BY ParsedTextIsValid, CreateAgrees DEF PlcTextIsText, ParsedAddressesAreValid
<1>2. QED BY <1>1, TextInvariant, PTL

\* Writing an address in its canonical form or with the letters of the other language
\* never changes its meaning.
THEOREM PlcTextAlwaysKeepsMeaning == TextSpec => PlcTextKeepsMeaning
<1>1. PlcTextIsText /\ [TextNext]_textVars => [Parse(plcText') = Parse(plcText)]_plcText
  BY PlcTextStep
<1>2. QED BY <1>1, TextInvariant, PTL DEF TextSpec, PlcTextKeepsMeaning

------------------------------------------------------------------------------
(***************************************************************************)
(* Device addresses: parts of texts, and texts without one white space.    *)
(***************************************************************************)
\* A part of a sequence, element by element.
LEMMA SubIs ==
  ASSUME NEW S, NEW s \in Seq(S), NEW a \in Nat \ {0}, NEW b \in Nat, b <= Len(s), a <= b + 1
  PROVE  /\ SubSeq(s, a, b) \in Seq(S)
         /\ Len(SubSeq(s, a, b)) = b - a + 1
         /\ \A i \in 1..(b - a + 1) : SubSeq(s, a, b)[i] = s[a + i - 1]
<1>1. \A i \in a..b : s[i] \in S
  OBVIOUS
<1>. QED
  BY <1>1, SubSeqProperties

\* A part of a part.
LEMMA SubOfSub ==
  ASSUME NEW S, NEW s \in Seq(S), NEW a \in Nat \ {0}, NEW b \in Nat, b <= Len(s), a <= b + 1,
         NEW c \in Nat \ {0}, NEW d \in Nat, d <= b - a + 1, c <= d + 1
  PROVE  SubSeq(SubSeq(s, a, b), c, d) = SubSeq(s, a + c - 1, a + d - 1)
<1>. DEFINE p == SubSeq(s, a, b)
            q == SubSeq(p, c, d)
            r == SubSeq(s, a + c - 1, a + d - 1)
<1>1. p \in Seq(S) /\ Len(p) = b - a + 1 /\ \A i \in 1..(b - a + 1) : p[i] = s[a + i - 1]
  BY SubIs
<1>2. q \in Seq(S) /\ Len(q) = d - c + 1 /\ \A i \in 1..(d - c + 1) : q[i] = p[c + i - 1]
  <2>. HIDE DEF p
  <2>. QED
    BY <1>1, SubIs
<1>3. r \in Seq(S) /\ Len(r) = d - c + 1 /\ \A i \in 1..(d - c + 1) : r[i] = s[(a + c - 1) + i - 1]
  <2>. DEFINE x == a + c - 1
              y == a + d - 1
  <2>1. x \in Nat \ {0} /\ y \in Nat /\ y <= Len(s) /\ x <= y + 1 /\ y - x + 1 = d - c + 1
    OBVIOUS
  <2>. HIDE DEF x, y
  <2>2. /\ SubSeq(s, x, y) \in Seq(S) /\ Len(SubSeq(s, x, y)) = y - x + 1
        /\ \A i \in 1..(y - x + 1) : SubSeq(s, x, y)[i] = s[x + i - 1]
    BY <2>1, SubIs
  <2>. QED
    BY <2>1, <2>2 DEF x, y
<1>. HIDE DEF p, q, r
<1>4. ASSUME NEW i \in 1..(d - c + 1) PROVE q[i] = r[i]
  <2>1. c + i - 1 \in 1..(b - a + 1) /\ a + (c + i - 1) - 1 = (a + c - 1) + i - 1
    OBVIOUS
  <2>. QED
    BY <1>1, <1>2, <1>3, <2>1
<1>5. q = r
  BY <1>2, <1>3, <1>4, SeqEqual
<1>. QED
  BY <1>5 DEF p, q, r

\* The sequence without its ith element.
Without(s, i) == Before(s, i) \o From(s, i + 1)

\* A sequence without its ith element.
LEMMA WithoutIs ==
  ASSUME NEW S, NEW s \in Seq(S), NEW i \in 1..Len(s)
  PROVE  /\ Without(s, i) \in Seq(S)
         /\ Len(Without(s, i)) = Len(s) - 1
         /\ \A j \in 1..(Len(s) - 1) : Without(s, i)[j] = IF j < i THEN s[j] ELSE s[j + 1]
<1>. DEFINE p == SubSeq(s, 1, i - 1)
            q == SubSeq(s, i + 1, Len(s))
<1>1. p \in Seq(S) /\ Len(p) = i - 1 /\ \A j \in 1..(i - 1) : p[j] = s[j]
  <2>1. i - 1 \in Nat /\ i - 1 <= Len(s) /\ 1 <= (i - 1) + 1 /\ (i - 1) - 1 + 1 = i - 1 /\ Len(s) \in Nat
    OBVIOUS
  <2>. QED
    BY <2>1, SubIs
<1>2. q \in Seq(S) /\ Len(q) = Len(s) - i /\ \A j \in 1..(Len(s) - i) : q[j] = s[i + j]
  <2>. DEFINE x == i + 1
              y == Len(s)
  <2>1. x \in Nat \ {0} /\ y \in Nat /\ y <= Len(s) /\ x <= y + 1 /\ y - x + 1 = Len(s) - i
    OBVIOUS
  <2>2. \A j \in Nat : x + j - 1 = i + j
    OBVIOUS
  <2>. HIDE DEF x, y
  <2>3. /\ SubSeq(s, x, y) \in Seq(S) /\ Len(SubSeq(s, x, y)) = y - x + 1
        /\ \A j \in 1..(y - x + 1) : SubSeq(s, x, y)[j] = s[x + j - 1]
    BY <2>1, SubIs
  <2>4. /\ SubSeq(s, x, y) \in Seq(S) /\ Len(SubSeq(s, x, y)) = Len(s) - i
        /\ \A j \in 1..(Len(s) - i) : SubSeq(s, x, y)[j] = s[i + j]
    <3>1. ASSUME NEW j \in 1..(Len(s) - i) PROVE SubSeq(s, x, y)[j] = s[i + j]
      <4>1. j \in 1..(y - x + 1)
        BY <2>1
      <4>2. j \in Nat
        OBVIOUS
      <4>. QED
        BY <2>2, <2>3, <4>1, <4>2
    <3>. QED
      BY <2>1, <2>3, <3>1
  <2>. QED
    BY <2>4 DEF x, y
<1>3. Without(s, i) = p \o q
  BY DEF Without, Before, From
<1>. HIDE DEF p, q
<1>4. /\ p \o q \in Seq(S) /\ Len(p \o q) = Len(p) + Len(q)
      /\ \A j \in 1..(Len(p) + Len(q)) : (p \o q)[j] = IF j <= Len(p) THEN p[j] ELSE q[j - Len(p)]
  BY <1>1, <1>2, ConcatProperties
<1>5. Len(p) + Len(q) = Len(s) - 1
  BY <1>1, <1>2
<1>6. ASSUME NEW j \in 1..(Len(s) - 1) PROVE (p \o q)[j] = IF j < i THEN s[j] ELSE s[j + 1]
  <2>1. (p \o q)[j] = IF j <= i - 1 THEN p[j] ELSE q[j - (i - 1)]
    BY <1>1, <1>4, <1>5
  <2>2. CASE j < i
    BY <1>1, <2>1, <2>2
  <2>3. CASE ~(j < i)
    <3>1. j - (i - 1) \in 1..(Len(s) - i) /\ i + (j - (i - 1)) = j + 1 /\ ~(j <= i - 1)
      BY <2>3
    <3>. QED
      BY <1>2, <2>1, <2>3, <3>1
  <2>. QED
    BY <2>2, <2>3
<1>. QED
  BY <1>3, <1>4, <1>5, <1>6

\* Parts of it: before that element, after it, or around it.
LEMMA SubOfWithout ==
  ASSUME NEW S, NEW s \in Seq(S), NEW i \in 1..Len(s),
         NEW a \in Nat \ {0}, NEW b \in Nat, b <= Len(s) - 1, a <= b + 1
  PROVE  /\ b < i => SubSeq(Without(s, i), a, b) = SubSeq(s, a, b)
         /\ a >= i => SubSeq(Without(s, i), a, b) = SubSeq(s, a + 1, b + 1)
         /\ a <= i /\ i <= b + 1 => SubSeq(Without(s, i), a, b) = Without(SubSeq(s, a, b + 1), i - a + 1)
<1>. DEFINE w == Without(s, i)
            p == SubSeq(w, a, b)
<1>0. Len(s) \in Nat
  OBVIOUS
<1>1. /\ w \in Seq(S) /\ Len(w) = Len(s) - 1
      /\ \A j \in 1..(Len(s) - 1) : w[j] = IF j < i THEN s[j] ELSE s[j + 1]
  BY WithoutIs
<1>2. p \in Seq(S) /\ Len(p) = b - a + 1 /\ \A j \in 1..(b - a + 1) : p[j] = w[a + j - 1]
  <2>. HIDE DEF w
  <2>. QED
    BY <1>0, <1>1, SubIs
<1>. HIDE DEF w, p
<1>3. ASSUME NEW j \in 1..(b - a + 1) PROVE p[j] = IF a + j - 1 < i THEN s[a + j - 1] ELSE s[a + j]
  <2>1. a + j - 1 \in 1..(Len(s) - 1) /\ (a + j - 1) + 1 = a + j
    BY <1>0
  <2>. QED
    BY <1>1, <1>2, <2>1
<1>4. ASSUME b < i PROVE p = SubSeq(s, a, b)
  <2>. DEFINE q == SubSeq(s, a, b)
  <2>1. q \in Seq(S) /\ Len(q) = b - a + 1 /\ \A j \in 1..(b - a + 1) : q[j] = s[a + j - 1]
    BY <1>0, SubIs
  <2>. HIDE DEF q
  <2>2. ASSUME NEW j \in 1..(b - a + 1) PROVE p[j] = q[j]
    <3>1. a + j - 1 < i
      BY <1>4
    <3>. QED
      BY <1>3, <2>1, <3>1
  <2>3. p = q
    BY <1>2, <2>1, <2>2, SeqEqual
  <2>. QED
    BY <2>3 DEF q
<1>5. ASSUME a >= i PROVE p = SubSeq(s, a + 1, b + 1)
  <2>. DEFINE q == SubSeq(s, a + 1, b + 1)
  <2>1. q \in Seq(S) /\ Len(q) = b - a + 1 /\ \A j \in 1..(b - a + 1) : q[j] = s[a + j]
    <3>1. /\ a + 1 \in Nat \ {0} /\ b + 1 \in Nat /\ b + 1 <= Len(s) /\ a + 1 <= (b + 1) + 1
          /\ (b + 1) - (a + 1) + 1 = b - a + 1
          /\ \A j \in Nat : (a + 1) + j - 1 = a + j
      BY <1>0
    <3>2. /\ q \in Seq(S) /\ Len(q) = (b + 1) - (a + 1) + 1
          /\ \A j \in 1..((b + 1) - (a + 1) + 1) : q[j] = s[(a + 1) + j - 1]
      BY <3>1, SubIs
    <3>. HIDE DEF q
    <3>. QED
      BY <3>1, <3>2
  <2>. HIDE DEF q
  <2>2. ASSUME NEW j \in 1..(b - a + 1) PROVE p[j] = q[j]
    <3>1. ~(a + j - 1 < i)
      BY <1>5
    <3>. QED
      BY <1>3, <2>1, <3>1
  <2>3. p = q
    BY <1>2, <2>1, <2>2, SeqEqual
  <2>. QED
    BY <2>3 DEF q
<1>6. ASSUME a <= i, i <= b + 1 PROVE p = Without(SubSeq(s, a, b + 1), i - a + 1)
  <2>. DEFINE r == SubSeq(s, a, b + 1)
              k == i - a + 1
              q == Without(r, k)
  <2>1. r \in Seq(S) /\ Len(r) = b - a + 2 /\ \A j \in 1..(b - a + 2) : r[j] = s[a + j - 1]
    <3>1. b + 1 \in Nat /\ b + 1 <= Len(s) /\ a <= (b + 1) + 1 /\ (b + 1) - a + 1 = b - a + 2
      BY <1>0
    <3>2. r \in Seq(S) /\ Len(r) = (b + 1) - a + 1 /\ \A j \in 1..((b + 1) - a + 1) : r[j] = s[a + j - 1]
      BY <3>1, SubIs
    <3>. HIDE DEF r
    <3>. QED
      BY <3>1, <3>2
  <2>. HIDE DEF r
  <2>2. k \in 1..Len(r) /\ Len(r) - 1 = b - a + 1
    BY <1>6, <2>1
  <2>3. /\ q \in Seq(S) /\ Len(q) = b - a + 1
        /\ \A j \in 1..(b - a + 1) : q[j] = IF j < k THEN r[j] ELSE r[j + 1]
    <3>. HIDE DEF k
    <3>. QED
      BY <2>1, <2>2, WithoutIs
  <2>. HIDE DEF q
  <2>4. ASSUME NEW j \in 1..(b - a + 1) PROVE p[j] = q[j]
    <3>1. /\ a + j - 1 < i <=> j < k
          /\ j \in 1..(b - a + 2) /\ j + 1 \in 1..(b - a + 2) /\ a + (j + 1) - 1 = a + j
      BY <1>0
    <3>. QED
      BY <1>3, <2>1, <2>3, <3>1
  <2>5. p = q
    BY <1>2, <2>3, <2>4, SeqEqual
  <2>. QED
    BY <2>5 DEF q, r, k
<1>. QED
  BY <1>4, <1>5, <1>6 DEF p, w

\* The least of a set of positions, and how to find it.
LEMMA LeastPosition ==
  ASSUME NEW S, S \subseteq Nat, S # {}
  PROVE  Least(S) \in S /\ \A k \in S : Least(S) <= k
<1>1. \E m \in S : \A k \in S : m <= k
  BY LeastNatural
<1>. QED
  BY <1>1 DEF Least

\* A least position is the one that Least chooses.
LEMMA LeastPositionIs ==
  ASSUME NEW S, S \subseteq Nat, NEW m \in S, \A k \in S : m <= k
  PROVE  Least(S) = m
<1>1. Least(S) \in S /\ Least(S) <= m
  BY LeastPosition
<1>2. m <= Least(S) /\ m \in Nat /\ Least(S) \in Nat
  BY <1>1
<1>. QED
  BY <1>1, <1>2

\* Where a token is found first.
LEMMA LeastPositionIn ==
  ASSUME NEW S, NEW s \in Seq(S), NEW T, Positions(s, T) # {}
  PROVE  /\ Least(Positions(s, T)) \in 1..Len(s)
         /\ s[Least(Positions(s, T))] \in T
         /\ \A k \in 1..Len(s) : s[k] \in T => Least(Positions(s, T)) <= k
<1>1. Positions(s, T) \subseteq Nat
  BY DEF Positions
<1>2. /\ Least(Positions(s, T)) \in Positions(s, T)
      /\ \A k \in Positions(s, T) : Least(Positions(s, T)) <= k
  BY <1>1, LeastPosition
<1>. QED
  BY <1>2 DEF Positions

\* A token is found there.
LEMMA LeastPositionAt ==
  ASSUME NEW S, NEW s \in Seq(S), NEW T, NEW i \in 1..Len(s), s[i] \in T,
         \A k \in 1..Len(s) : s[k] \in T => i <= k
  PROVE  Positions(s, T) # {} /\ Least(Positions(s, T)) = i
<1>1. Positions(s, T) \subseteq Nat /\ i \in Positions(s, T) /\ \A k \in Positions(s, T) : i <= k
  BY DEF Positions
<1>. QED
  BY <1>1, LeastPositionIs

\* The tokens of device addresses.
TextTokens == Words \union Punctuation \union {"space"}

\* A text of tokens without two white spaces in a row.
LEMMA RecordTextIs ==
  ASSUME NEW s
  PROVE  IsRecordText(s) <=> /\ s \in Seq(TextTokens)
                             /\ \A i \in 1..(Len(s) - 1) : s[i] # "space" \/ s[i + 1] # "space"
<1>. QED
  BY DEF IsRecordText, TextTokens

\* A part of a text is a text.
LEMMA SubIsText ==
  ASSUME NEW s, IsRecordText(s), NEW a \in Nat \ {0}, NEW b \in Nat, b <= Len(s), a <= b + 1
  PROVE  IsRecordText(SubSeq(s, a, b))
<1>. DEFINE p == SubSeq(s, a, b)
<1>1. s \in Seq(TextTokens) /\ \A i \in 1..(Len(s) - 1) : s[i] # "space" \/ s[i + 1] # "space"
  BY RecordTextIs
<1>2. p \in Seq(TextTokens) /\ Len(p) = b - a + 1 /\ \A i \in 1..(b - a + 1) : p[i] = s[a + i - 1]
  BY <1>1, SubIs
<1>. HIDE DEF p
<1>3. ASSUME NEW i \in 1..(Len(p) - 1) PROVE p[i] # "space" \/ p[i + 1] # "space"
  <2>1. /\ Len(s) \in Nat /\ i \in 1..(b - a + 1) /\ i + 1 \in 1..(b - a + 1)
        /\ a + i - 1 \in 1..(Len(s) - 1) /\ a + (i + 1) - 1 = (a + i - 1) + 1
    BY <1>1, <1>2
  <2>. QED
    BY <1>1, <1>2, <2>1
<1>4. IsRecordText(p)
  BY <1>2, <1>3, RecordTextIs
<1>. QED
  BY <1>4 DEF p

\* A text without one of its spaces is a text.
LEMMA WithoutIsText ==
  ASSUME NEW s, IsRecordText(s), NEW i \in 1..Len(s), s[i] = "space"
  PROVE  IsRecordText(Without(s, i))
<1>. DEFINE p == Without(s, i)
<1>1. s \in Seq(TextTokens) /\ \A j \in 1..(Len(s) - 1) : s[j] # "space" \/ s[j + 1] # "space"
  BY RecordTextIs
<1>2. /\ p \in Seq(TextTokens) /\ Len(p) = Len(s) - 1
      /\ \A j \in 1..(Len(s) - 1) : p[j] = IF j < i THEN s[j] ELSE s[j + 1]
  BY <1>1, WithoutIs
<1>. HIDE DEF p
<1>3. Len(s) \in Nat
  BY <1>1
<1>4. ASSUME NEW j \in 1..(Len(p) - 1) PROVE p[j] # "space" \/ p[j + 1] # "space"
  <2>1. j \in 1..(Len(s) - 1) /\ j + 1 \in 1..(Len(s) - 1) /\ (j + 1) + 1 = j + 2
    BY <1>2, <1>3
  <2>2. CASE j + 1 < i
    BY <1>1, <1>2, <2>1, <2>2
  <2>3. CASE j >= i
    <3>1. s[j + 1] # "space" \/ s[(j + 1) + 1] # "space"
      BY <1>1, <2>1
    <3>. QED
      BY <1>2, <2>1, <2>3, <3>1
  <2>4. CASE j + 1 = i
    <3>1. s[j] # "space" \/ s[j + 1] # "space"
      BY <1>1, <2>1
    <3>2. p[j] = s[j]
      BY <1>2, <2>1, <2>4
    <3>. QED
      BY <2>4, <3>1, <3>2
  <2>. QED
    BY <2>1, <2>2, <2>3, <2>4
<1>5. IsRecordText(p)
  BY <1>2, <1>4, RecordTextIs
<1>. QED
  BY <1>5 DEF p

\* No white space at the ends.
IsTrimmed(s) == s # <<>> => s[1] # "space" /\ s[Len(s)] # "space"

\* The first and the last position that Trim keeps.
TrimFirst(s) == IF s[1] = "space" THEN 2 ELSE 1
\* The last position that is left.
TrimLast(s) == IF s[Len(s)] = "space" THEN Len(s) - 1 ELSE Len(s)

\* Trimming leaves nothing of a text without other tokens.
LEMMA TrimOfNothing == Trim(<<>>) = <<>> /\ Trim(<<"space">>) = <<>> /\ TrimLeft(<<>>) = <<>>
<1>1. Trim(<<>>) = <<>> /\ TrimLeft(<<>>) = <<>>
  BY DEF Trim, TrimLeft, TrimRight
<1>2. TrimRight(<<"space">>) = <<>>
  <2>1. Before(<<"space">>, 1) = <<>>
    BY SubSeqEmpty DEF Before
  <2>2. <<"space">> # <<>> /\ Len(<<"space">>) = 1 /\ <<"space">>[1] = "space"
    OBVIOUS
  <2>. QED
    BY <2>1, <2>2 DEF TrimRight
<1>. QED
  BY <1>1, <1>2 DEF Trim, TrimLeft

\* Trim is a part of the text, unless the text is a space.
LEMMA TrimIs ==
  ASSUME NEW S, NEW s \in Seq(S), s # <<>>, s # <<"space">>
  PROVE  /\ Trim(s) = SubSeq(s, TrimFirst(s), TrimLast(s))
         /\ TrimFirst(s) \in {1, 2} /\ TrimLast(s) \in {Len(s) - 1, Len(s)}
         /\ TrimFirst(s) <= TrimLast(s) + 1 /\ Len(s) \in Nat \ {0}
         /\ s[Len(s)] = "space" /\ s[1] = "space" => Len(s) > 1
<1>1. Len(s) \in Nat \ {0} /\ s \in [1..Len(s) -> S]
  OBVIOUS
<1>2. s[Len(s)] = "space" /\ s[1] = "space" => Len(s) > 1
  <2>1. SUFFICES ASSUME Len(s) = 1, s[1] = "space" PROVE FALSE
    BY <1>1
  <2>2. <<"space">> \in Seq({"space"}) /\ Len(<<"space">>) = 1 /\ <<"space">>[1] = "space"
    OBVIOUS
  <2>3. s \in Seq({"space"})
    BY <1>1, <2>1
  <2>4. s = <<"space">>
    BY <2>1, <2>2, <2>3, SeqEqual
  <2>. QED
    BY <2>4
<1>3. /\ TrimFirst(s) \in {1, 2} /\ TrimLast(s) \in {Len(s) - 1, Len(s)}
      /\ TrimFirst(s) <= TrimLast(s) + 1
  BY <1>1, <1>2 DEF TrimFirst, TrimLast
<1>. DEFINE r == TrimRight(s)
<1>4. r \in Seq(S) /\ Len(r) = TrimLast(s) /\ r = SubSeq(s, 1, TrimLast(s))
  <2>1. CASE s[Len(s)] = "space"
    <3>1. r = SubSeq(s, 1, Len(s) - 1)
      BY <2>1 DEF TrimRight, Before
    <3>2. Len(s) - 1 \in Nat /\ (Len(s) - 1) - 1 + 1 = Len(s) - 1 /\ Len(s) - 1 <= Len(s) /\ 1 <= (Len(s) - 1) + 1
      BY <1>1
    <3>3. SubSeq(s, 1, Len(s) - 1) \in Seq(S) /\ Len(SubSeq(s, 1, Len(s) - 1)) = Len(s) - 1
      BY <3>2, SubIs
    <3>4. TrimLast(s) = Len(s) - 1
      BY <2>1 DEF TrimLast
    <3>. QED
      BY <3>1, <3>3, <3>4
  <2>2. CASE s[Len(s)] # "space"
    <3>1. r = s /\ TrimLast(s) = Len(s)
      BY <2>2 DEF TrimRight, TrimLast
    <3>2. SubSeq(s, 1, Len(s)) = s
      BY SubSeqFull
    <3>. QED
      BY <3>1, <3>2
  <2>. QED
    BY <2>1, <2>2
<1>5. Trim(s) = TrimLeft(r)
  BY DEF Trim
<1>. HIDE DEF r
<1>6. Trim(s) = SubSeq(s, TrimFirst(s), TrimLast(s))
  <2>. DEFINE m == TrimLast(s)
  <2>1. m \in Nat /\ m <= Len(s) /\ 1 <= m + 1 /\ m - 1 + 1 = m /\ r = SubSeq(s, 1, m) /\ Len(r) = m
    BY <1>1, <1>3, <1>4
  <2>. HIDE DEF m
  <2>2. CASE m = 0
    <3>1. r = <<>> /\ s[1] # "space"
      <4>1. r = <<>>
        BY <1>4, <2>1, <2>2
      <4>2. s[1] # "space"
        BY <1>1, <1>2, <2>2 DEF m, TrimLast
      <4>. QED
        BY <4>1, <4>2
    <3>2. TrimFirst(s) = 1 /\ SubSeq(s, 1, 0) = <<>>
      BY <3>1, SubSeqEmpty DEF TrimFirst
    <3>3. TrimLeft(r) = <<>>
      BY <3>1, TrimOfNothing
    <3>. QED
      BY <1>5, <2>2, <3>2, <3>3 DEF m
  <2>3. CASE m # 0
    <3>1. r # <<>> /\ r[1] = s[1]
      <4>1. \A i \in 1..(m - 1 + 1) : SubSeq(s, 1, m)[i] = s[1 + i - 1]
        BY <2>1, SubIs
      <4>2. 1 \in 1..(m - 1 + 1) /\ 1 + 1 - 1 = 1
        BY <2>1, <2>3
      <4>3. r[1] = s[1]
        BY <2>1, <4>1, <4>2
      <4>. QED
        BY <1>4, <2>1, <2>3, <4>3
    <3>2. CASE s[1] = "space"
      <4>1. TrimLeft(r) = SubSeq(SubSeq(s, 1, m), 2, m)
        BY <2>1, <3>1, <3>2 DEF TrimLeft, From
      <4>2. SubSeq(SubSeq(s, 1, m), 2, m) = SubSeq(s, 1 + 2 - 1, 1 + m - 1)
        <5>1. 2 \in Nat \ {0} /\ m <= m - 1 + 1 /\ 2 <= m + 1 /\ 1 \in Nat \ {0}
          BY <2>1, <2>3
        <5>. QED
          BY <2>1, <5>1, SubOfSub
      <4>3. 1 + 2 - 1 = 2 /\ 1 + m - 1 = m /\ TrimFirst(s) = 2
        BY <2>1, <3>2 DEF TrimFirst
      <4>. QED
        BY <1>5, <4>1, <4>2, <4>3 DEF m
    <3>3. CASE s[1] # "space"
      BY <1>5, <2>1, <3>1, <3>3 DEF TrimLeft, TrimFirst, m
    <3>. QED
      BY <3>2, <3>3
  <2>. QED
    BY <2>2, <2>3
<1>. QED
  BY <1>1, <1>2, <1>3, <1>6

\* What is trimmed has no space at an end; nothing more is trimmed.
LEMMA TrimTrims ==
  ASSUME NEW s, IsRecordText(s)
  PROVE  IsRecordText(Trim(s)) /\ IsTrimmed(Trim(s))
<1>1. s \in Seq(TextTokens) /\ \A i \in 1..(Len(s) - 1) : s[i] # "space" \/ s[i + 1] # "space"
  BY RecordTextIs
<1>2. CASE s = <<>> \/ s = <<"space">>
  <2>1. Trim(s) = <<>>
    BY <1>2, TrimOfNothing
  <2>2. IsRecordText(<<>>)
    <3>1. <<>> \in Seq(TextTokens) /\ \A i \in 1..(0 - 1) : FALSE
      OBVIOUS
    <3>. QED
      BY <3>1 DEF IsRecordText, TextTokens
  <2>. QED
    BY <2>1, <2>2 DEF IsTrimmed
<1>3. CASE s # <<>> /\ s # <<"space">>
  <2>. DEFINE a == TrimFirst(s)
              b == TrimLast(s)
              t == SubSeq(s, a, b)
  <2>1. /\ Trim(s) = t /\ a \in {1, 2} /\ b \in {Len(s) - 1, Len(s)} /\ a <= b + 1 /\ Len(s) \in Nat \ {0}
        /\ s[Len(s)] = "space" /\ s[1] = "space" => Len(s) > 1
    BY <1>1, <1>3, TrimIs
  <2>2. (a = 1 /\ s[1] # "space") \/ (a = 2 /\ s[1] = "space")
    BY DEF TrimFirst
  <2>3. (b = Len(s) /\ s[Len(s)] # "space") \/ (b = Len(s) - 1 /\ s[Len(s)] = "space")
    BY DEF TrimLast
  <2>. HIDE DEF a, b
  <2>4. a \in Nat \ {0} /\ b \in Nat /\ b <= Len(s)
    BY <2>1
  <2>5. t \in Seq(TextTokens) /\ Len(t) = b - a + 1 /\ \A i \in 1..(b - a + 1) : t[i] = s[a + i - 1]
    BY <1>1, <2>1, <2>4, SubIs
  <2>6. IsRecordText(t)
    BY <2>1, <2>4, SubIsText
  <2>. HIDE DEF t
  <2>7. ASSUME t # <<>> PROVE t[1] # "space" /\ t[Len(t)] # "space"
    <3>1. a <= b /\ t[1] = s[a] /\ t[Len(t)] = s[b]
      <4>1. b - a + 1 \in Nat \ {0}
        BY <2>1, <2>4, <2>5, <2>7
      <4>2. 1 \in 1..(b - a + 1) /\ b - a + 1 \in 1..(b - a + 1) /\ a + 1 - 1 = a /\ a + (b - a + 1) - 1 = b
        BY <2>4, <4>1
      <4>. QED
        BY <2>4, <2>5, <4>1, <4>2
    <3>2. s[a] # "space"
      <4>1. CASE a = 1
        BY <2>2, <4>1
      <4>2. CASE a = 2 /\ s[1] = "space"
        <5>1. 2 <= Len(s)
          BY <2>4, <3>1, <4>2
        <5>2. 1 \in 1..(Len(s) - 1) /\ 1 + 1 = 2
          BY <2>1, <5>1
        <5>. QED
          BY <1>1, <4>2, <5>2
      <4>. QED
        BY <2>2, <4>1, <4>2
    <3>3. s[b] # "space"
      <4>1. CASE b = Len(s)
        BY <2>1, <2>3, <4>1
      <4>2. CASE b = Len(s) - 1 /\ s[Len(s)] = "space"
        <5>1. b \in 1..(Len(s) - 1) /\ b + 1 = Len(s)
          BY <2>1, <2>4, <3>1, <4>2
        <5>. QED
          BY <1>1, <4>2, <5>1
      <4>. QED
        BY <2>3, <4>1, <4>2
    <3>. QED
      BY <3>1, <3>2, <3>3
  <2>. QED
    BY <2>1, <2>6, <2>7 DEF IsTrimmed
<1>. QED
  BY <1>2, <1>3

\* A trimmed text stays as it is.
LEMMA TrimOfTrimmed ==
  ASSUME NEW S, NEW s \in Seq(S), IsTrimmed(s)
  PROVE  Trim(s) = s
<1>1. CASE s = <<>>
  BY <1>1, TrimOfNothing
<1>2. CASE s # <<>>
  <2>1. s[1] # "space" /\ s[Len(s)] # "space"
    BY <1>2 DEF IsTrimmed
  <2>2. TrimFirst(s) = 1 /\ TrimLast(s) = Len(s) /\ s # <<"space">>
    BY <2>1 DEF TrimFirst, TrimLast
  <2>. QED
    BY <1>2, <2>2, TrimIs, SubSeqFull
<1>. QED
  BY <1>1, <1>2

\* A space at an end is not seen.
LEMMA TrimWithoutEnd ==
  ASSUME NEW s, IsRecordText(s), NEW i \in 1..Len(s), s[i] = "space", i = 1 \/ i = Len(s)
  PROVE  Trim(Without(s, i)) = Trim(s)
<1>. DEFINE w == Without(s, i)
<1>1. s \in Seq(TextTokens) /\ \A j \in 1..(Len(s) - 1) : s[j] # "space" \/ s[j + 1] # "space"
  BY RecordTextIs
<1>2. /\ w \in Seq(TextTokens) /\ Len(w) = Len(s) - 1
      /\ \A j \in 1..(Len(s) - 1) : w[j] = IF j < i THEN s[j] ELSE s[j + 1]
  BY <1>1, WithoutIs
<1>3. s # <<>> /\ Len(s) \in Nat \ {0}
  BY <1>1
<1>4. CASE s = <<"space">>
  <2>1. Len(s) = 1
    BY <1>4
  <2>2. w = <<>>
    <3>. HIDE DEF w
    <3>. QED
      BY <1>2, <2>1
  <2>. QED
    BY <1>4, <2>2, TrimOfNothing
<1>5. CASE s # <<"space">>
  <2>. DEFINE a == TrimFirst(s)
              b == TrimLast(s)
  <2>1. /\ Trim(s) = SubSeq(s, a, b) /\ a \in {1, 2} /\ b \in {Len(s) - 1, Len(s)} /\ a <= b + 1
        /\ s[Len(s)] = "space" /\ s[1] = "space" => Len(s) > 1
    BY <1>1, <1>3, <1>5, TrimIs
  <2>2. Len(s) > 1
    <3>1. SUFFICES ASSUME Len(s) = 1 PROVE FALSE
      BY <1>3
    <3>. QED
      BY <2>1, <3>1
  <2>3. (a = 1 /\ s[1] # "space") \/ (a = 2 /\ s[1] = "space")
    BY DEF TrimFirst
  <2>4. (b = Len(s) /\ s[Len(s)] # "space") \/ (b = Len(s) - 1 /\ s[Len(s)] = "space")
    BY DEF TrimLast
  <2>. HIDE DEF a, b, w
  <2>5. w # <<>> /\ Len(w) = Len(s) - 1
    BY <1>2, <1>3, <2>2
  <2>6. CASE i = 1
    <3>1. a = 2 /\ s[2] # "space" /\ w[1] = s[2]
      <4>1. 1 \in 1..(Len(s) - 1) /\ 1 + 1 = 2
        BY <1>3, <2>2
      <4>. QED
        BY <1>1, <1>2, <2>3, <2>6, <4>1
    <3>2. w[Len(w)] = s[Len(s)]
      <4>1. Len(s) - 1 \in 1..(Len(s) - 1) /\ (Len(s) - 1) + 1 = Len(s) /\ ~(Len(s) - 1 < i)
        BY <1>3, <2>2, <2>6
      <4>. QED
        BY <1>2, <2>5, <4>1
    <3>3. TrimFirst(w) = 1 /\ TrimLast(w) = b - 1
      <4>1. TrimFirst(w) = 1
        BY <3>1 DEF TrimFirst
      <4>2. TrimLast(w) = IF s[Len(s)] = "space" THEN (Len(s) - 1) - 1 ELSE Len(s) - 1
        BY <2>5, <3>2 DEF TrimLast
      <4>. QED
        BY <1>3, <2>4, <4>1, <4>2
    <3>4. Trim(w) = SubSeq(w, 1, b - 1)
      <4>1. w # <<"space">>
        BY <3>1
      <4>. QED
        BY <1>2, <2>5, <3>3, <4>1, TrimIs
    <3>5. SubSeq(w, 1, b - 1) = SubSeq(s, 1 + 1, (b - 1) + 1)
      <4>1. b - 1 \in Nat /\ b - 1 <= Len(s) - 1 /\ 1 <= (b - 1) + 1 /\ 1 >= i /\ 1 \in Nat \ {0}
        BY <1>3, <2>1, <2>2, <2>6
      <4>. QED
        BY <1>1, <4>1, SubOfWithout DEF w
    <3>6. 1 + 1 = 2 /\ (b - 1) + 1 = b
      BY <1>3, <2>1
    <3>. QED
      BY <2>1, <3>1, <3>4, <3>5, <3>6 DEF w
  <2>7. CASE i = Len(s)
    <3>1. b = Len(s) - 1 /\ s[Len(s) - 1] # "space"
      <4>1. Len(s) - 1 \in 1..(Len(s) - 1) /\ (Len(s) - 1) + 1 = Len(s)
        BY <1>3, <2>2
      <4>. QED
        BY <1>1, <2>4, <2>7, <4>1
    <3>2. w[Len(w)] = s[Len(s) - 1] /\ w[1] = s[1]
      <4>1. Len(s) - 1 \in 1..(Len(s) - 1) /\ Len(s) - 1 < i /\ 1 \in 1..(Len(s) - 1) /\ 1 < i
        BY <1>3, <2>2, <2>7
      <4>. QED
        BY <1>2, <2>5, <4>1
    <3>3. TrimFirst(w) = a /\ TrimLast(w) = b
      BY <2>3, <2>5, <3>1, <3>2 DEF TrimFirst, TrimLast
    <3>4. Trim(w) = SubSeq(w, a, b)
      <4>1. w # <<"space">>
        BY <2>5, <3>1, <3>2
      <4>. QED
        BY <1>2, <2>5, <3>3, <4>1, TrimIs
    <3>5. SubSeq(w, a, b) = SubSeq(s, a, b)
      <4>1. a \in Nat \ {0} /\ b \in Nat /\ b <= Len(s) - 1 /\ b < i
        BY <1>3, <2>1, <2>7, <3>1
      <4>. QED
        BY <1>1, <2>1, <4>1, SubOfWithout DEF w
    <3>. QED
      BY <2>1, <3>4, <3>5 DEF w
  <2>. QED
    BY <2>6, <2>7
<1>. QED
  BY <1>4, <1>5

\* A space inside stays where it is in the trimmed text.
LEMMA TrimWithoutInner ==
  ASSUME NEW s, IsRecordText(s), NEW i \in 1..Len(s), s[i] = "space", i # 1, i # Len(s)
  PROVE  /\ Trim(s) = SubSeq(s, TrimFirst(s), TrimLast(s))
         /\ TrimFirst(s) \in {1, 2} /\ TrimLast(s) \in {Len(s) - 1, Len(s)}
         /\ TrimFirst(s) < i /\ i < TrimLast(s)
         /\ Trim(Without(s, i)) = Without(Trim(s), i - TrimFirst(s) + 1)
<1>. DEFINE w == Without(s, i)
            a == TrimFirst(s)
            b == TrimLast(s)
<1>1. s \in Seq(TextTokens) /\ \A j \in 1..(Len(s) - 1) : s[j] # "space" \/ s[j + 1] # "space"
  BY RecordTextIs
<1>2. /\ w \in Seq(TextTokens) /\ Len(w) = Len(s) - 1
      /\ \A j \in 1..(Len(s) - 1) : w[j] = IF j < i THEN s[j] ELSE s[j + 1]
  BY <1>1, WithoutIs
<1>3. s # <<>> /\ Len(s) \in Nat \ {0} /\ i \in Nat /\ 1 < i /\ i < Len(s) /\ Len(s) # 1
  BY <1>1
<1>0. Len(s) \in Nat /\ i \in Nat /\ 1 < i /\ i < Len(s)
  BY <1>3
<1>4. Trim(s) = SubSeq(s, a, b) /\ a \in {1, 2} /\ b \in {Len(s) - 1, Len(s)}
  <2>1. s # <<"space">>
    BY <1>3
  <2>. QED
    BY <1>1, <1>3, <2>1, TrimIs
<1>5. (a = 1 /\ s[1] # "space") \/ (a = 2 /\ s[1] = "space")
  BY DEF TrimFirst
<1>6. (b = Len(s) /\ s[Len(s)] # "space") \/ (b = Len(s) - 1 /\ s[Len(s)] = "space")
  BY DEF TrimLast
<1>. HIDE DEF a, b, w
<1>7. s[i - 1] # "space" /\ s[i + 1] # "space"
  <2>1. i - 1 \in 1..(Len(s) - 1) /\ (i - 1) + 1 = i /\ i \in 1..(Len(s) - 1)
    BY <1>3
  <2>. QED
    BY <1>1, <2>1
<1>8. a < i /\ i < b
  <2>1. a # i
    BY <1>3, <1>5, <1>7
  <2>2. b # i
    <3>1. b = i => i + 1 = Len(s) /\ s[Len(s)] = "space"
      BY <1>3, <1>6
    <3>. QED
      BY <1>7, <3>1
  <2>. QED
    BY <1>3, <1>4, <2>1, <2>2
<1>9. w # <<>> /\ Len(w) = Len(s) - 1 /\ w[1] = s[1] /\ w[Len(w)] = s[Len(s)]
  <2>1. /\ 1 \in 1..(Len(s) - 1) /\ Len(s) - 1 \in 1..(Len(s) - 1) /\ ~(Len(s) - 1 < i)
        /\ (Len(s) - 1) + 1 = Len(s)
    BY <1>3
  <2>. QED
    BY <1>2, <1>3, <2>1
<1>10. TrimFirst(w) = a /\ TrimLast(w) = b - 1
  <2>1. TrimFirst(w) = a
    BY <1>9 DEF TrimFirst, a
  <2>2. TrimLast(w) = IF s[Len(s)] = "space" THEN (Len(s) - 1) - 1 ELSE Len(s) - 1
    BY <1>9 DEF TrimLast
  <2>. QED
    BY <1>3, <1>6, <2>1, <2>2
<1>11. Trim(w) = SubSeq(w, a, b - 1)
  <2>1. w # <<"space">>
    <3>1. Len(s) - 1 # 1
      <4>1. ASSUME NEW n \in Nat, NEW j \in Nat, 1 < j, j < n PROVE n - 1 # 1
        BY <4>1
      <4>. QED
        BY <1>0, <4>1
    <3>2. Len(w) # 1
      BY <1>9, <3>1
    <3>. QED
      BY <3>2
  <2>. QED
    BY <1>2, <1>9, <1>10, <2>1, TrimIs
<1>12. SubSeq(w, a, b - 1) = Without(SubSeq(s, a, (b - 1) + 1), i - a + 1)
  <2>1. /\ a \in Nat \ {0} /\ b - 1 \in Nat /\ b - 1 <= Len(s) - 1 /\ a <= (b - 1) + 1 /\ a <= i
        /\ i <= (b - 1) + 1
    <3>1. a \in Nat \ {0} /\ b \in Nat /\ b <= Len(s)
      <4>1. a \in {1, 2} /\ b \in {Len(s) - 1, Len(s)}
        BY <1>4
      <4>. QED
        BY <1>0, <4>1
    <3>. QED
      BY <1>3, <1>8, <3>1
  <2>. QED
    BY <1>1, <2>1, SubOfWithout, SMTT(30) DEF w
<1>13. (b - 1) + 1 = b
  BY <1>3, <1>4
<1>14. Trim(w) = Without(Trim(s), i - a + 1)
  BY <1>4, <1>11, <1>12, <1>13
<1>. QED
  BY <1>4, <1>8, <1>14 DEF a, b, w

------------------------------------------------------------------------------
(***************************************************************************)
(* Device addresses: the parameters in a list.                             *)
(***************************************************************************)
\* The "=" between the name and the value of a parameter.
FirstEquals(s, i) == i \in 1..Len(s) /\ s[i] = "=" /\ \A j \in 1..(i - 1) : s[j] # "="

\* ParameterOf, for a text with a first "=" and for one without.
LEMMA ParameterOfIs ==
  ASSUME NEW S, NEW s \in Seq(S)
  PROVE  /\ (\A j \in 1..Len(s) : s[j] # "=") => ParameterOf(s) = [name |-> Trim(s), value |-> {}]
         /\ \A e : FirstEquals(s, e) =>
              ParameterOf(s) = [name |-> Trim(Before(s, e)), value |-> {Trim(From(s, e + 1))}]
         /\ (\A j \in 1..Len(s) : s[j] # "=") \/ \E e : FirstEquals(s, e)
<1>1. DOMAIN s = 1..Len(s) /\ Len(s) \in Nat
  OBVIOUS
<1>2. ASSUME \A j \in 1..Len(s) : s[j] # "=" PROVE ParameterOf(s) = [name |-> Trim(s), value |-> {}]
  <2>1. Positions(s, {"="}) = {}
    BY <1>1, <1>2 DEF Positions
  <2>. QED
    BY <2>1 DEF ParameterOf
<1>3. ASSUME NEW e, FirstEquals(s, e)
      PROVE  ParameterOf(s) = [name |-> Trim(Before(s, e)), value |-> {Trim(From(s, e + 1))}]
  <2>1. e \in 1..Len(s) /\ s[e] \in {"="} /\ \A k \in 1..Len(s) : s[k] \in {"="} => e <= k
    BY <1>1, <1>3 DEF FirstEquals
  <2>2. Positions(s, {"="}) # {} /\ Least(Positions(s, {"="})) = e
    BY <2>1, LeastPositionAt
  <2>. QED
    BY <2>2 DEF ParameterOf
<1>4. ASSUME NEW j \in 1..Len(s), s[j] = "=" PROVE \E e : FirstEquals(s, e)
  <2>. DEFINE e == Least(Positions(s, {"="}))
  <2>1. Positions(s, {"="}) # {}
    BY <1>1, <1>4 DEF Positions
  <2>2. e \in 1..Len(s) /\ s[e] \in {"="} /\ \A k \in 1..Len(s) : s[k] \in {"="} => e <= k
    BY <2>1, LeastPositionIn
  <2>. HIDE DEF e
  <2>3. FirstEquals(s, e)
    BY <1>1, <2>2 DEF FirstEquals
  <2>. QED
    BY <2>3
<1>. QED
  BY <1>2, <1>3, <1>4

\* A space at an end of a parameter or next to its "=" is not seen.
LEMMA ParameterWithoutSpace ==
  ASSUME NEW s, IsRecordText(s), NEW i \in 1..Len(s), s[i] = "space",
         i = 1 \/ i = Len(s) \/ FirstEquals(s, i - 1) \/ FirstEquals(s, i + 1)
  PROVE  ParameterOf(Without(s, i)) = ParameterOf(s)
<1>. DEFINE w == Without(s, i)
<1>1. s \in Seq(TextTokens) /\ Len(s) \in Nat
  BY RecordTextIs
<1>2. /\ w \in Seq(TextTokens) /\ Len(w) = Len(s) - 1
      /\ \A j \in 1..(Len(s) - 1) : w[j] = IF j < i THEN s[j] ELSE s[j + 1]
  BY <1>1, WithoutIs
<1>3. CASE \A j \in 1..Len(s) : s[j] # "="
  <2>1. \A j \in 1..Len(w) : w[j] # "="
    <3>. HIDE DEF w
    <3>1. ASSUME NEW j \in 1..(Len(s) - 1) PROVE w[j] # "="
      <4>1. j \in 1..Len(s) /\ j + 1 \in 1..Len(s)
        BY <1>1
      <4>. QED
        BY <1>2, <1>3, <4>1
    <3>. QED
      BY <1>2, <3>1
  <2>2. i = 1 \/ i = Len(s)
    BY <1>3 DEF FirstEquals
  <2>3. Trim(w) = Trim(s)
    BY <2>2, TrimWithoutEnd
  <2>4. ParameterOf(w) = [name |-> Trim(w), value |-> {}]
    <3>. HIDE DEF w
    <3>. QED
      BY <1>2, <2>1, ParameterOfIs
  <2>5. ParameterOf(s) = [name |-> Trim(s), value |-> {}]
    BY <1>1, <1>3, ParameterOfIs
  <2>. QED
    BY <2>3, <2>4, <2>5
<1>4. ASSUME NEW e, FirstEquals(s, e) PROVE ParameterOf(w) = ParameterOf(s)
  <2>1. e \in 1..Len(s) /\ s[e] = "=" /\ e # i /\ \A j \in 1..(e - 1) : s[j] # "="
    BY <1>4 DEF FirstEquals
  <2>2. ParameterOf(s) = [name |-> Trim(Before(s, e)), value |-> {Trim(From(s, e + 1))}]
    BY <1>1, <1>4, ParameterOfIs
  <2>3. \A m : FirstEquals(s, m) => m = e
    BY <1>1, <1>4 DEF FirstEquals
  <2>4. i = 1 \/ i = Len(s) \/ i = e - 1 \/ i = e + 1
    <3>1. FirstEquals(s, i - 1) => i - 1 = e
      BY <2>3
    <3>2. FirstEquals(s, i + 1) => i + 1 = e
      BY <2>3
    <3>. QED
      BY <1>1, <2>1, <3>1, <3>2
  <2>5. CASE i < e
    <3>1. FirstEquals(w, e - 1)
      <4>. HIDE DEF w
      <4>1. e - 1 \in 1..(Len(s) - 1) /\ (e - 1) + 1 = e
        BY <1>1, <2>1, <2>5
      <4>2. w[e - 1] = "="
        BY <1>2, <2>1, <2>5, <4>1
      <4>3. ASSUME NEW j \in 1..((e - 1) - 1) PROVE w[j] # "="
        <5>1. j \in 1..(Len(s) - 1) /\ j \in 1..(e - 1) /\ j + 1 \in 1..(e - 1)
          BY <1>1, <2>1
        <5>. QED
          BY <1>2, <2>1, <5>1
      <4>. QED
        BY <1>2, <4>1, <4>2, <4>3 DEF FirstEquals
    <3>2. ParameterOf(w) = [name |-> Trim(Before(w, e - 1)), value |-> {Trim(From(w, (e - 1) + 1))}]
      <4>. HIDE DEF w
      <4>. QED
        BY <1>2, <3>1, ParameterOfIs
    <3>3. From(w, (e - 1) + 1) = From(s, e + 1)
      <4>1. /\ (e - 1) + 1 = e /\ e \in Nat \ {0} /\ Len(s) - 1 \in Nat /\ e >= i
            /\ Len(s) - 1 <= Len(s) - 1 /\ e <= (Len(s) - 1) + 1 /\ (Len(s) - 1) + 1 = Len(s)
        BY <1>1, <2>1, <2>5
      <4>2. SubSeq(w, e, Len(s) - 1) = SubSeq(s, e + 1, (Len(s) - 1) + 1)
        BY <1>1, <4>1, SubOfWithout
      <4>. HIDE DEF w
      <4>. QED
        BY <1>2, <4>1, <4>2 DEF From
    <3>4. Before(w, e - 1) = Without(Before(s, e), i)
      <4>1. /\ 1 \in Nat \ {0} /\ e - 2 \in Nat /\ e - 2 <= Len(s) - 1 /\ 1 <= (e - 2) + 1 /\ 1 <= i
            /\ i <= (e - 2) + 1 /\ (e - 2) + 1 = e - 1 /\ i - 1 + 1 = i /\ (e - 1) - 1 = e - 2
        BY <1>1, <2>1, <2>5
      <4>2. SubSeq(w, 1, e - 2) = Without(SubSeq(s, 1, (e - 2) + 1), i - 1 + 1)
        BY <1>1, <4>1, SubOfWithout
      <4>. HIDE DEF w
      <4>. QED
        BY <4>1, <4>2 DEF Before
    <3>5. Trim(Without(Before(s, e), i)) = Trim(Before(s, e))
      <4>. DEFINE p == Before(s, e)
      <4>1. e - 1 \in Nat /\ e - 1 <= Len(s) /\ 1 <= (e - 1) + 1 /\ (e - 1) - 1 + 1 = e - 1
        BY <1>1, <2>1
      <4>2. IsRecordText(p)
        BY <4>1, SubIsText DEF Before
      <4>3. Len(p) = e - 1 /\ \A j \in 1..(e - 1) : p[j] = s[1 + j - 1]
        <5>1. /\ Len(SubSeq(s, 1, e - 1)) = (e - 1) - 1 + 1
              /\ \A j \in 1..((e - 1) - 1 + 1) : SubSeq(s, 1, e - 1)[j] = s[1 + j - 1]
          BY <1>1, <4>1, SubIs
        <5>. QED
          BY <4>1, <5>1 DEF Before
      <4>. HIDE DEF p
      <4>4. i \in 1..Len(p) /\ p[i] = "space" /\ (i = 1 \/ i = Len(p))
        <5>1. i \in 1..(e - 1) /\ 1 + i - 1 = i
          BY <1>1, <2>1, <2>5
        <5>2. i = 1 \/ i = e - 1
          BY <1>1, <2>1, <2>4, <2>5
        <5>. QED
          BY <4>3, <5>1, <5>2
      <4>5. Trim(Without(p, i)) = Trim(p)
        BY <4>2, <4>4, TrimWithoutEnd
      <4>. QED
        BY <4>5 DEF p
    <3>. QED
      BY <2>2, <3>2, <3>3, <3>4, <3>5
  <2>6. CASE i > e
    <3>1. FirstEquals(w, e)
      <4>. HIDE DEF w
      <4>1. e \in 1..(Len(s) - 1)
        BY <1>1, <2>1, <2>6
      <4>2. w[e] = "="
        BY <1>2, <2>1, <2>6, <4>1
      <4>3. ASSUME NEW j \in 1..(e - 1) PROVE w[j] # "="
        <5>1. j \in 1..(Len(s) - 1) /\ j < i
          BY <1>1, <2>1, <2>6
        <5>. QED
          BY <1>2, <2>1, <5>1
      <4>. QED
        BY <1>2, <4>1, <4>2, <4>3 DEF FirstEquals
    <3>2. ParameterOf(w) = [name |-> Trim(Before(w, e)), value |-> {Trim(From(w, e + 1))}]
      <4>. HIDE DEF w
      <4>. QED
        BY <1>2, <3>1, ParameterOfIs
    <3>3. Before(w, e) = Before(s, e)
      <4>1. /\ 1 \in Nat \ {0} /\ e - 1 \in Nat /\ e - 1 <= Len(s) - 1 /\ 1 <= (e - 1) + 1 /\ e - 1 < i
        BY <1>1, <2>1, <2>6
      <4>2. SubSeq(w, 1, e - 1) = SubSeq(s, 1, e - 1)
        BY <1>1, <4>1, SubOfWithout
      <4>. QED
        BY <4>2 DEF Before
    <3>4. From(w, e + 1) = Without(From(s, e + 1), i - e)
      <4>. DEFINE a == e + 1
                  b == Len(s) - 1
      <4>1. /\ a \in Nat \ {0} /\ b \in Nat /\ b <= Len(s) - 1 /\ a <= b + 1
            /\ a <= i /\ i <= b + 1 /\ b + 1 = Len(s) /\ i - a + 1 = i - e
        BY <1>1, <2>1, <2>6
      <4>2. From(w, e + 1) = SubSeq(w, a, b) /\ From(s, e + 1) = SubSeq(s, a, Len(s))
        <5>. HIDE DEF w
        <5>. QED
          BY <1>2 DEF From
      <4>. HIDE DEF a, b
      <4>3. SubSeq(w, a, b) = Without(SubSeq(s, a, b + 1), i - a + 1)
        BY <1>1, <4>1, SubOfWithout
      <4>. HIDE DEF w
      <4>. QED
        BY <4>1, <4>2, <4>3
    <3>5. Trim(Without(From(s, e + 1), i - e)) = Trim(From(s, e + 1))
      <4>. DEFINE p == From(s, e + 1)
                  k == i - e
                  a == e + 1
      <4>1. a \in Nat \ {0} /\ Len(s) <= Len(s) /\ a <= Len(s) + 1 /\ Len(s) - a + 1 = Len(s) - e
        BY <1>1, <2>1
      <4>. HIDE DEF a
      <4>2. IsRecordText(SubSeq(s, a, Len(s)))
        BY <1>1, <4>1, SubIsText
      <4>3. /\ Len(SubSeq(s, a, Len(s))) = Len(s) - a + 1
            /\ \A j \in 1..(Len(s) - a + 1) : SubSeq(s, a, Len(s))[j] = s[a + j - 1]
        BY <1>1, <4>1, SubIs
      <4>4. p = SubSeq(s, a, Len(s))
        BY DEF p, a, From
      <4>. HIDE DEF p
      <4>5. /\ IsRecordText(p) /\ Len(p) = Len(s) - e
            /\ \A j \in 1..(Len(s) - e) : p[j] = s[a + j - 1]
        BY <4>1, <4>2, <4>3, <4>4
      <4>6. k \in 1..Len(p) /\ p[k] = "space" /\ (k = 1 \/ k = Len(p))
        <5>1. k \in 1..(Len(s) - e) /\ a + k - 1 = i
          BY <1>1, <2>1, <2>6 DEF a
        <5>2. k = 1 \/ k = Len(s) - e
          BY <1>1, <2>1, <2>4, <2>6
        <5>. QED
          BY <4>5, <5>1, <5>2
      <4>. HIDE DEF k
      <4>7. Trim(Without(p, k)) = Trim(p)
        BY <4>5, <4>6, TrimWithoutEnd
      <4>. QED
        BY <4>7 DEF p, k
    <3>. QED
      BY <2>2, <3>2, <3>3, <3>4, <3>5
  <2>. QED
    BY <1>1, <2>1, <2>5, <2>6
<1>. QED
  BY <1>1, <1>3, <1>4, ParameterOfIs

\* A name for the separator of the parameters.
Comma == ","

\* The separator is none of the other tokens.
LEMMA CommaIs == Comma # "space" /\ Comma # "=" /\ Comma # "(" /\ Comma # ")"
BY DEF Comma

\* The positions before and after a part of a text that is split at commas.
IsListPart(s, a, b) ==
  /\ a \in 0..Len(s) /\ b \in (a + 1)..(Len(s) + 1)
  /\ (a = 0 \/ s[a] = Comma) /\ (b = Len(s) + 1 \/ s[b] = Comma)
  /\ \A i \in (a + 1)..(b - 1) : s[i] # Comma

\* SplitString finds these parts.
LEMMA PartsAre ==
  ASSUME NEW S, NEW s \in Seq(S)
  PROVE  /\ DOMAIN SplitString(s, Comma) = {0} \union {a \in 1..Len(s) : s[a] = Comma}
         /\ \A a \in DOMAIN SplitString(s, Comma) : \E b : IsListPart(s, a, b)
         /\ \A a, b : IsListPart(s, a, b) => /\ a \in DOMAIN SplitString(s, Comma)
                                         /\ SplitString(s, Comma)[a] = SubSeq(s, a + 1, b - 1)
<1>. DEFINE D == {0} \union Positions(s, {Comma})
            N(a) == {j \in Positions(s, {Comma}) : j > a} \union {Len(s) + 1}
<1>1. DOMAIN s = 1..Len(s) /\ Len(s) \in Nat
  OBVIOUS
<1>2. D = {0} \union {a \in 1..Len(s) : s[a] = Comma}
  BY <1>1 DEF Positions
<1>3. /\ DOMAIN SplitString(s, Comma) = D
      /\ \A a \in D : SplitString(s, Comma)[a] = SubSeq(s, a + 1, Least(N(a)) - 1)
  BY DEF SplitString, NextPosition
<1>. HIDE DEF D
<1>4. \A a : N(a) = {j \in 1..Len(s) : s[j] = Comma /\ j > a} \union {Len(s) + 1}
  BY <1>1 DEF Positions
<1>. HIDE DEF N
<1>5. ASSUME NEW a \in D PROVE \E b : IsListPart(s, a, b)
  <2>. DEFINE b == Least(N(a))
  <2>1. N(a) \subseteq Nat /\ N(a) # {} /\ a \in 0..Len(s) /\ (a = 0 \/ s[a] = Comma)
    <3>1. a \in 0..Len(s) /\ (a = 0 \/ s[a] = Comma)
      BY <1>1, <1>2
    <3>2. N(a) = {j \in 1..Len(s) : s[j] = Comma /\ j > a} \union {Len(s) + 1}
      BY <1>4
    <3>3. N(a) \subseteq Nat /\ N(a) # {}
      BY <1>1, <3>2
    <3>. QED
      BY <3>1, <3>3
  <2>2. b \in N(a) /\ \A k \in N(a) : b <= k
    BY <2>1, LeastPosition
  <2>. HIDE DEF b
  <2>3. b \in (a + 1)..(Len(s) + 1) /\ (b = Len(s) + 1 \/ s[b] = Comma)
    BY <1>1, <1>4, <2>1, <2>2
  <2>4. ASSUME NEW i \in (a + 1)..(b - 1), s[i] = Comma PROVE FALSE
    <3>1. i \in N(a)
      BY <1>1, <1>4, <2>1, <2>3, <2>4
    <3>. QED
      BY <1>1, <2>1, <2>2, <2>3, <3>1
  <2>. QED
    BY <2>1, <2>3, <2>4 DEF IsListPart
<1>6. ASSUME NEW a, NEW b, IsListPart(s, a, b)
      PROVE  a \in D /\ SplitString(s, Comma)[a] = SubSeq(s, a + 1, b - 1)
  <2>1. /\ a \in 0..Len(s) /\ b \in (a + 1)..(Len(s) + 1)
        /\ (a = 0 \/ s[a] = Comma) /\ (b = Len(s) + 1 \/ s[b] = Comma)
        /\ \A i \in (a + 1)..(b - 1) : s[i] # Comma
    BY <1>6 DEF IsListPart
  <2>2. a \in D
    BY <1>1, <1>2, <2>1
  <2>3. N(a) \subseteq Nat /\ b \in N(a)
    BY <1>1, <1>4, <2>1
  <2>4. ASSUME NEW k \in N(a) PROVE b <= k
    <3>1. CASE k = Len(s) + 1
      BY <1>1, <2>1, <3>1
    <3>2. CASE k \in 1..Len(s) /\ s[k] = Comma /\ k > a
      <4>1. ~(k \in (a + 1)..(b - 1))
        BY <2>1, <3>2
      <4>. QED
        BY <1>1, <2>1, <3>2, <4>1
    <3>. QED
      BY <1>4, <3>1, <3>2
  <2>5. Least(N(a)) = b
    BY <2>3, <2>4, LeastPositionIs
  <2>. QED
    BY <1>3, <2>2, <2>5
<1>. QED
  BY <1>2, <1>3, <1>5, <1>6

\* The "=" between the name and the value of one of several parameters.
IsEqualsIn(s, i) ==
  /\ i \in 1..Len(s) /\ s[i] = "="
  /\ \A j \in 1..(i - 1) : s[j] = "=" => \E k \in j..i : s[k] = Comma

\* White space that has no meaning in a list of parameters.
OptionalIn(s, i) ==
  \/ i = 1 \/ i = Len(s)
  \/ s[i - 1] = Comma \/ s[i + 1] = Comma \/ IsEqualsIn(s, i - 1) \/ IsEqualsIn(s, i + 1)

\* The places of the separators, when the ith token is left out.
Moved(a, i) == IF a < i THEN a ELSE a - 1

\* White space without a meaning belongs to one part, and the parameter does not change.
LEMMA PartWithoutSpace ==
  ASSUME NEW s, IsRecordText(s), NEW i \in 1..Len(s), s[i] = "space", OptionalIn(s, i),
         NEW a, NEW b, IsListPart(s, a, b)
  PROVE  /\ IsListPart(Without(s, i), Moved(a, i), Moved(b, i))
         /\ ParameterOf(SubSeq(Without(s, i), Moved(a, i) + 1, Moved(b, i) - 1))
              = ParameterOf(SubSeq(s, a + 1, b - 1))
<1>. DEFINE w == Without(s, i)
            c == Moved(a, i)
            d == Moved(b, i)
<1>1. s \in Seq(TextTokens) /\ Len(s) \in Nat
  BY RecordTextIs
<1>2. /\ w \in Seq(TextTokens) /\ Len(w) = Len(s) - 1
      /\ \A j \in 1..(Len(s) - 1) : w[j] = IF j < i THEN s[j] ELSE s[j + 1]
  BY <1>1, WithoutIs
<1>3. /\ a \in 0..Len(s) /\ b \in (a + 1)..(Len(s) + 1)
      /\ (a = 0 \/ s[a] = Comma) /\ (b = Len(s) + 1 \/ s[b] = Comma)
      /\ \A j \in (a + 1)..(b - 1) : s[j] # Comma
  BY DEF IsListPart
<1>4. a # i /\ b # i /\ i \in Nat \ {0} /\ a \in Nat /\ b \in Nat /\ i <= Len(s)
  <2>1. a # i /\ b # i
    BY <1>1, <1>3, CommaIs
  <2>2. i \in Nat \ {0} /\ a \in Nat /\ b \in Nat /\ i <= Len(s)
    <3>1. a \in 0..Len(s) /\ b \in (a + 1)..(Len(s) + 1)
      BY <1>3
    <3>. QED
      BY <1>1, <3>1
  <2>. QED
    BY <2>1, <2>2
<1>5. /\ a < i => c = a
      /\ a > i => c = a - 1
      /\ b < i => d = b
      /\ b > i => d = b - 1
  BY <1>4 DEF Moved
<1>. HIDE DEF w, c, d
<1>6. c \in 0..Len(w) /\ d \in (c + 1)..(Len(w) + 1)
  <2>1. CASE b < i
    BY <1>1, <1>2, <1>3, <1>4, <1>5, <2>1
  <2>2. CASE a < i /\ i < b
    BY <1>1, <1>2, <1>3, <1>4, <1>5, <2>2
  <2>3. CASE i < a
    BY <1>1, <1>2, <1>3, <1>4, <1>5, <2>3
  <2>. QED
    BY <1>4, <2>1, <2>2, <2>3
<1>7. c = 0 \/ w[c] = Comma
  <2>1. CASE a = 0
    BY <1>4, <1>5, <2>1
  <2>2. CASE a # 0 /\ a < i
    <3>1. a \in 1..(Len(s) - 1)
      BY <1>1, <1>4, <2>2
    <3>. QED
      BY <1>2, <1>3, <1>5, <2>2, <3>1
  <2>3. CASE a # 0 /\ a > i
    <3>1. a - 1 \in 1..(Len(s) - 1) /\ (a - 1) + 1 = a /\ ~(a - 1 < i)
      BY <1>1, <1>3, <1>4, <2>3
    <3>. QED
      BY <1>2, <1>3, <1>5, <2>3, <3>1
  <2>. QED
    BY <1>4, <2>1, <2>2, <2>3
<1>8. d = Len(w) + 1 \/ w[d] = Comma
  <2>1. CASE b = Len(s) + 1
    <3>1. b > i /\ b - 1 = (Len(s) - 1) + 1
      BY <1>1, <1>4, <2>1
    <3>. QED
      BY <1>2, <1>5, <3>1
  <2>2. CASE b # Len(s) + 1 /\ b < i
    <3>1. b \in 1..(Len(s) - 1)
      BY <1>1, <1>3, <1>4, <2>2
    <3>. QED
      BY <1>2, <1>3, <1>5, <2>2, <3>1
  <2>3. CASE b # Len(s) + 1 /\ b > i
    <3>1. b - 1 \in 1..(Len(s) - 1) /\ (b - 1) + 1 = b /\ ~(b - 1 < i)
      BY <1>1, <1>3, <1>4, <2>3
    <3>. QED
      BY <1>2, <1>3, <1>5, <2>3, <3>1
  <2>. QED
    BY <1>4, <2>1, <2>2, <2>3
<1>9. ASSUME NEW j \in (c + 1)..(d - 1) PROVE w[j] # Comma
  <2>1. c \in Nat /\ d \in Nat /\ j \in 1..(Len(s) - 1)
    BY <1>1, <1>2, <1>6
  <2>2. CASE j < i
    <3>1. j \in (a + 1)..(b - 1)
      BY <1>4, <1>5, <1>6, <2>1, <2>2
    <3>. QED
      BY <1>2, <1>3, <2>1, <2>2, <3>1
  <2>3. CASE ~(j < i)
    <3>1. j + 1 \in (a + 1)..(b - 1)
      BY <1>4, <1>5, <1>6, <2>1, <2>3
    <3>. QED
      BY <1>2, <1>3, <2>1, <2>3, <3>1
  <2>. QED
    BY <2>2, <2>3
<1>10. IsListPart(w, c, d)
  BY <1>6, <1>7, <1>8, <1>9 DEF IsListPart
<1>. DEFINE x == a + 1
            y == b - 1
            p == SubSeq(s, x, y)
<1>11. x \in Nat \ {0} /\ y \in Nat /\ y <= Len(s) /\ x <= y + 1
  BY <1>1, <1>3, <1>4
<1>12. ParameterOf(SubSeq(w, c + 1, d - 1)) = ParameterOf(p)
  <2>1. CASE b < i
    <3>1. c + 1 = x /\ d - 1 = y
      BY <1>4, <1>5, <2>1, <1>3
    <3>2. y <= Len(s) - 1 /\ y < i
      BY <1>1, <1>4, <2>1
    <3>. HIDE DEF x, y
    <3>3. SubSeq(w, x, y) = SubSeq(s, x, y)
      BY <1>1, <1>11, <3>2, SubOfWithout DEF w
    <3>. QED
      BY <3>1, <3>3
  <2>2. CASE i < a
    <3>. DEFINE e == x - 1
                f == y - 1
    <3>1. c + 1 = e /\ d - 1 = f /\ e + 1 = x /\ f + 1 = y
      BY <1>4, <1>5, <2>2, <1>3
    <3>2. e \in Nat \ {0} /\ f \in Nat /\ f <= Len(s) - 1 /\ e <= f + 1 /\ e >= i
      BY <1>1, <1>3, <1>4, <2>2
    <3>. HIDE DEF x, y, e, f
    <3>3. SubSeq(w, e, f) = SubSeq(s, e + 1, f + 1)
      BY <1>1, <3>2, SubOfWithout DEF w
    <3>. QED
      BY <3>1, <3>3
  <2>3. CASE a < i /\ i < b
    <3>. DEFINE f == y - 1
                k == i - x + 1
    <3>1. c + 1 = x /\ d - 1 = f /\ f + 1 = y /\ k = i - a
      BY <1>4, <1>5, <2>3, <1>3
    <3>2. f \in Nat /\ f <= Len(s) - 1 /\ x <= f + 1 /\ x <= i /\ i <= f + 1
      BY <1>1, <1>3, <1>4, <2>3
    <3>3. x + k - 1 = i /\ k \in 1..(y - x + 1) /\ k = i - a
      BY <1>4, <2>3
    <3>4. (k = 1 <=> i = a + 1) /\ (k = y - x + 1 <=> i = b - 1)
      BY <1>4, <2>3
    <3>5. \A j \in 1..(y - x + 1) : x + j - 1 = a + j /\ a + j \in (a + 1)..(b - 1)
      BY <1>4, <2>3
    <3>. HIDE DEF x, y, f, k
    <3>6. SubSeq(w, x, f) = Without(SubSeq(s, x, f + 1), k)
      BY <1>1, <1>11, <3>2, SubOfWithout DEF w, k
    <3>7. IsRecordText(p)
      BY <1>11, SubIsText
    <3>8. p \in Seq(TextTokens) /\ Len(p) = y - x + 1 /\ \A j \in 1..(y - x + 1) : p[j] = s[a + j]
      <4>1. p \in Seq(TextTokens) /\ Len(p) = y - x + 1 /\ \A j \in 1..(y - x + 1) : p[j] = s[x + j - 1]
        BY <1>1, <1>11, SubIs
      <4>. HIDE DEF p
      <4>. QED
        BY <3>5, <4>1
    <3>. HIDE DEF p
    <3>9. k \in 1..Len(p) /\ p[k] = "space"
      <4>1. a + k = i
        BY <1>4, <3>3
      <4>. QED
        BY <3>3, <3>8, <4>1
    <3>10. ASSUME NEW m, IsEqualsIn(s, m), m \in (a + 1)..(b - 1) PROVE FirstEquals(p, m - a)
      <4>1. /\ m \in 1..Len(s) /\ s[m] = "="
            /\ \A j \in 1..(m - 1) : s[j] = "=" => \E h \in j..m : s[h] = Comma
        BY <3>10 DEF IsEqualsIn
      <4>2. m - a \in 1..(y - x + 1) /\ a + (m - a) = m
        BY <1>4, <3>10 DEF x, y
      <4>3. p[m - a] = "="
        BY <3>8, <4>1, <4>2
      <4>4. ASSUME NEW j \in 1..((m - a) - 1), p[j] = "=" PROVE FALSE
        <5>1. j \in 1..(y - x + 1) /\ a + j \in 1..(m - 1) /\ a + j > a
          BY <1>4, <4>2, <3>10 DEF x, y
        <5>2. s[a + j] = "="
          BY <3>8, <4>4, <5>1
        <5>3. PICK h \in (a + j)..m : s[h] = Comma
          BY <4>1, <5>1, <5>2
        <5>4. h \in (a + 1)..(b - 1)
          BY <1>4, <3>10, <5>1, <5>3
        <5>. QED
          BY <1>3, <5>3, <5>4
      <4>. QED
        BY <3>8, <4>2, <4>3, <4>4 DEF FirstEquals
    <3>11. k = 1 \/ k = Len(p) \/ FirstEquals(p, k - 1) \/ FirstEquals(p, k + 1)
      <4>1. CASE i = 1 \/ (i # 1 /\ s[i - 1] = Comma)
        <5>1. i = a + 1
          <6>1. SUFFICES ASSUME i # a + 1 PROVE FALSE
            OBVIOUS
          <6>2. i # 1 /\ i - 1 \in (a + 1)..(b - 1)
            BY <1>4, <2>3, <6>1
          <6>. QED
            BY <1>3, <4>1, <6>2
        <5>. QED
          BY <3>4, <5>1
      <4>2. CASE i = Len(s) \/ (i # Len(s) /\ s[i + 1] = Comma)
        <5>1. i = b - 1
          <6>1. SUFFICES ASSUME i # b - 1 PROVE FALSE
            OBVIOUS
          <6>2. i + 1 \in (a + 1)..(b - 1) /\ i # Len(s)
            BY <1>1, <1>3, <1>4, <2>3, <6>1
          <6>. QED
            BY <1>3, <4>2, <6>2
        <5>. QED
          BY <3>4, <3>8, <5>1
      <4>3. CASE IsEqualsIn(s, i - 1)
        <5>1. s[i - 1] = "="
          BY <4>3 DEF IsEqualsIn
        <5>2. CASE i - 1 = a
          BY <1>4, <3>4, <5>2
        <5>3. CASE i - 1 # a
          <6>1. i - 1 \in (a + 1)..(b - 1) /\ (i - 1) - a = k - 1
            BY <1>4, <2>3, <3>3, <5>3
          <6>. QED
            BY <3>10, <4>3, <6>1
        <5>. QED
          BY <5>2, <5>3
      <4>4. CASE IsEqualsIn(s, i + 1)
        <5>2. CASE i + 1 = b
          <6>1. i = b - 1
            BY <1>4, <5>2
          <6>. QED
            BY <3>4, <3>8, <6>1
        <5>3. CASE i + 1 # b
          <6>1. i + 1 \in (a + 1)..(b - 1) /\ (i + 1) - a = k + 1
            BY <1>4, <2>3, <3>3, <5>3
          <6>. QED
            BY <3>10, <4>4, <6>1
        <5>. QED
          BY <5>2, <5>3
      <4>. QED
        BY <4>1, <4>2, <4>3, <4>4 DEF OptionalIn
    <3>12. ParameterOf(Without(p, k)) = ParameterOf(p)
      BY <3>7, <3>9, <3>11, ParameterWithoutSpace
    <3>. QED
      BY <3>1, <3>6, <3>12 DEF p
  <2>. QED
    BY <1>4, <2>1, <2>2, <2>3
<1>13. ParameterOf(SubSeq(w, c + 1, d - 1)) = ParameterOf(SubSeq(s, a + 1, b - 1))
  BY <1>12 DEF p, x, y
<1>. QED
  BY <1>10, <1>13 DEF w, c, d

\* The parameter at each place of a list, and what is required of them.
ParametersAt(s) == [a \in DOMAIN SplitString(s, Comma) |-> ParameterOf(SplitString(s, Comma)[a])]

\* The names of the parameters are not empty, and all different.
AreProper(f) ==
  /\ \A a \in DOMAIN f : f[a].name # <<>>
  /\ \A a, b \in DOMAIN f : f[a].name = f[b].name => a = b

\* ParseDeviceParameters, in these terms.
LEMMA ParametersAre ==
  ASSUME NEW s, s # <<>>
  PROVE  ParseDeviceParameters(s) =
           IF AreProper(ParametersAt(s)) THEN {{ParametersAt(s)[a] : a \in DOMAIN SplitString(s, Comma)}} ELSE {}
<1>. DEFINE parts == SplitString(s, Comma)
            f == [a \in DOMAIN parts |-> ParameterOf(parts[a])]
<1>1. ParseDeviceParameters(s) =
        IF /\ \A i \in DOMAIN parts : f[i].name # <<>>
           /\ \A i, j \in DOMAIN parts : f[i].name = f[j].name => i = j
        THEN {{f[i] : i \in DOMAIN parts}} ELSE {}
  BY Zenon DEF ParseDeviceParameters, Comma
<1>2. f = ParametersAt(s)
  BY DEF ParametersAt
<1>3. DOMAIN f = DOMAIN parts
  OBVIOUS
<1>. HIDE DEF f, parts
<1>4. AreProper(f) <=> /\ \A i \in DOMAIN parts : f[i].name # <<>>
                       /\ \A i, j \in DOMAIN parts : f[i].name = f[j].name => i = j
  BY <1>3 DEF AreProper
<1>5. ParseDeviceParameters(s) = IF AreProper(f) THEN {{f[i] : i \in DOMAIN parts}} ELSE {}
  BY <1>1, <1>4
<1>. QED
  BY <1>2, <1>5 DEF parts

\* What is at each place of a list.
LEMMA PartsAt ==
  ASSUME NEW S, NEW s \in Seq(S)
  PROVE  /\ DOMAIN ParametersAt(s) = {0} \union {a \in 1..Len(s) : s[a] = Comma}
         /\ DOMAIN ParametersAt(s) = DOMAIN SplitString(s, Comma)
         /\ \A a \in DOMAIN ParametersAt(s) : \E b : IsListPart(s, a, b)
         /\ \A a, b : IsListPart(s, a, b) => /\ a \in DOMAIN ParametersAt(s)
                                         /\ ParametersAt(s)[a] = ParameterOf(SubSeq(s, a + 1, b - 1))
<1>1. DOMAIN ParametersAt(s) = DOMAIN SplitString(s, Comma)
  BY DEF ParametersAt
<1>2. \A a \in DOMAIN SplitString(s, Comma) : ParametersAt(s)[a] = ParameterOf(SplitString(s, Comma)[a])
  BY DEF ParametersAt
<1>3. /\ DOMAIN SplitString(s, Comma) = {0} \union {a \in 1..Len(s) : s[a] = Comma}
      /\ \A a \in DOMAIN SplitString(s, Comma) : \E b : IsListPart(s, a, b)
      /\ \A a, b : IsListPart(s, a, b) => /\ a \in DOMAIN SplitString(s, Comma)
                                      /\ SplitString(s, Comma)[a] = SubSeq(s, a + 1, b - 1)
  BY PartsAre
<1>4. ASSUME NEW a, NEW b, IsListPart(s, a, b)
      PROVE  a \in DOMAIN ParametersAt(s) /\ ParametersAt(s)[a] = ParameterOf(SubSeq(s, a + 1, b - 1))
  <2>1. a \in DOMAIN SplitString(s, Comma) /\ SplitString(s, Comma)[a] = SubSeq(s, a + 1, b - 1)
    BY <1>3, <1>4
  <2>2. ParametersAt(s)[a] = ParameterOf(SplitString(s, Comma)[a])
    BY <1>2, <2>1
  <2>. QED
    BY <1>1, <2>1, <2>2
<1>. QED
  BY <1>1, <1>3, <1>4

\* Two lists with the same parameters, at other places.
LEMMA SameParameters ==
  ASSUME NEW f, NEW g, NEW m, DOMAIN m = DOMAIN f,
         \A a \in DOMAIN f : m[a] \in DOMAIN g /\ g[m[a]] = f[a],
         \A a, b \in DOMAIN f : m[a] = m[b] => a = b,
         \A c \in DOMAIN g : \E a \in DOMAIN f : m[a] = c
  PROVE  /\ AreProper(g) <=> AreProper(f)
         /\ {g[c] : c \in DOMAIN g} = {f[a] : a \in DOMAIN f}
<1>1. ASSUME AreProper(f) PROVE AreProper(g)
  <2>1. ASSUME NEW c \in DOMAIN g PROVE g[c].name # <<>>
    BY <1>1, <2>1 DEF AreProper
  <2>2. ASSUME NEW c \in DOMAIN g, NEW d \in DOMAIN g, g[c].name = g[d].name PROVE c = d
    <3>1. PICK a \in DOMAIN f : m[a] = c
      OBVIOUS
    <3>2. PICK b \in DOMAIN f : m[b] = d
      OBVIOUS
    <3>3. f[a] = g[c] /\ f[b] = g[d]
      BY <3>1, <3>2
    <3>4. a = b
      BY <1>1, <2>2, <3>3 DEF AreProper
    <3>. QED
      BY <3>1, <3>2, <3>4
  <2>. QED
    BY <2>1, <2>2 DEF AreProper
<1>2. ASSUME AreProper(g) PROVE AreProper(f)
  <2>1. ASSUME NEW a \in DOMAIN f PROVE f[a].name # <<>>
    BY <1>2, <2>1 DEF AreProper
  <2>2. ASSUME NEW a \in DOMAIN f, NEW b \in DOMAIN f, f[a].name = f[b].name PROVE a = b
    <3>1. g[m[a]].name = g[m[b]].name
      BY <2>2
    <3>2. m[a] = m[b]
      BY <1>2, <3>1 DEF AreProper
    <3>. QED
      BY <3>2
  <2>. QED
    BY <2>1, <2>2 DEF AreProper
<1>3. {g[c] : c \in DOMAIN g} = {f[a] : a \in DOMAIN f}
  OBVIOUS
<1>. QED
  BY <1>1, <1>2, <1>3

\* White space without a meaning is not seen.
LEMMA ParametersWithoutSpace ==
  ASSUME NEW s, IsRecordText(s), NEW i \in 1..Len(s), s[i] = "space", OptionalIn(s, i),
         ParseDeviceParameters(s) # {}
  PROVE  ParseDeviceParameters(Without(s, i)) = ParseDeviceParameters(s)
<1>. DEFINE w == Without(s, i)
            f == ParametersAt(s)
            g == ParametersAt(w)
            m == [a \in DOMAIN f |-> Moved(a, i)]
<1>1. s \in Seq(TextTokens) /\ Len(s) \in Nat /\ s # <<>>
  BY RecordTextIs
<1>2. /\ w \in Seq(TextTokens) /\ Len(w) = Len(s) - 1
      /\ \A j \in 1..(Len(s) - 1) : w[j] = IF j < i THEN s[j] ELSE s[j + 1]
  BY <1>1, WithoutIs
<1>3. ParseDeviceParameters(s) = IF AreProper(f) THEN {{f[a] : a \in DOMAIN f}} ELSE {}
  <2>1. DOMAIN f = DOMAIN SplitString(s, Comma)
    BY <1>1, PartsAt
  <2>. QED
    BY <1>1, <2>1, ParametersAre
<1>4. AreProper(f)
  BY <1>3
<1>. HIDE DEF w
<1>5. w # <<>>
  <2>1. SUFFICES ASSUME w = <<>> PROVE FALSE
    OBVIOUS
  <2>2. Len(s) = 1
    <3>1. Len(w) = 0
      BY <2>1
    <3>. QED
      BY <1>1, <1>2, <3>1
  <2>3. i = 1 /\ s[1] = "space"
    BY <2>2
  <2>4. s[1] # Comma
    BY <2>3, CommaIs
  <2>5. 0 \in 0..Len(s) /\ 2 \in (0 + 1)..(Len(s) + 1) /\ 2 = Len(s) + 1 /\ \A j \in (0 + 1)..(2 - 1) : j = 1
    BY <2>2
  <2>6. IsListPart(s, 0, 2)
    BY <2>4, <2>5 DEF IsListPart
  <2>7. 0 \in DOMAIN f /\ f[0] = ParameterOf(SubSeq(s, 0 + 1, 2 - 1))
    <3>1. \A a, b : IsListPart(s, a, b) => a \in DOMAIN f /\ f[a] = ParameterOf(SubSeq(s, a + 1, b - 1))
      BY <1>1, PartsAt
    <3>. HIDE DEF f
    <3>. QED
      BY <2>6, <3>1, Zenon
  <2>8. SubSeq(s, 0 + 1, 2 - 1) = s
    <3>1. SubSeq(s, 1, Len(s)) = s
      BY <1>1, SubSeqFull
    <3>2. 0 + 1 = 1 /\ 2 - 1 = Len(s)
      BY <2>2
    <3>. QED
      BY <3>1, <3>2
  <2>9. ParameterOf(s) = [name |-> Trim(s), value |-> {}]
    <3>1. \A j \in 1..Len(s) : s[j] # "="
      BY <2>2, <2>3
    <3>. QED
      BY <1>1, <3>1, ParameterOfIs
  <2>10. Trim(s) = <<>>
    <3>1. s = <<"space">>
      <4>1. <<"space">> \in Seq(TextTokens) /\ Len(<<"space">>) = 1 /\ <<"space">>[1] = "space"
        BY DEF TextTokens
      <4>. QED
        BY <1>1, <2>2, <2>3, <4>1, SeqEqual
    <3>. QED
      BY <3>1, TrimOfNothing
  <2>11. f[0].name = <<>>
    BY <2>7, <2>8, <2>9, <2>10
  <2>. QED
    BY <1>4, <2>7, <2>11 DEF AreProper
<1>6. ParseDeviceParameters(w) = IF AreProper(g) THEN {{g[a] : a \in DOMAIN g}} ELSE {}
  <2>1. DOMAIN g = DOMAIN SplitString(w, Comma)
    BY <1>2, PartsAt
  <2>. QED
    BY <1>5, <2>1, ParametersAre
<1>7. /\ DOMAIN f = {0} \union {a \in 1..Len(s) : s[a] = Comma}
      /\ \A a \in DOMAIN f : \E b : IsListPart(s, a, b)
      /\ \A a, b : IsListPart(s, a, b) => f[a] = ParameterOf(SubSeq(s, a + 1, b - 1))
  BY <1>1, PartsAt
<1>8. /\ DOMAIN g = {0} \union {a \in 1..Len(w) : w[a] = Comma}
      /\ \A a, b : IsListPart(w, a, b) => a \in DOMAIN g /\ g[a] = ParameterOf(SubSeq(w, a + 1, b - 1))
  BY <1>2, PartsAt
<1>. HIDE DEF f, g
<1>9. DOMAIN m = DOMAIN f /\ \A a \in DOMAIN f : m[a] = Moved(a, i)
  OBVIOUS
<1>. HIDE DEF m
<1>10. ASSUME NEW a \in DOMAIN f PROVE m[a] \in DOMAIN g /\ g[m[a]] = f[a]
  <2>1. PICK b : IsListPart(s, a, b)
    BY <1>7
  <2>2. /\ IsListPart(w, Moved(a, i), Moved(b, i))
        /\ ParameterOf(SubSeq(w, Moved(a, i) + 1, Moved(b, i) - 1)) = ParameterOf(SubSeq(s, a + 1, b - 1))
    BY <2>1, PartWithoutSpace DEF w
  <2>3. Moved(a, i) \in DOMAIN g /\ g[Moved(a, i)] = ParameterOf(SubSeq(w, Moved(a, i) + 1, Moved(b, i) - 1))
    BY <1>8, <2>2
  <2>4. f[a] = ParameterOf(SubSeq(s, a + 1, b - 1))
    BY <1>7, <2>1
  <2>. QED
    BY <1>9, <2>2, <2>3, <2>4
<1>11. ASSUME NEW a \in DOMAIN f PROVE a \in Nat /\ a # i
  <2>1. a = 0 \/ (a \in 1..Len(s) /\ s[a] = Comma)
    BY <1>7
  <2>2. i \in Nat \ {0}
    OBVIOUS
  <2>. QED
    BY <1>1, <2>1, <2>2, CommaIs
<1>12. ASSUME NEW a \in DOMAIN f, NEW b \in DOMAIN f, m[a] = m[b] PROVE a = b
  <2>1. a \in Nat /\ b \in Nat /\ a # i /\ b # i /\ i \in Nat
    BY <1>1, <1>11
  <2>2. Moved(a, i) = Moved(b, i)
    BY <1>9, <1>12
  <2>. QED
    BY <2>1, <2>2 DEF Moved
<1>13. ASSUME NEW c \in DOMAIN g PROVE \E a \in DOMAIN f : m[a] = c
  <2>1. i \in Nat \ {0} /\ i <= Len(s)
    BY <1>1
  <2>2. CASE c = 0
    <3>1. 0 \in DOMAIN f
      BY <1>7
    <3>2. Moved(0, i) = 0
      BY <2>1 DEF Moved
    <3>. QED
      BY <1>9, <2>2, <3>1, <3>2
  <2>3. CASE c \in 1..Len(w) /\ w[c] = Comma
    <3>0. c \in 1..(Len(s) - 1) /\ w[c] = Comma
      BY <1>2, <2>3
    <3>1. CASE c < i
      <4>1. c \in 1..Len(s) /\ s[c] = Comma
        BY <1>1, <1>2, <3>0, <3>1
      <4>2. Moved(c, i) = c
        BY <3>1 DEF Moved
      <4>. QED
        BY <1>7, <1>9, <4>1, <4>2
    <3>2. CASE ~(c < i)
      <4>1. c + 1 \in 1..Len(s)
        BY <1>1, <3>0
      <4>2. s[c + 1] = Comma
        BY <1>2, <3>0, <3>2
      <4>3. Moved(c + 1, i) = c
        BY <1>1, <2>1, <3>0, <3>2 DEF Moved
      <4>4. c + 1 \in DOMAIN f
        BY <1>7, <4>1, <4>2
      <4>. QED
        BY <1>9, <4>3, <4>4
    <3>. QED
      BY <3>1, <3>2
  <2>. QED
    BY <1>8, <2>2, <2>3
<1>14. /\ AreProper(g) <=> AreProper(f)
       /\ {g[c] : c \in DOMAIN g} = {f[a] : a \in DOMAIN f}
  BY <1>9, <1>10, <1>12, <1>13, SameParameters
<1>15. ParseDeviceParameters(w) = ParseDeviceParameters(s)
  BY <1>3, <1>6, <1>14
<1>. QED
  BY <1>15 DEF w

------------------------------------------------------------------------------
(***************************************************************************)
(* Device addresses: port, parameters and PLC address; white space between *)
(* them.                                                                   *)
(***************************************************************************)
\* The parentheses, the commas and the equals signs that are marks, with a name for the comma.
LEMMA MarksAre ==
  ASSUME NEW s, NEW i
  PROVE  /\ IsMark(s, i) <=> \/ IsOpening(s, i)
                             \/ InParentheses(s, i) /\ (s[i] = Comma \/ s[i] = ")" \/ IsEquals(s, i))
         /\ IsEquals(s, i) <=> /\ s[i] = "="
                               /\ \A j \in 1..(i - 1) : s[j] = "=" => \E k \in j..i : s[k] = Comma \/ IsOpening(s, k)
<1>1. IsMark(s, i) <=> \/ IsOpening(s, i)
                       \/ InParentheses(s, i) /\ (s[i] = Comma \/ s[i] = ")" \/ IsEquals(s, i))
  BY Zenon DEF IsMark, Comma
<1>2. IsEquals(s, i) <=> /\ s[i] = "="
                         /\ \A j \in 1..(i - 1) : s[j] = "=" => \E k \in j..i : s[k] = Comma \/ IsOpening(s, k)
  BY Zenon DEF IsEquals, Comma
<1>. QED
  BY <1>1, <1>2

\* A word is none of the other tokens.
LEMMA WordsAre ==
  ASSUME NEW w \in Words
  PROVE  w # "(" /\ w # ")" /\ w # "=" /\ w # Comma /\ w # "space"
<1>1. "(" \in Punctuation /\ ")" \in Punctuation /\ "=" \in Punctuation /\ Comma \in Punctuation
  BY Zenon DEF Punctuation, Comma
<1>2. \A x \in Punctuation \union {"space"} : x \notin Words
  BY WordAssumption
<1>. QED
  BY <1>1, <1>2

\* The address after the trimming of the text.
ParseTrimmed(s) ==
  LET ends == Positions(s, {"space", "("})
  IN IF ends = {} \/ Least(ends) = 1
     THEN Result(IF ends = {} THEN s ELSE <<>>, {}, {}, {}, FALSE)
     ELSE ParseParameters(Before(s, Least(ends)), TrimLeft(From(s, Least(ends))))

\* Parsing begins with trimming.
LEMMA ParseTrims == \A s : ParseRecordAddress(s) = ParseTrimmed(Trim(s))
BY DEF ParseRecordAddress, ParseTrimmed

\* Where an address with parameters has its port, the parentheses round them, and what follows.
IsLayout(s, e, o, c) ==
  /\ e \in 2..Len(s) /\ \A j \in 1..(e - 1) : s[j] # "space" /\ s[j] # "("
  /\ o = e \/ (o = e + 1 /\ s[e] = "space")
  /\ o \in 2..Len(s) /\ s[o] = "("
  /\ c \in (o + 1)..Len(s) /\ s[c] = ")" /\ \A j \in (o + 1)..(c - 1) : s[j] # ")"

\* The first word of an address is a memory address without an opening parenthesis.
LEMMA MemoryHasNoOpening ==
  ASSUME NEW portName, NEW parameters, NEW s \in Seq(TextTokens),
         ParseMemory(portName, parameters, s).valid
  PROVE  \A j \in 1..Len(s) : s[j] # "("
<1>. DEFINE spaces == Positions(s, {"space"})
            address == IF spaces = {} THEN s ELSE Before(s, Least(spaces))
            type == IF spaces = {} THEN <<>> ELSE From(s, Least(spaces) + 1)
<1>0. Len(s) \in Nat
  OBVIOUS
<1>1. /\ Len(address) = 1 /\ address[1] \in PlcAddressWords
      /\ type = <<>> \/ StringToPlcDataType(type) # {}
  <2>. HIDE DEF address, type
  <2>1. ParseMemory(portName, parameters, s) =
          IF Len(address) # 1 \/ address[1] \notin PlcAddressWords
          THEN Result(portName, parameters, {}, {}, FALSE)
          ELSE Result(portName, parameters, {address[1]}, StringToPlcDataType(type),
                      type = <<>> \/ StringToPlcDataType(type) # {})
    BY DEF ParseMemory, address, type
  <2>2. Result(portName, parameters, {}, {}, FALSE).valid = FALSE
    BY DEF Result
  <2>3. ~(Len(address) # 1 \/ address[1] \notin PlcAddressWords)
    BY <2>1, <2>2
  <2>4. Result(portName, parameters, {address[1]}, StringToPlcDataType(type),
               type = <<>> \/ StringToPlcDataType(type) # {}).valid = (type = <<>> \/ StringToPlcDataType(type) # {})
    BY DEF Result
  <2>. QED
    BY <2>1, <2>3, <2>4
<1>2. PlcAddressWords \subseteq Words /\ PlcDataTypes \subseteq Words
  BY WordAssumption
<1>3. CASE spaces = {}
  <2>1. Len(s) = 1 /\ s[1] \in Words
    BY <1>1, <1>2, <1>3
  <2>. QED
    BY <2>1, WordsAre
<1>4. CASE spaces # {}
  <2>. DEFINE e == Least(spaces)
  <2>1. e \in 1..Len(s) /\ s[e] \in {"space"}
    BY <1>4, LeastPositionIn
  <2>2. address = SubSeq(s, 1, e - 1) /\ type = SubSeq(s, e + 1, Len(s))
    BY <1>4 DEF Before, From
  <2>. HIDE DEF e, address, type, spaces
  <2>3. Len(SubSeq(s, 1, e - 1)) = e - 1 /\ (e > 1 => SubSeq(s, 1, e - 1)[1] = s[1])
    <3>1. e - 1 \in Nat /\ e - 1 <= Len(s) /\ 1 <= (e - 1) + 1 /\ (e - 1) - 1 + 1 = e - 1
      BY <1>0, <2>1
    <3>2. /\ Len(SubSeq(s, 1, e - 1)) = (e - 1) - 1 + 1
          /\ \A j \in 1..((e - 1) - 1 + 1) : SubSeq(s, 1, e - 1)[j] = s[1 + j - 1]
      BY <3>1, SubIs
    <3>. QED
      BY <2>1, <3>1, <3>2
  <2>4. e = 2 /\ s[1] \in Words
    <3>1. e - 1 = 1
      BY <1>1, <2>2, <2>3
    <3>2. e = 2
      BY <2>1, <3>1
    <3>. QED
      BY <1>1, <1>2, <2>2, <2>3, <3>2
  <2>. DEFINE x == e + 1
  <2>5. /\ x \in Nat \ {0} /\ Len(s) <= Len(s) /\ x <= Len(s) + 1 /\ x = 3
    BY <1>0, <2>1, <2>4
  <2>. HIDE DEF x
  <2>6. /\ Len(SubSeq(s, x, Len(s))) = Len(s) - x + 1
        /\ \A j \in 1..(Len(s) - x + 1) : SubSeq(s, x, Len(s))[j] = s[x + j - 1]
    <3>. DEFINE y == Len(s)
    <3>1. x \in Nat \ {0} /\ y \in Nat /\ y <= Len(s) /\ x <= y + 1
      BY <1>0, <2>5
    <3>. HIDE DEF y
    <3>2. /\ Len(SubSeq(s, x, y)) = y - x + 1
          /\ \A j \in 1..(y - x + 1) : SubSeq(s, x, y)[j] = s[x + j - 1]
      BY <3>1, SubIs
    <3>. QED
      BY <3>2 DEF y
  <2>7. type = SubSeq(s, x, Len(s))
    BY <2>2 DEF x
  <2>8. CASE type = <<>>
    <3>1. Len(s) - x + 1 = 0
      BY <2>6, <2>7, <2>8
    <3>2. Len(s) = 2
      BY <1>0, <2>5, <3>1
    <3>. QED
      BY <2>1, <2>4, <3>2, WordsAre
  <2>9. CASE type # <<>>
    <3>1. Len(type) = 1 /\ type[1] \in PlcDataTypes
      BY <1>1, <2>9 DEF StringToPlcDataType
    <3>2. Len(s) = 3
      <4>1. Len(s) - x + 1 = 1
        BY <2>6, <2>7, <3>1
      <4>. QED
        BY <1>0, <2>5, <4>1
    <3>3. s[3] \in Words
      <4>1. type[1] = s[3]
        <5>1. 1 \in 1..(Len(s) - x + 1) /\ x + 1 - 1 = 3
          BY <2>5, <3>2
        <5>. QED
          BY <2>6, <2>7, <5>1
      <4>. QED
        BY <1>2, <3>1, <4>1
    <3>4. \A j \in 1..Len(s) : j \in {1, 2, 3}
      BY <3>2
    <3>. QED
      BY <2>1, <2>4, <3>3, <3>4, WordsAre
  <2>. QED
    BY <2>8, <2>9
<1>. QED
  BY <1>3, <1>4

\* What follows a position: nothing but its first token, a space, may be left out.
LEMMA TrimLeftFrom ==
  ASSUME NEW S, NEW s \in Seq(S), NEW a \in 1..Len(s)
  PROVE  TrimLeft(From(s, a)) = IF s[a] = "space" THEN From(s, a + 1) ELSE From(s, a)
<1>. DEFINE n == Len(s)
            u == SubSeq(s, a, n)
<1>1. n \in Nat /\ a \in Nat \ {0} /\ a <= n /\ n <= n /\ a <= n + 1 /\ From(s, a) = u
  BY DEF From
<1>2. n <= Len(s)
  BY <1>1
<1>. HIDE DEF n
<1>3. u \in Seq(S) /\ Len(u) = n - a + 1 /\ \A j \in 1..(n - a + 1) : u[j] = s[a + j - 1]
  BY <1>1, <1>2, SubIs
<1>4. u[1] = s[a] /\ u # <<>>
  <2>1. 1 \in 1..(n - a + 1) /\ a + 1 - 1 = a /\ n - a + 1 # 0
    BY <1>1
  <2>. HIDE DEF u
  <2>. QED
    BY <1>3, <2>1
<1>5. From(u, 2) = From(s, a + 1)
  <2>1. /\ 2 \in Nat \ {0} /\ n - a + 1 \in Nat /\ n - a + 1 <= n - a + 1 /\ 2 <= (n - a + 1) + 1
        /\ a + 2 - 1 = a + 1 /\ a + (n - a + 1) - 1 = n
    BY <1>1
  <2>2. SubSeq(SubSeq(s, a, n), 2, n - a + 1) = SubSeq(s, a + 2 - 1, a + (n - a + 1) - 1)
    <3>. DEFINE d == n - a + 1
    <3>1. d \in Nat /\ d <= n - a + 1 /\ 2 <= d + 1
      BY <2>1
    <3>. HIDE DEF d
    <3>2. SubSeq(SubSeq(s, a, n), 2, d) = SubSeq(s, a + 2 - 1, a + d - 1)
      BY <1>1, <1>2, <2>1, <3>1, SubOfSub
    <3>. QED
      BY <3>2 DEF d
  <2>3. From(s, a + 1) = SubSeq(s, a + 1, n)
    BY DEF From, n
  <2>4. From(u, 2) = SubSeq(u, 2, n - a + 1)
    <3>. HIDE DEF u
    <3>. QED
      BY <1>3 DEF From
  <2>. QED
    BY <2>1, <2>2, <2>3, <2>4 DEF u
<1>. HIDE DEF u
<1>. QED
  BY <1>1, <1>4, <1>5 DEF TrimLeft

\* The parts of a part of a text that starts at a.
LEMMA FromIs ==
  ASSUME NEW S, NEW s \in Seq(S), NEW a \in 1..(Len(s) + 1)
  PROVE  /\ From(s, a) \in Seq(S) /\ Len(From(s, a)) = Len(s) - a + 1
         /\ \A j \in 1..(Len(s) - a + 1) : From(s, a)[j] = s[a + j - 1]
<1>. DEFINE n == Len(s)
<1>1. n \in Nat /\ a \in Nat \ {0} /\ n <= Len(s) /\ a <= n + 1 /\ From(s, a) = SubSeq(s, a, n)
  BY DEF From
<1>. HIDE DEF n
<1>2. /\ SubSeq(s, a, n) \in Seq(S) /\ Len(SubSeq(s, a, n)) = n - a + 1
      /\ \A j \in 1..(n - a + 1) : SubSeq(s, a, n)[j] = s[a + j - 1]
  BY <1>1, SubIs
<1>3. /\ From(s, a) \in Seq(S) /\ Len(From(s, a)) = n - a + 1
      /\ \A j \in 1..(n - a + 1) : From(s, a)[j] = s[a + j - 1]
  BY <1>1, <1>2
<1>. QED
  BY <1>3 DEF n

\* A part of the rest of a sequence.
LEMMA SubOfFrom ==
  ASSUME NEW S, NEW s \in Seq(S), NEW a \in 1..(Len(s) + 1),
         NEW c \in Nat \ {0}, NEW d \in Nat, d <= Len(s) - a + 1, c <= d + 1
  PROVE  SubSeq(From(s, a), c, d) = SubSeq(s, a + c - 1, a + d - 1)
<1>. DEFINE n == Len(s)
<1>1. n \in Nat /\ a \in Nat \ {0} /\ n <= Len(s) /\ a <= n + 1 /\ From(s, a) = SubSeq(s, a, n)
      /\ d <= n - a + 1
  BY DEF From
<1>. HIDE DEF n
<1>2. SubSeq(SubSeq(s, a, n), c, d) = SubSeq(s, a + c - 1, a + d - 1)
  BY <1>1, SubOfSub
<1>. QED
  BY <1>1, <1>2

\* The rest of the rest.
LEMMA FromOfFrom ==
  ASSUME NEW S, NEW s \in Seq(S), NEW a \in 1..(Len(s) + 1), NEW c \in 1..(Len(s) - a + 2)
  PROVE  From(From(s, a), c) = From(s, a + c - 1)
<1>. DEFINE d == Len(s) - a + 1
<1>1. /\ c \in Nat \ {0} /\ d \in Nat /\ d <= Len(s) - a + 1 /\ c <= d + 1 /\ a + d - 1 = Len(s)
  OBVIOUS
<1>2. Len(From(s, a)) = d
  BY FromIs
<1>. HIDE DEF d
<1>3. SubSeq(From(s, a), c, d) = SubSeq(s, a + c - 1, a + d - 1)
  <2>1. d <= Len(s) - a + 1
    BY <1>1
  <2>. QED
    BY <1>1, <2>1, SubOfFrom
<1>4. From(From(s, a), c) = SubSeq(From(s, a), c, d)
  BY <1>2 DEF From
<1>5. From(s, a + c - 1) = SubSeq(s, a + c - 1, Len(s))
  BY DEF From
<1>. QED
  BY <1>1, <1>3, <1>4, <1>5

\* The address of a text with this layout.
LEMMA LayoutParses ==
  ASSUME NEW s \in Seq(TextTokens), NEW e, NEW o, NEW c, IsLayout(s, e, o, c)
  PROVE  ParseTrimmed(s) =
           LET parameters == ParseDeviceParameters(SubSeq(s, o + 1, c - 1))
           IN IF parameters = {} THEN Result(Before(s, e), {}, {}, {}, FALSE)
              ELSE ParseMemory(Before(s, e), parameters, TrimLeft(From(s, c + 1)))
<1>1. /\ e \in 2..Len(s) /\ \A j \in 1..(e - 1) : s[j] # "space" /\ s[j] # "("
      /\ o = e \/ (o = e + 1 /\ s[e] = "space")
      /\ o \in 2..Len(s) /\ s[o] = "("
      /\ c \in (o + 1)..Len(s) /\ s[c] = ")" /\ \A j \in (o + 1)..(c - 1) : s[j] # ")"
  BY DEF IsLayout
<1>2. Len(s) \in Nat /\ e \in Nat /\ o \in Nat /\ c \in Nat /\ 2 <= o /\ o <= Len(s)
  <2>1. e \in 2..Len(s) /\ o \in 2..Len(s) /\ c \in (o + 1)..Len(s)
    BY <1>1
  <2>2. Len(s) \in Nat
    OBVIOUS
  <2>. QED
    BY <2>1, <2>2
<1>3. Positions(s, {"space", "("}) # {} /\ Least(Positions(s, {"space", "("})) = e
  <2>1. e \in 1..Len(s) /\ s[e] \in {"space", "("}
    BY <1>1, <1>2
  <2>2. \A k \in 1..Len(s) : s[k] \in {"space", "("} => e <= k
    BY <1>1, <1>2
  <2>. QED
    BY <2>1, <2>2, LeastPositionAt
<1>. DEFINE u == From(s, o)
<1>4. TrimLeft(From(s, e)) = u
  <2>1. TrimLeft(From(s, e)) = IF s[e] = "space" THEN From(s, e + 1) ELSE From(s, e)
    <3>1. e \in 1..Len(s)
      BY <1>1, <1>2
    <3>. QED
      BY <3>1, TrimLeftFrom
  <2>2. o = IF s[e] = "space" THEN e + 1 ELSE e
    BY <1>1
  <2>. QED
    BY <2>1, <2>2
<1>5. ParseTrimmed(s) = ParseParameters(Before(s, e), u)
  <2>1. e # 1
    BY <1>1
  <2>. QED
    BY <1>3, <1>4, <2>1 DEF ParseTrimmed
<1>6. u \in Seq(TextTokens) /\ Len(u) = Len(s) - o + 1 /\ \A j \in 1..(Len(s) - o + 1) : u[j] = s[o + j - 1]
  <2>1. o \in 1..(Len(s) + 1)
    BY <1>1, <1>2
  <2>. QED
    BY <2>1, FromIs
<1>. DEFINE m == c - o + 1
<1>. HIDE DEF u
<1>7. m \in 2..(Len(s) - o + 1) /\ o + m - 1 = c /\ Len(s) - o + 1 \in Nat
  <2>1. c \in (o + 1)..Len(s)
    BY <1>1
  <2>. QED
    BY <1>2, <2>1
<1>. HIDE DEF m
<1>8. u # <<>> /\ u[1] = "("
  <2>1. 1 \in 1..(Len(s) - o + 1) /\ o + 1 - 1 = o
    BY <1>2, <1>7
  <2>. QED
    BY <1>1, <1>6, <2>1
<1>9. Positions(u, {")"}) # {} /\ Least(Positions(u, {")"})) = m
  <2>1. m \in 1..Len(u)
    BY <1>6, <1>7
  <2>2. u[m] \in {")"}
    BY <1>1, <1>6, <1>7
  <2>3. ASSUME NEW k \in 1..Len(u), u[k] \in {")"} PROVE m <= k
    <3>1. u[k] = s[o + k - 1] /\ k \in Nat \ {0}
      BY <1>6
    <3>2. k # 1
      BY <1>8, <2>3
    <3>3. SUFFICES ASSUME ~(m <= k) PROVE FALSE
      OBVIOUS
    <3>4. o + k - 1 \in (o + 1)..(c - 1)
      BY <1>2, <1>7, <3>1, <3>2, <3>3
    <3>. QED
      BY <1>1, <2>3, <3>1, <3>4
  <2>. QED
    BY <1>6, <2>1, <2>2, <2>3, LeastPositionAt
<1>10. SubSeq(u, 2, m - 1) = SubSeq(s, o + 1, c - 1)
  <2>. DEFINE d == m - 1
  <2>1. /\ o \in 1..(Len(s) + 1) /\ 2 \in Nat \ {0} /\ d \in Nat /\ d <= Len(s) - o + 1 /\ 2 <= d + 1
        /\ o + 2 - 1 = o + 1 /\ o + d - 1 = c - 1
    BY <1>2, <1>7
  <2>. HIDE DEF d
  <2>2. SubSeq(From(s, o), 2, d) = SubSeq(s, o + 2 - 1, o + d - 1)
    BY <2>1, SubOfFrom
  <2>. QED
    BY <2>1, <2>2 DEF d, u
<1>11. From(u, m + 1) = From(s, c + 1)
  <2>. DEFINE d == m + 1
  <2>1. o \in 1..(Len(s) + 1) /\ d \in 1..(Len(s) - o + 2) /\ o + d - 1 = c + 1
    BY <1>2, <1>7
  <2>. HIDE DEF d
  <2>2. From(From(s, o), d) = From(s, o + d - 1)
    BY <2>1, FromOfFrom
  <2>. QED
    BY <2>1, <2>2 DEF d, u
<1>. QED
  BY <1>5, <1>8, <1>9, <1>10, <1>11 DEF ParseParameters

\* A valid address with an opening parenthesis has such a layout.
LEMMA LayoutExists ==
  ASSUME NEW s \in Seq(TextTokens), IsTrimmed(s), ParseTrimmed(s).valid,
         NEW x \in 1..Len(s), s[x] = "("
  PROVE  \E e, o, c : IsLayout(s, e, o, c)
<1>. DEFINE ends == Positions(s, {"space", "("})
            e == Least(ends)
<1>0. Len(s) \in Nat
  OBVIOUS
<1>1. ends # {}
  BY DEF Positions
<1>2. e \in 1..Len(s) /\ s[e] \in {"space", "("} /\ \A k \in 1..Len(s) : s[k] \in {"space", "("} => e <= k
  BY <1>1, LeastPositionIn
<1>. HIDE DEF ends, e
<1>3. e # 1 /\ ParseTrimmed(s) = ParseParameters(Before(s, e), TrimLeft(From(s, e)))
  <2>1. ParseTrimmed(s) = IF e = 1 THEN Result(<<>>, {}, {}, {}, FALSE)
                          ELSE ParseParameters(Before(s, e), TrimLeft(From(s, e)))
    BY <1>1 DEF ParseTrimmed, e, ends
  <2>2. Result(<<>>, {}, {}, {}, FALSE).valid = FALSE
    BY DEF Result
  <2>. QED
    BY <2>1, <2>2
<1>. DEFINE o == IF s[e] = "space" THEN e + 1 ELSE e
            u == From(s, o)
<1>4. TrimLeft(From(s, e)) = u
  <2>1. TrimLeft(From(s, e)) = IF s[e] = "space" THEN From(s, e + 1) ELSE From(s, e)
    BY <1>2, TrimLeftFrom
  <2>. QED
    BY <2>1
<1>5. e \in Nat /\ o \in 2..Len(s)
  <2>1. s[e] = "space" => e # Len(s)
    BY <1>1, <1>2 DEF IsTrimmed
  <2>2. e \in Nat /\ e # 1 /\ e <= Len(s) /\ e >= 1
    BY <1>0, <1>2, <1>3
  <2>. QED
    BY <1>0, <2>1, <2>2
<1>6. o = e \/ (o = e + 1 /\ s[e] = "space")
  OBVIOUS
<1>6a. s[e] = "(" => o = e
  OBVIOUS
<1>. HIDE DEF o
<1>7. u \in Seq(TextTokens) /\ Len(u) = Len(s) - o + 1 /\ \A j \in 1..(Len(s) - o + 1) : u[j] = s[o + j - 1]
  <2>1. o \in 1..(Len(s) + 1)
    BY <1>0, <1>5
  <2>. QED
    BY <2>1, FromIs
<1>. HIDE DEF u
<1>8. u # <<>> /\ u[1] = s[o] /\ o \in Nat
  <2>1. 1 \in 1..(Len(s) - o + 1) /\ o + 1 - 1 = o /\ Len(s) - o + 1 # 0 /\ o \in Nat
    BY <1>0, <1>5
  <2>. QED
    BY <1>7, <2>1
<1>9. ParseParameters(Before(s, e), u).valid
  BY <1>3, <1>4
<1>10. s[o] = "("
  <2>1. SUFFICES ASSUME s[o] # "(" PROVE FALSE
    OBVIOUS
  <2>2. ParseParameters(Before(s, e), u) = ParseMemory(Before(s, e), {{}}, u)
    BY <1>8, <2>1 DEF ParseParameters
  <2>3. \A j \in 1..Len(u) : u[j] # "("
    BY <1>7, <1>9, <2>2, MemoryHasNoOpening
  <2>4. x # o /\ x >= e /\ x # e
    BY <1>2, <1>6a, <2>1
  <2>5. x > o
    BY <1>0, <1>5, <1>6, <2>4
  <2>6. x - o + 1 \in 1..(Len(s) - o + 1) /\ o + (x - o + 1) - 1 = x
    BY <1>0, <1>8, <2>5
  <2>. QED
    BY <1>7, <2>3, <2>6
<1>. DEFINE closing == Positions(u, {")"})
            m == Least(closing)
            c == o + m - 1
<1>11. closing # {}
  <2>1. SUFFICES ASSUME closing = {} PROVE FALSE
    OBVIOUS
  <2>2. ParseParameters(Before(s, e), u) = Result(Before(s, e), {}, {}, {}, FALSE)
    BY <1>8, <1>10, <2>1 DEF ParseParameters
  <2>3. Result(Before(s, e), {}, {}, {}, FALSE).valid = FALSE
    BY DEF Result
  <2>. QED
    BY <1>9, <2>2, <2>3
<1>12. m \in 1..Len(u) /\ u[m] \in {")"} /\ \A k \in 1..Len(u) : u[k] \in {")"} => m <= k
  BY <1>7, <1>11, LeastPositionIn
<1>. HIDE DEF closing, m
<1>13. m # 1
  BY <1>8, <1>10, <1>12
<1>14. m \in 2..(Len(s) - o + 1) /\ m \in Nat
  <2>1. m \in 1..(Len(s) - o + 1)
    BY <1>7, <1>12
  <2>. QED
    BY <1>0, <1>8, <1>13, <2>1
<1>15. c \in (o + 1)..Len(s) /\ s[c] = ")"
  <2>1. c \in (o + 1)..Len(s) /\ m \in 1..(Len(s) - o + 1)
    BY <1>0, <1>8, <1>14
  <2>. QED
    BY <1>7, <1>12, <2>1
<1>16. ASSUME NEW j \in (o + 1)..(c - 1) PROVE s[j] # ")"
  <2>. DEFINE k == j - o + 1
  <2>1. k \in 1..(Len(s) - o + 1) /\ o + k - 1 = j /\ ~(m <= k)
    BY <1>0, <1>8, <1>14, <1>15
  <2>. HIDE DEF k
  <2>. QED
    BY <1>7, <1>12, <2>1
<1>. HIDE DEF c
<1>17. ASSUME NEW j \in 1..(e - 1) PROVE s[j] # "space" /\ s[j] # "("
  <2>1. j \in 1..Len(s) /\ ~(e <= j)
    BY <1>0, <1>2, <1>5
  <2>. QED
    BY <1>2, <2>1
<1>18. e \in 2..Len(s)
  BY <1>0, <1>2, <1>3
<1>19. IsLayout(s, e, o, c)
  BY <1>5, <1>6, <1>10, <1>15, <1>16, <1>17, <1>18 DEF IsLayout
<1>. QED
  BY <1>19

\* The layout in terms of natural numbers.
LEMMA LayoutIs ==
  ASSUME NEW s \in Seq(TextTokens), NEW e, NEW o, NEW c, IsLayout(s, e, o, c)
  PROVE  /\ Len(s) \in Nat /\ e \in Nat /\ o \in Nat /\ c \in Nat
         /\ 2 <= e /\ e <= o /\ o <= e + 1 /\ o < c /\ c <= Len(s)
         /\ \A j \in 1..(e - 1) : s[j] # "space" /\ s[j] # "("
         /\ o = e \/ (o = e + 1 /\ s[e] = "space")
         /\ s[o] = "(" /\ s[c] = ")" /\ \A j \in (o + 1)..(c - 1) : s[j] # ")"
         /\ \A j \in 1..(o - 1) : s[j] # "("
<1>1. /\ e \in 2..Len(s) /\ \A j \in 1..(e - 1) : s[j] # "space" /\ s[j] # "("
      /\ o = e \/ (o = e + 1 /\ s[e] = "space")
      /\ o \in 2..Len(s) /\ s[o] = "("
      /\ c \in (o + 1)..Len(s) /\ s[c] = ")" /\ \A j \in (o + 1)..(c - 1) : s[j] # ")"
  BY DEF IsLayout
<1>2. Len(s) \in Nat
  OBVIOUS
<1>3. e \in Nat /\ o \in Nat /\ c \in Nat /\ 2 <= e /\ o < c /\ c <= Len(s)
  <2>1. e \in 2..Len(s) /\ o \in 2..Len(s) /\ c \in (o + 1)..Len(s)
    BY <1>1
  <2>. QED
    BY <1>2, <2>1
<1>4. e <= o /\ o <= e + 1
  BY <1>1, <1>3
<1>5. ASSUME NEW j \in 1..(o - 1) PROVE s[j] # "("
  <2>1. CASE j \in 1..(e - 1)
    BY <1>1, <2>1
  <2>2. CASE j \notin 1..(e - 1)
    <3>1. j = e /\ o = e + 1
      BY <1>3, <1>4, <2>2
    <3>. QED
      BY <1>1, <1>3, <3>1
  <2>. QED
    BY <2>1, <2>2
<1>. QED
  BY <1>1, <1>2, <1>3, <1>4, <1>5

\* Where a text with this layout has its marks.
LEMMA MarkAt ==
  ASSUME NEW s \in Seq(TextTokens), NEW e, NEW o, NEW c, IsLayout(s, e, o, c),
         NEW i \in 1..Len(s)
  PROVE  /\ IsOpening(s, i) => i = o
         /\ InParentheses(s, i) => o < i /\ i <= c
         /\ IsMark(s, i) => i = o \/ (o < i /\ i <= c /\ (s[i] = Comma \/ i = c \/ IsEquals(s, i)))
<1>1. /\ Len(s) \in Nat /\ o \in Nat /\ c \in Nat /\ 2 <= o /\ o < c /\ c <= Len(s)
      /\ s[o] = "(" /\ s[c] = ")" /\ \A j \in (o + 1)..(c - 1) : s[j] # ")"
      /\ \A j \in 1..(o - 1) : s[j] # "("
  <2>1. /\ Len(s) \in Nat /\ e \in Nat /\ o \in Nat /\ c \in Nat
        /\ 2 <= e /\ e <= o /\ o < c /\ c <= Len(s)
        /\ s[o] = "(" /\ s[c] = ")" /\ \A j \in (o + 1)..(c - 1) : s[j] # ")"
        /\ \A j \in 1..(o - 1) : s[j] # "("
    BY LayoutIs
  <2>. QED
    BY <2>1
<1>0. Len(s) \in Nat /\ o \in Nat /\ c \in Nat /\ 2 <= o /\ o < c /\ c <= Len(s) /\ i \in Nat \ {0}
  BY <1>1
<1>2. ASSUME NEW j \in 1..Len(s), IsOpening(s, j) PROVE j = o
  <2>1. s[j] = "(" /\ \A k \in 1..(j - 1) : s[k] # "("
    BY <1>2 DEF IsOpening
  <2>2. ~(j < o)
    <3>1. j < o => j \in 1..(o - 1)
      BY <1>0
    <3>. QED
      BY <1>1, <2>1, <3>1
  <2>3. ~(o < j)
    <3>1. o < j => o \in 1..(j - 1)
      BY <1>0
    <3>. QED
      BY <1>1, <2>1, <3>1
  <2>. QED
    BY <1>0, <2>2, <2>3
<1>3. ASSUME InParentheses(s, i) PROVE o < i /\ i <= c
  <2>1. PICK j \in 1..(i - 1) : IsOpening(s, j) /\ \A k \in j..(i - 1) : s[k] # ")"
    BY <1>3 DEF InParentheses
  <2>2. j = o
    <3>1. j \in 1..Len(s)
      BY <1>0
    <3>. QED
      BY <1>2, <2>1, <3>1
  <2>3. o < i
    BY <1>0, <2>2
  <2>4. ~(c < i)
    <3>1. c < i => c \in j..(i - 1)
      BY <1>0, <2>2
    <3>. QED
      BY <1>1, <2>1, <3>1
  <2>. QED
    BY <1>0, <2>3, <2>4
<1>4. ASSUME InParentheses(s, i), s[i] = ")" PROVE i = c
  <2>1. o < i /\ i <= c
    BY <1>3, <1>4
  <2>2. i # c => i \in (o + 1)..(c - 1)
    BY <1>0, <2>1
  <2>. QED
    BY <1>1, <1>4, <2>2
<1>. QED
  BY <1>2, <1>3, <1>4, MarksAre

\* A space next to a mark in the parentheses is optional in the list of parameters.
LEMMA OptionalInParameters ==
  ASSUME NEW s \in Seq(TextTokens), NEW e, NEW o, NEW c, IsLayout(s, e, o, c),
         NEW i \in 2..(Len(s) - 1), s[i] = "space", IsMark(s, i - 1) \/ IsMark(s, i + 1), o < i, i < c
  PROVE  /\ SubSeq(s, o + 1, c - 1) \in Seq(TextTokens)
         /\ Len(SubSeq(s, o + 1, c - 1)) = c - o - 1
         /\ SubSeq(s, o + 1, c - 1)[i - o] = "space"
         /\ OptionalIn(SubSeq(s, o + 1, c - 1), i - o)
<1>. DEFINE x == o + 1
            y == c - 1
            p == SubSeq(s, x, y)
            k == i - o
<1>0. Len(s) \in Nat /\ e \in Nat /\ o \in Nat /\ c \in Nat /\ 2 <= e /\ e <= o /\ o < c /\ c <= Len(s)
  BY LayoutIs
<1>0a. i \in Nat /\ 2 <= i /\ i < Len(s) /\ o < i /\ i < c
  BY <1>0
<1>1. /\ x \in Nat \ {0} /\ y \in Nat /\ y <= Len(s) /\ x <= y + 1 /\ y - x + 1 = c - o - 1
      /\ \A j \in 1..(c - o - 1) : x + j - 1 = o + j
  BY <1>0
<1>. HIDE DEF x, y
<1>2. p \in Seq(TextTokens) /\ Len(p) = y - x + 1 /\ \A j \in 1..(y - x + 1) : p[j] = s[x + j - 1]
  BY <1>1, SubIs
<1>. HIDE DEF p
<1>3. p \in Seq(TextTokens) /\ Len(p) = c - o - 1 /\ \A j \in 1..(c - o - 1) : p[j] = s[o + j]
  BY <1>1, <1>2
<1>4. k \in 1..(c - o - 1) /\ o + k = i
  BY <1>0, <1>0a
<1>. HIDE DEF k
<1>4a. k \in Nat \ {0}
  BY <1>0, <1>4
<1>5. p[k] = "space"
  BY <1>3, <1>4
\* The first "=" of a parameter, in the list.
<1>6. ASSUME NEW m \in (o + 1)..(c - 1), IsEquals(s, m) PROVE IsEqualsIn(p, m - o)
  <2>1. s[m] = "=" /\ \A j \in 1..(m - 1) : s[j] = "=" => \E h \in j..m : s[h] = Comma \/ IsOpening(s, h)
    BY <1>6, MarksAre
  <2>2. m - o \in 1..(c - o - 1) /\ o + (m - o) = m /\ m \in Nat
    BY <1>0
  <2>3. p[m - o] = "="
    BY <1>3, <2>1, <2>2
  <2>4. ASSUME NEW j \in 1..((m - o) - 1), p[j] = "=" PROVE \E h \in j..(m - o) : p[h] = Comma
    <3>1. j \in 1..(c - o - 1) /\ o + j \in 1..(m - 1) /\ j \in Nat
      BY <1>0, <2>2
    <3>2. s[o + j] = "="
      BY <1>3, <2>4, <3>1
    <3>3. PICK h \in (o + j)..m : s[h] = Comma \/ IsOpening(s, h)
      BY <2>1, <3>1, <3>2
    <3>4. h \in 1..Len(s) /\ h # o /\ h - o \in j..(m - o) /\ h - o \in 1..(c - o - 1) /\ o + (h - o) = h
      BY <1>0, <2>2, <3>1
    <3>5. ~IsOpening(s, h)
      BY <3>4, MarkAt
    <3>6. p[h - o] = Comma
      BY <1>3, <3>3, <3>4, <3>5
    <3>. QED
      BY <3>4, <3>6
  <2>. QED
    BY <1>3, <2>2, <2>3, <2>4 DEF IsEqualsIn
<1>7. OptionalIn(p, k)
  <2>1. CASE IsMark(s, i - 1)
    <3>0. i - 1 \in 1..Len(s)
      BY <1>0, <1>0a
    <3>1. i - 1 = o \/ (o < i - 1 /\ i - 1 <= c /\ (s[i - 1] = Comma \/ i - 1 = c \/ IsEquals(s, i - 1)))
      BY <2>1, <3>0, MarkAt
    <3>2. i - 1 # c
      BY <1>0, <1>0a
    <3>3. CASE i - 1 = o
      <4>1. k = 1
        BY <1>0, <1>0a, <3>3 DEF k
      <4>. QED
        BY <4>1 DEF OptionalIn
    <3>4. CASE o < i - 1
      <4>1. k - 1 \in 1..(c - o - 1) /\ o + (k - 1) = i - 1 /\ i - 1 \in (o + 1)..(c - 1) /\ (i - 1) - o = k - 1
        BY <1>0, <1>0a, <3>4 DEF k
      <4>2. p[k - 1] = s[i - 1]
        BY <1>3, <4>1
      <4>3. s[i - 1] = Comma \/ IsEquals(s, i - 1)
        BY <3>1, <3>2, <1>0, <3>4
      <4>4. CASE s[i - 1] = Comma
        BY <4>2, <4>4 DEF OptionalIn
      <4>5. CASE IsEquals(s, i - 1)
        BY <1>6, <4>1, <4>5 DEF OptionalIn
      <4>. QED
        BY <4>3, <4>4, <4>5
    <3>. QED
      BY <3>1, <3>3, <3>4
  <2>2. CASE IsMark(s, i + 1)
    <3>0. i + 1 \in 1..Len(s) /\ i + 1 # o
      BY <1>0, <1>0a
    <3>1. i + 1 <= c /\ (s[i + 1] = Comma \/ i + 1 = c \/ IsEquals(s, i + 1))
      BY <2>2, <3>0, MarkAt
    <3>3. CASE i + 1 = c
      <4>1. k = Len(p)
        <5>1. k = c - o - 1
          BY <1>0, <1>0a, <3>3 DEF k
        <5>. QED
          BY <1>3, <5>1
      <4>. QED
        BY <4>1 DEF OptionalIn
    <3>4. CASE i + 1 # c
      <4>1. k + 1 \in 1..(c - o - 1) /\ o + (k + 1) = i + 1 /\ i + 1 \in (o + 1)..(c - 1) /\ (i + 1) - o = k + 1
        <5>1. i + 1 <= c
          BY <3>1
        <5>. QED
          BY <1>0, <1>0a, <3>4, <5>1 DEF k
      <4>2. p[k + 1] = s[i + 1]
        BY <1>3, <4>1
      <4>4. CASE s[i + 1] = Comma
        BY <4>2, <4>4 DEF OptionalIn
      <4>5. CASE IsEquals(s, i + 1)
        BY <1>6, <4>1, <4>5 DEF OptionalIn
      <4>. QED
        BY <3>1, <3>4, <4>4, <4>5
    <3>. QED
      BY <3>3, <3>4
  <2>. QED
    BY <2>1, <2>2
<1>8. /\ SubSeq(s, x, y) \in Seq(TextTokens) /\ Len(SubSeq(s, x, y)) = c - o - 1
      /\ SubSeq(s, x, y)[k] = "space" /\ OptionalIn(SubSeq(s, x, y), k)
  BY <1>3, <1>5, <1>7 DEF p
<1>. QED
  BY <1>8 DEF x, y, k

\* Parts of a text without one of its tokens: before it, after it, and around it.
LEMMA BeforeOfWithout ==
  ASSUME NEW S, NEW s \in Seq(S), NEW i \in 1..Len(s), NEW e \in 1..i
  PROVE  Before(Without(s, i), e) = Before(s, e)
<1>. DEFINE b == e - 1
<1>1. b \in Nat /\ b <= Len(s) - 1 /\ 1 <= b + 1 /\ b < i /\ 1 \in Nat \ {0}
  OBVIOUS
<1>. HIDE DEF b
<1>2. SubSeq(Without(s, i), 1, b) = SubSeq(s, 1, b)
  BY <1>1, SubOfWithout
<1>. QED
  BY <1>2 DEF b, Before

\* The rest after the element that is left out.
LEMMA FromOfWithout ==
  ASSUME NEW S, NEW s \in Seq(S), NEW i \in 1..Len(s), NEW a \in i..Len(s)
  PROVE  From(Without(s, i), a) = From(s, a + 1)
<1>. DEFINE b == Len(s) - 1
<1>1. a \in Nat \ {0} /\ b \in Nat /\ b <= Len(s) - 1 /\ a <= b + 1 /\ a >= i /\ b + 1 = Len(s)
  OBVIOUS
<1>2. Len(Without(s, i)) = b
  BY WithoutIs
<1>. HIDE DEF b
<1>3. SubSeq(Without(s, i), a, b) = SubSeq(s, a + 1, b + 1)
  BY <1>1, SubOfWithout
<1>4. From(Without(s, i), a) = SubSeq(Without(s, i), a, b)
  BY <1>2 DEF From
<1>5. From(s, a + 1) = SubSeq(s, a + 1, Len(s))
  BY DEF From
<1>. QED
  BY <1>1, <1>3, <1>4, <1>5

\* The parameters between two positions, and the address of a text with this layout.
ParametersBetween(s, o, c) == ParseDeviceParameters(SubSeq(s, o + 1, c - 1))
\* The address that is read from this layout.
AddressAt(s, e, o, c) ==
  IF ParametersBetween(s, o, c) = {} THEN Result(Before(s, e), {}, {}, {}, FALSE)
  ELSE ParseMemory(Before(s, e), ParametersBetween(s, o, c), TrimLeft(From(s, c + 1)))

\* White space next to a mark is not seen.
LEMMA TrimmedWithoutSpace ==
  ASSUME NEW s, IsRecordText(s), IsTrimmed(s), ParseTrimmed(s).valid,
         NEW i \in 2..(Len(s) - 1), s[i] = "space", IsMark(s, i - 1) \/ IsMark(s, i + 1)
  PROVE  ParseTrimmed(Without(s, i)) = ParseTrimmed(s)
<1>. DEFINE w == Without(s, i)
<1>1. s \in Seq(TextTokens) /\ \A j \in 1..(Len(s) - 1) : s[j] # "space" \/ s[j + 1] # "space"
  BY RecordTextIs
<1>2. Len(s) \in Nat /\ i \in Nat /\ 2 <= i /\ i < Len(s) /\ i \in 1..Len(s)
  <2>1. Len(s) \in Nat
    BY <1>1
  <2>. QED
    BY <2>1
<1>3. /\ w \in Seq(TextTokens) /\ Len(w) = Len(s) - 1
      /\ \A j \in 1..(Len(s) - 1) : w[j] = IF j < i THEN s[j] ELSE s[j + 1]
  BY <1>1, <1>2, WithoutIs
<1>. HIDE DEF w
<1>. SUFFICES ParseTrimmed(w) = ParseTrimmed(s)
  BY DEF w
\* There is an opening parenthesis.
<1>4. \E x \in 1..Len(s) : s[x] = "("
  <2>1. ASSUME NEW m \in 1..Len(s), IsMark(s, m) PROVE \E x \in 1..Len(s) : s[x] = "("
    <3>1. IsOpening(s, m) \/ InParentheses(s, m)
      BY <2>1, MarksAre
    <3>2. CASE IsOpening(s, m)
      BY <3>2 DEF IsOpening
    <3>3. CASE InParentheses(s, m)
      <4>1. PICK j \in 1..(m - 1) : IsOpening(s, j)
        BY <3>3 DEF InParentheses
      <4>2. j \in 1..Len(s)
        BY <1>2
      <4>. QED
        BY <4>1, <4>2 DEF IsOpening
    <3>. QED
      BY <3>1, <3>2, <3>3
  <2>2. i - 1 \in 1..Len(s) /\ i + 1 \in 1..Len(s)
    BY <1>2
  <2>. QED
    BY <2>1, <2>2
<1>5. PICK e, o, c : IsLayout(s, e, o, c)
  BY <1>1, <1>4, LayoutExists
<1>6. /\ Len(s) \in Nat /\ e \in Nat /\ o \in Nat /\ c \in Nat
      /\ 2 <= e /\ e <= o /\ o <= e + 1 /\ o < c /\ c <= Len(s)
  BY <1>1, <1>5, LayoutIs
<1>7. /\ \A j \in 1..(e - 1) : s[j] # "space" /\ s[j] # "("
      /\ o = e \/ (o = e + 1 /\ s[e] = "space")
      /\ s[o] = "(" /\ s[c] = ")" /\ \A j \in (o + 1)..(c - 1) : s[j] # ")"
  BY <1>1, <1>5, LayoutIs
<1>8. ASSUME NEW t \in Seq(TextTokens), NEW d, NEW a, NEW b, IsLayout(t, d, a, b)
      PROVE  ParseTrimmed(t) = AddressAt(t, d, a, b)
  BY <1>8, LayoutParses DEF AddressAt, ParametersBetween
<1>9. ParametersBetween(s, o, c) # {}
  <2>1. SUFFICES ASSUME ParametersBetween(s, o, c) = {} PROVE FALSE
    OBVIOUS
  <2>2. ParseTrimmed(s) = Result(Before(s, e), {}, {}, {}, FALSE)
    BY <1>1, <1>5, <1>8, <2>1 DEF AddressAt
  <2>. QED
    BY <2>2 DEF Result
<1>10. ASSUME NEW d, NEW a, NEW b, IsLayout(w, d, a, b), Before(w, d) = Before(s, e),
              ParametersBetween(w, a, b) = ParametersBetween(s, o, c), TrimLeft(From(w, b + 1)) = TrimLeft(From(s, c + 1))
       PROVE  ParseTrimmed(w) = ParseTrimmed(s)
  <2>1. ParseTrimmed(w) = AddressAt(w, d, a, b) /\ ParseTrimmed(s) = AddressAt(s, e, o, c)
    BY <1>1, <1>3, <1>5, <1>8, <1>10
  <2>2. AddressAt(w, d, a, b) = AddressAt(s, e, o, c)
    BY <1>10 DEF AddressAt
  <2>. QED
    BY <2>1, <2>2
<1>11. i = o - 1 \/ (o < i /\ i < c) \/ i = c + 1
  <2>0. i # o /\ i # c
    BY <1>7
  <2>1. CASE IsMark(s, i - 1)
    <3>0. i - 1 \in 1..Len(s)
      BY <1>2
    <3>1. i - 1 = o \/ (o < i - 1 /\ i - 1 <= c)
      BY <1>1, <1>5, <2>1, <3>0, MarkAt
    <3>. QED
      BY <1>2, <1>6, <2>0, <3>1
  <2>2. CASE IsMark(s, i + 1)
    <3>0. i + 1 \in 1..Len(s)
      BY <1>2
    <3>1. i + 1 = o \/ (o < i + 1 /\ i + 1 <= c)
      BY <1>1, <1>5, <2>2, <3>0, MarkAt
    <3>. QED
      BY <1>2, <1>6, <2>0, <3>1
  <2>. QED
    BY <2>1, <2>2
\* Between the port and the opening parenthesis.
<1>12. CASE i = o - 1
  <2>1. i = e /\ o = e + 1
    <3>1. \A j \in 1..(e - 1) : j # i
      BY <1>7
    <3>2. ~(i \in 1..(e - 1))
      BY <3>1
    <3>. QED
      BY <1>2, <1>6, <1>12, <3>2
  <2>2. IsLayout(w, e, e, c - 1)
    <3>1. e \in 2..Len(w) /\ c - 1 \in (e + 1)..Len(w)
      BY <1>3, <1>6, <2>1
    <3>2. ASSUME NEW j \in 1..(e - 1) PROVE w[j] # "space" /\ w[j] # "("
      <4>1. j \in 1..(Len(s) - 1) /\ j < i
        BY <1>6, <2>1
      <4>. QED
        BY <1>3, <1>7, <4>1
    <3>3. w[e] = "(" /\ w[c - 1] = ")"
      <4>1. e \in 1..(Len(s) - 1) /\ ~(e < i) /\ c - 1 \in 1..(Len(s) - 1) /\ ~(c - 1 < i) /\ (c - 1) + 1 = c
        BY <1>6, <2>1
      <4>. QED
        BY <1>3, <1>7, <2>1, <4>1
    <3>4. ASSUME NEW j \in (e + 1)..((c - 1) - 1) PROVE w[j] # ")"
      <4>1. j \in 1..(Len(s) - 1) /\ ~(j < i) /\ j + 1 \in (o + 1)..(c - 1)
        BY <1>6, <2>1
      <4>. QED
        BY <1>3, <1>7, <4>1
    <3>. QED
      BY <3>1, <3>2, <3>3, <3>4 DEF IsLayout
  <2>3. Before(w, e) = Before(s, e)
    <3>1. e \in 1..i
      BY <1>6, <2>1
    <3>. QED
      BY <1>1, <1>2, <3>1, BeforeOfWithout DEF w
  <2>4. SubSeq(w, e + 1, (c - 1) - 1) = SubSeq(s, o + 1, c - 1)
    <3>. DEFINE a == e + 1
                b == c - 2
    <3>1. /\ a \in Nat \ {0} /\ b \in Nat /\ b <= Len(s) - 1 /\ a <= b + 1 /\ a >= i
          /\ a + 1 = o + 1 /\ b + 1 = c - 1 /\ (c - 1) - 1 = b
      BY <1>6, <2>1
    <3>2. SubSeq(w, a, b) = SubSeq(s, a + 1, b + 1)
      <4>. HIDE DEF a, b
      <4>. QED
        BY <1>1, <1>2, <3>1, SubOfWithout DEF w
    <3>. QED
      BY <3>1, <3>2
  <2>5. From(w, (c - 1) + 1) = From(s, c + 1)
    <3>1. c \in i..Len(s) /\ (c - 1) + 1 = c
      BY <1>6, <1>2, <2>1
    <3>2. From(w, c) = From(s, c + 1)
      BY <1>1, <1>2, <3>1, FromOfWithout DEF w
    <3>. QED
      BY <3>1, <3>2
  <2>6. ParametersBetween(w, e, c - 1) = ParametersBetween(s, o, c)
    BY <2>4 DEF ParametersBetween
  <2>. QED
    BY <1>10, <2>2, <2>3, <2>5, <2>6
\* In the parentheses.
<1>13. CASE o < i /\ i < c
  <2>2. IsLayout(w, e, o, c - 1)
    <3>1. e \in 2..Len(w) /\ o \in 2..Len(w) /\ c - 1 \in (o + 1)..Len(w)
      BY <1>2, <1>3, <1>6, <1>13
    <3>2. ASSUME NEW j \in 1..(e - 1) PROVE w[j] # "space" /\ w[j] # "("
      <4>1. j \in 1..(Len(s) - 1) /\ j < i
        BY <1>2, <1>6, <1>13
      <4>. QED
        BY <1>3, <1>7, <4>1
    <3>3. w[e] = s[e] /\ w[o] = "(" /\ w[c - 1] = ")"
      <4>1. /\ e \in 1..(Len(s) - 1) /\ e < i /\ o \in 1..(Len(s) - 1) /\ o < i
            /\ c - 1 \in 1..(Len(s) - 1) /\ ~(c - 1 < i) /\ (c - 1) + 1 = c
        BY <1>2, <1>6, <1>13
      <4>. QED
        BY <1>3, <1>7, <4>1
    <3>4. ASSUME NEW j \in (o + 1)..((c - 1) - 1) PROVE w[j] # ")"
      <4>1. j \in 1..(Len(s) - 1) /\ j \in (o + 1)..(c - 1) /\ j + 1 \in (o + 1)..(c - 1)
        BY <1>2, <1>6
      <4>. QED
        BY <1>3, <1>7, <4>1
    <3>5. o = e \/ (o = e + 1 /\ w[e] = "space")
      BY <1>7, <3>3
    <3>. QED
      BY <3>1, <3>2, <3>3, <3>4, <3>5 DEF IsLayout
  <2>3. Before(w, e) = Before(s, e)
    <3>1. e \in 1..i
      BY <1>2, <1>6, <1>13
    <3>. QED
      BY <1>1, <1>2, <3>1, BeforeOfWithout DEF w
  <2>. DEFINE a == o + 1
              b == c - 2
              q == SubSeq(s, o + 1, c - 1)
              k == i - o
  <2>4. SubSeq(w, o + 1, (c - 1) - 1) = Without(q, k)
    <3>1. /\ a \in Nat \ {0} /\ b \in Nat /\ b <= Len(s) - 1 /\ a <= b + 1 /\ a <= i /\ i <= b + 1
          /\ b + 1 = c - 1 /\ (c - 1) - 1 = b /\ i - a + 1 = k
      BY <1>2, <1>6, <1>13
    <3>2. SubSeq(w, a, b) = Without(SubSeq(s, a, b + 1), i - a + 1)
      <4>1. /\ a \in Nat \ {0} /\ b \in Nat /\ b <= Len(s) - 1 /\ a <= b + 1 /\ a <= i /\ i <= b + 1
        BY <3>1
      <4>. HIDE DEF a, b
      <4>. QED
        BY <1>1, <1>2, <4>1, SubOfWithout, SMTT(30) DEF w
    <3>3. SubSeq(s, a, b + 1) = q
      BY <3>1
    <3>4. SubSeq(w, o + 1, (c - 1) - 1) = SubSeq(w, a, b)
      BY <3>1
    <3>. HIDE DEF a, b, q, k
    <3>. QED
      BY <3>1, <3>2, <3>3, <3>4
  <2>5. /\ q \in Seq(TextTokens) /\ Len(q) = c - o - 1 /\ q[k] = "space" /\ OptionalIn(q, k)
    <3>1. \A x, y, z : IsLayout(s, x, y, z) /\ y < i /\ i < z =>
            /\ SubSeq(s, y + 1, z - 1) \in Seq(TextTokens)
            /\ Len(SubSeq(s, y + 1, z - 1)) = z - y - 1
            /\ SubSeq(s, y + 1, z - 1)[i - y] = "space"
            /\ OptionalIn(SubSeq(s, y + 1, z - 1), i - y)
      BY <1>1, OptionalInParameters
    <3>. QED
      BY <1>5, <1>13, <3>1, Zenon
  <2>6. IsRecordText(q)
    <3>. DEFINE d == c - 1
    <3>1. a \in Nat \ {0} /\ d \in Nat /\ d <= Len(s) /\ a <= d + 1
      BY <1>6
    <3>2. IsRecordText(SubSeq(s, a, d))
      <4>. HIDE DEF a, d
      <4>. QED
        BY <3>1, SubIsText
    <3>. QED
      BY <3>2
  <2>7. k \in 1..Len(q)
    <3>1. k \in 1..(c - o - 1)
      BY <1>2, <1>6, <1>13
    <3>. HIDE DEF k, q
    <3>. QED
      BY <2>5, <3>1
  <2>8. ParseDeviceParameters(Without(q, k)) = ParseDeviceParameters(q)
    <3>1. ParseDeviceParameters(q) # {}
      BY <1>9 DEF ParametersBetween
    <3>. HIDE DEF q, k
    <3>. QED
      BY <2>5, <2>6, <2>7, <3>1, ParametersWithoutSpace
  <2>9. ParametersBetween(w, o, c - 1) = ParametersBetween(s, o, c)
    <3>. HIDE DEF k
    <3>. QED
      BY <2>4, <2>8 DEF ParametersBetween
  <2>10. From(w, (c - 1) + 1) = From(s, c + 1)
    <3>1. c \in i..Len(s) /\ (c - 1) + 1 = c
      BY <1>6, <1>2, <1>13
    <3>2. From(w, c) = From(s, c + 1)
      BY <1>1, <1>2, <3>1, FromOfWithout DEF w
    <3>. QED
      BY <3>1, <3>2
  <2>. QED
    BY <1>10, <2>2, <2>3, <2>9, <2>10
\* After the closing parenthesis.
<1>14. CASE i = c + 1
  <2>1. IsLayout(w, e, o, c)
    <3>1. e \in 2..Len(w) /\ o \in 2..Len(w) /\ c \in (o + 1)..Len(w)
      BY <1>2, <1>3, <1>6, <1>14
    <3>2. ASSUME NEW j \in 1..c PROVE w[j] = s[j]
      <4>1. j \in 1..(Len(s) - 1) /\ j < i
        BY <1>2, <1>6, <1>14
      <4>. QED
        BY <1>3, <4>1
    <3>3. e \in 1..c /\ o \in 1..c /\ c \in 1..c /\ 1..(e - 1) \subseteq 1..c /\ (o + 1)..(c - 1) \subseteq 1..c
      BY <1>6
    <3>4. w[e] = s[e] /\ w[o] = "(" /\ w[c] = ")"
      BY <1>7, <3>2, <3>3
    <3>5. ASSUME NEW j \in 1..(e - 1) PROVE w[j] # "space" /\ w[j] # "("
      BY <1>7, <3>2, <3>3
    <3>6. ASSUME NEW j \in (o + 1)..(c - 1) PROVE w[j] # ")"
      BY <1>7, <3>2, <3>3
    <3>7. o = e \/ (o = e + 1 /\ w[e] = "space")
      BY <1>7, <3>4
    <3>. QED
      BY <3>1, <3>4, <3>5, <3>6, <3>7 DEF IsLayout
  <2>2. Before(w, e) = Before(s, e)
    <3>1. e \in 1..i
      BY <1>2, <1>6, <1>14
    <3>. QED
      BY <1>1, <1>2, <3>1, BeforeOfWithout DEF w
  <2>3. SubSeq(w, o + 1, c - 1) = SubSeq(s, o + 1, c - 1)
    <3>. DEFINE a == o + 1
                b == c - 1
    <3>1. a \in Nat \ {0} /\ b \in Nat /\ b <= Len(s) - 1 /\ a <= b + 1 /\ b < i
      BY <1>2, <1>6, <1>14
    <3>2. SubSeq(w, a, b) = SubSeq(s, a, b)
      <4>. HIDE DEF a, b
      <4>. QED
        BY <1>1, <1>2, <3>1, SubOfWithout DEF w
    <3>. QED
      BY <3>2
  <2>4. TrimLeft(From(w, c + 1)) = TrimLeft(From(s, c + 1))
    <3>0. i \in 1..(Len(s) - 1) /\ ~(i < i)
      BY <1>2
    <3>1. w[i] = s[i + 1] /\ s[i + 1] # "space"
      BY <1>1, <1>3, <3>0
    <3>2. TrimLeft(From(w, i)) = From(w, i)
      <4>1. i \in 1..Len(w)
        BY <1>3, <3>0
      <4>. QED
        BY <1>3, <3>1, <4>1, TrimLeftFrom
    <3>3. TrimLeft(From(s, i)) = From(s, i + 1)
      BY <1>1, <1>2, TrimLeftFrom
    <3>4. From(w, i) = From(s, i + 1)
      <4>1. i \in i..Len(s)
        BY <1>2
      <4>. QED
        BY <1>1, <1>2, <4>1, FromOfWithout DEF w
    <3>. QED
      BY <1>14, <3>2, <3>3, <3>4
  <2>5. ParametersBetween(w, o, c) = ParametersBetween(s, o, c)
    BY <2>3 DEF ParametersBetween
  <2>. QED
    BY <1>10, <2>1, <2>2, <2>4, <2>5
<1>. QED
  BY <1>11, <1>12, <1>13, <1>14

\* The marks of a text are those of its trimmed text.
LEMMA MarkOfTrimmed ==
  ASSUME NEW s, NEW t, NEW a \in Nat \ {0}, NEW b \in Nat,
         \A j \in 1..(b - a + 1) : t[j] = s[a + j - 1],
         \A j \in 1..(a - 1) : s[j] = "space",
         NEW m \in a..b, IsMark(s, m)
  PROVE  IsMark(t, m - a + 1)
<1>1. ASSUME NEW k \in 1..b, s[k] = "(" PROVE k \in a..b
  <2>1. ~(k \in 1..(a - 1))
    BY <1>1
  <2>. QED
    BY <2>1
<1>2. ASSUME NEW k \in a..b PROVE t[k - a + 1] = s[k]
  <2>1. k - a + 1 \in 1..(b - a + 1) /\ a + (k - a + 1) - 1 = k
    OBVIOUS
  <2>. QED
    BY <2>1
<1>3. ASSUME NEW k \in a..b, IsOpening(s, k) PROVE IsOpening(t, k - a + 1)
  <2>1. s[k] = "(" /\ \A j \in 1..(k - 1) : s[j] # "("
    BY <1>3 DEF IsOpening
  <2>2. t[k - a + 1] = "("
    BY <1>2, <2>1
  <2>3. ASSUME NEW j \in 1..((k - a + 1) - 1) PROVE t[j] # "("
    <3>1. j \in 1..(b - a + 1) /\ a + j - 1 \in 1..(k - 1)
      OBVIOUS
    <3>. QED
      BY <2>1, <3>1
  <2>. QED
    BY <2>2, <2>3 DEF IsOpening
<1>4. ASSUME InParentheses(s, m) PROVE InParentheses(t, m - a + 1)
  <2>1. PICK j \in 1..(m - 1) : IsOpening(s, j) /\ \A k \in j..(m - 1) : s[k] # ")"
    BY <1>4 DEF InParentheses
  <2>2. j \in 1..b /\ s[j] = "("
    <3>1. j \in 1..b
      OBVIOUS
    <3>. QED
      BY <2>1, <3>1 DEF IsOpening
  <2>3. j \in a..b
    BY <1>1, <2>2
  <2>4. IsOpening(t, j - a + 1)
    BY <1>3, <2>1, <2>3
  <2>5. j - a + 1 \in 1..((m - a + 1) - 1)
    BY <2>3
  <2>6. ASSUME NEW k \in (j - a + 1)..((m - a + 1) - 1) PROVE t[k] # ")"
    <3>1. k \in 1..(b - a + 1) /\ a + k - 1 \in j..(m - 1)
      BY <2>3
    <3>. QED
      BY <2>1, <3>1
  <2>. QED
    BY <2>4, <2>5, <2>6 DEF InParentheses
<1>5. ASSUME IsEquals(s, m) PROVE IsEquals(t, m - a + 1)
  <2>1. s[m] = "=" /\ \A j \in 1..(m - 1) : s[j] = "=" => \E k \in j..m : s[k] = Comma \/ IsOpening(s, k)
    BY <1>5, MarksAre
  <2>2. t[m - a + 1] = "="
    BY <1>2, <2>1
  <2>3. ASSUME NEW j \in 1..((m - a + 1) - 1), t[j] = "="
        PROVE  \E k \in j..(m - a + 1) : t[k] = Comma \/ IsOpening(t, k)
    <3>1. j \in 1..(b - a + 1) /\ a + j - 1 \in 1..(m - 1) /\ a + j - 1 >= a
      OBVIOUS
    <3>2. s[a + j - 1] = "="
      BY <2>3, <3>1
    <3>3. PICK k \in (a + j - 1)..m : s[k] = Comma \/ IsOpening(s, k)
      BY <2>1, <3>1, <3>2
    <3>4. k \in a..b /\ k - a + 1 \in j..(m - a + 1)
      BY <3>1
    <3>5. t[k - a + 1] = s[k] /\ (IsOpening(s, k) => IsOpening(t, k - a + 1))
      BY <1>2, <1>3, <3>4
    <3>. QED
      BY <3>3, <3>4, <3>5
  <2>. QED
    BY <2>2, <2>3, MarksAre
<1>6. t[m - a + 1] = s[m]
  BY <1>2
<1>. QED
  BY <1>3, <1>4, <1>5, <1>6, MarksAre

\* White space that is optional is not seen.
LEMMA RemovedSpace ==
  ASSUME NEW s, IsRecordText(s), ParseRecordAddress(s).valid,
         NEW i \in 1..Len(s), s[i] = "space", SpaceIsOptional(s, i)
  PROVE  ParseRecordAddress(Without(s, i)) = ParseRecordAddress(s)
<1>1. CASE i = 1 \/ i = Len(s)
  BY <1>1, TrimWithoutEnd, ParseTrims
<1>2. CASE i # 1 /\ i # Len(s)
  <2>. DEFINE a == TrimFirst(s)
              b == TrimLast(s)
              t == Trim(s)
              k == i - a + 1
  <2>1. s \in Seq(TextTokens) /\ Len(s) \in Nat
    BY RecordTextIs
  <2>2. IsMark(s, i - 1) \/ IsMark(s, i + 1)
    BY <1>2 DEF SpaceIsOptional
  <2>3. /\ t = SubSeq(s, a, b) /\ a \in {1, 2} /\ b \in {Len(s) - 1, Len(s)} /\ a < i /\ i < b
        /\ Trim(Without(s, i)) = Without(t, k)
    BY <1>2, TrimWithoutInner
  <2>4. IsRecordText(t) /\ IsTrimmed(t) /\ ParseTrimmed(t).valid
    BY TrimTrims, ParseTrims
  <2>5. a = 2 => s[1] = "space"
    BY DEF TrimFirst
  <2>. HIDE DEF a, b, t
  <2>6. a \in Nat \ {0} /\ b \in Nat /\ b <= Len(s) /\ a <= b + 1
    <3>1. a \in {1, 2} /\ b \in {Len(s) - 1, Len(s)} /\ a < i /\ i < b
      BY <2>3
    <3>. QED
      BY <2>1, <3>1
  <2>7. Len(t) = b - a + 1 /\ \A j \in 1..(b - a + 1) : t[j] = s[a + j - 1]
    <3>1. /\ Len(SubSeq(s, a, b)) = b - a + 1
          /\ \A j \in 1..(b - a + 1) : SubSeq(s, a, b)[j] = s[a + j - 1]
      BY <2>1, <2>6, SubIs
    <3>2. t = SubSeq(s, a, b)
      BY <2>3
    <3>. QED
      BY <3>1, <3>2
  <2>8. \A j \in 1..(a - 1) : s[j] = "space"
    <3>1. a \in {1, 2}
      BY <2>3
    <3>2. CASE a = 1
      BY <3>2
    <3>3. CASE a = 2
      <4>1. \A j \in 1..(a - 1) : j = 1
        BY <3>3
      <4>. QED
        BY <2>5, <3>3, <4>1
    <3>. QED
      BY <3>1, <3>2, <3>3
  <2>9. /\ k \in 2..((b - a + 1) - 1) /\ k \in 1..(b - a + 1) /\ a + k - 1 = i
        /\ i - 1 \in a..b /\ i + 1 \in a..b /\ (i - 1) - a + 1 = k - 1 /\ (i + 1) - a + 1 = k + 1
    <3>1. a < i /\ i < b
      BY <2>3
    <3>. QED
      BY <2>6, <3>1
  <2>. HIDE DEF k
  <2>10. IsMark(t, k - 1) \/ IsMark(t, k + 1)
    <3>1. \A m \in a..b : IsMark(s, m) => IsMark(t, m - a + 1)
      BY <2>6, <2>7, <2>8, MarkOfTrimmed
    <3>2. IsMark(s, i - 1) => IsMark(t, (i - 1) - a + 1)
      BY <2>9, <3>1
    <3>3. IsMark(s, i + 1) => IsMark(t, (i + 1) - a + 1)
      BY <2>9, <3>1
    <3>. QED
      BY <2>2, <2>9, <3>2, <3>3
  <2>11. t[k] = "space"
    BY <2>7, <2>9
  <2>12. k \in 2..(Len(t) - 1)
    BY <2>7, <2>9
  <2>13. ParseTrimmed(Without(t, k)) = ParseTrimmed(t)
    BY <2>4, <2>10, <2>11, <2>12, TrimmedWithoutSpace
  <2>. QED
    BY <2>3, <2>13, ParseTrims DEF t
<1>. QED
  BY <1>1, <1>2

\* Removing optional white space keeps the meaning.
LEMMA RemoveSpaceKeeps ==
  ASSUME IsRecordText(recordText), RemoveSpace
  PROVE  /\ IsRecordText(recordText')
         /\ ParseRecordAddress(recordText') = ParseRecordAddress(recordText)
<1>1. PICK i \in {j \in Positions(recordText, {"space"}) : SpaceIsOptional(recordText, j)} :
        recordText' = Without(recordText, i)
  BY DEF RemoveSpace, Without
<1>2. recordText \in Seq(TextTokens) /\ ParseRecordAddress(recordText).valid
  BY RecordTextIs DEF RemoveSpace
<1>3. i \in 1..Len(recordText) /\ recordText[i] = "space" /\ SpaceIsOptional(recordText, i)
  <2>1. DOMAIN recordText = 1..Len(recordText)
    BY <1>2
  <2>. QED
    BY <1>1, <2>1 DEF Positions
<1>4. IsRecordText(Without(recordText, i))
  BY <1>3, WithoutIsText
<1>5. ParseRecordAddress(Without(recordText, i)) = ParseRecordAddress(recordText)
  BY <1>2, <1>3, RemovedSpace
<1>. QED
  BY <1>1, <1>4, <1>5

------------------------------------------------------------------------------
(***************************************************************************)
(* Device addresses: the canonical form.                                   *)
(***************************************************************************)
\* Two texts in a row.
LEMMA ConcatIsText ==
  ASSUME NEW u, NEW v, IsRecordText(u), IsRecordText(v),
         u = <<>> \/ v = <<>> \/ u[Len(u)] # "space" \/ v[1] # "space"
  PROVE  IsRecordText(u \o v)
<1>. DEFINE t == u \o v
<1>1. u \in Seq(TextTokens) /\ \A i \in 1..(Len(u) - 1) : u[i] # "space" \/ u[i + 1] # "space"
  BY RecordTextIs
<1>2. v \in Seq(TextTokens) /\ \A i \in 1..(Len(v) - 1) : v[i] # "space" \/ v[i + 1] # "space"
  BY RecordTextIs
<1>3. /\ t \in Seq(TextTokens) /\ Len(t) = Len(u) + Len(v)
      /\ \A i \in 1..(Len(u) + Len(v)) : t[i] = IF i <= Len(u) THEN u[i] ELSE v[i - Len(u)]
  BY <1>1, <1>2, ConcatProperties
<1>. HIDE DEF t
<1>4. Len(u) \in Nat /\ Len(v) \in Nat
  BY <1>1, <1>2
<1>5. ASSUME NEW i \in 1..(Len(t) - 1) PROVE t[i] # "space" \/ t[i + 1] # "space"
  <2>1. i \in Nat \ {0} /\ i + 1 <= Len(u) + Len(v) /\ i \in 1..(Len(u) + Len(v)) /\ i + 1 \in 1..(Len(u) + Len(v))
    BY <1>3, <1>4
  <2>2. CASE i < Len(u)
    <3>1. i \in 1..(Len(u) - 1) /\ i <= Len(u) /\ i + 1 <= Len(u)
      BY <1>4, <2>1, <2>2
    <3>. QED
      BY <1>1, <1>3, <2>1, <3>1
  <2>3. CASE i = Len(u)
    <3>1. ~(i + 1 <= Len(u)) /\ (i + 1) - Len(u) = 1 /\ i <= Len(u) /\ Len(u) # 0 /\ Len(v) # 0
      BY <1>4, <2>1, <2>3
    <3>2. u # <<>> /\ v # <<>>
      BY <3>1
    <3>3. t[i] = u[Len(u)] /\ t[i + 1] = v[1]
      BY <1>3, <2>1, <2>3, <3>1
    <3>. QED
      BY <3>2, <3>3
  <2>4. CASE i > Len(u)
    <3>1. i - Len(u) \in 1..(Len(v) - 1) /\ (i + 1) - Len(u) = (i - Len(u)) + 1 /\ ~(i <= Len(u)) /\ ~(i + 1 <= Len(u))
      BY <1>4, <2>1, <2>4
    <3>. QED
      BY <1>2, <1>3, <2>1, <3>1
  <2>. QED
    BY <1>4, <2>1, <2>2, <2>3, <2>4
<1>6. IsRecordText(t)
  BY <1>3, <1>5, RecordTextIs
<1>. QED
  BY <1>6 DEF t

\* A text of one token.
LEMMA TokenIsText ==
  ASSUME NEW x \in TextTokens
  PROVE  IsRecordText(<<x>>) /\ <<x>> \in Seq(TextTokens) /\ Len(<<x>>) = 1 /\ <<x>>[1] = x
<1>1. <<x>> \in Seq(TextTokens) /\ Len(<<x>>) = 1 /\ <<x>>[1] = x
  OBVIOUS
<1>2. \A i \in 1..(1 - 1) : FALSE
  OBVIOUS
<1>. QED
  BY <1>1, <1>2, RecordTextIs

\* The empty text.
LEMMA NothingIsText == IsRecordText(<<>>)
<1>1. <<>> \in Seq(TextTokens) /\ Len(<<>>) = 0 /\ \A i \in 1..(0 - 1) : FALSE
  OBVIOUS
<1>. QED
  BY <1>1, RecordTextIs

\* The tokens that are no words.
LEMMA MarksAreTokens ==
  "(" \in TextTokens /\ ")" \in TextTokens /\ "=" \in TextTokens /\ Comma \in TextTokens /\ "space" \in TextTokens
<1>1. "(" \in Punctuation /\ ")" \in Punctuation /\ "=" \in Punctuation /\ Comma \in Punctuation
  BY Zenon DEF Punctuation, Comma
<1>. QED
  BY <1>1 DEF TextTokens

\* What is in a trimmed text was in the text.
LEMMA TrimElements ==
  ASSUME NEW S, NEW s \in Seq(S)
  PROVE  \A j \in 1..Len(Trim(s)) : \E k \in 1..Len(s) : Trim(s)[j] = s[k]
<1>1. CASE s = <<>> \/ s = <<"space">>
  <2>1. Trim(s) = <<>>
    BY <1>1, TrimOfNothing
  <2>2. \A j \in 1..0 : FALSE
    OBVIOUS
  <2>. QED
    BY <2>1, <2>2
<1>2. CASE s # <<>> /\ s # <<"space">>
  <2>. DEFINE a == TrimFirst(s)
              b == TrimLast(s)
  <2>1. Trim(s) = SubSeq(s, a, b) /\ a \in {1, 2} /\ b \in {Len(s) - 1, Len(s)} /\ a <= b + 1 /\ Len(s) \in Nat \ {0}
    BY <1>2, TrimIs
  <2>. HIDE DEF a, b
  <2>2. a \in Nat \ {0} /\ b \in Nat /\ b <= Len(s) /\ a <= b + 1
    <3>1. a \in {1, 2} /\ b \in {Len(s) - 1, Len(s)} /\ a <= b + 1 /\ Len(s) \in Nat \ {0}
      BY <2>1
    <3>. QED
      BY <3>1
  <2>3. Len(SubSeq(s, a, b)) = b - a + 1 /\ \A j \in 1..(b - a + 1) : SubSeq(s, a, b)[j] = s[a + j - 1]
    BY <2>2, SubIs
  <2>4. Trim(s) = SubSeq(s, a, b)
    BY <2>1
  <2>5. \A j \in 1..(b - a + 1) : a + j - 1 \in 1..Len(s)
    <3>1. Len(s) \in Nat
      BY <2>1
    <3>. QED
      BY <2>2, <3>1
  <2>. QED
    BY <2>3, <2>4, <2>5
<1>. QED
  BY <1>1, <1>2

\* The names and the values of parameters.
IsName(n) ==
  /\ IsRecordText(n) /\ IsTrimmed(n) /\ n # <<>>
  /\ \A j \in 1..Len(n) : n[j] # Comma /\ n[j] # "=" /\ n[j] # ")"

\* What the value of a parameter can be.
IsValue(v) == IsRecordText(v) /\ IsTrimmed(v) /\ \A j \in 1..Len(v) : v[j] # Comma /\ v[j] # ")"

\* A parameter with such a name and an optional value.
IsParameter(p) ==
  \E n : IsName(n) /\ \/ p = [name |-> n, value |-> {}]
                      \/ \E v : IsValue(v) /\ p = [name |-> n, value |-> {v}]

\* A text of a list that makes a parameter with a name.
LEMMA ParameterIsParameter ==
  ASSUME NEW s, IsRecordText(s), \A j \in 1..Len(s) : s[j] # Comma /\ s[j] # ")", ParameterOf(s).name # <<>>
  PROVE  IsParameter(ParameterOf(s))
<1>1. s \in Seq(TextTokens) /\ Len(s) \in Nat
  BY RecordTextIs
<1>2. ASSUME NEW p, IsRecordText(p), \A j \in 1..Len(p) : \E k \in 1..Len(s) : p[j] = s[k]
      PROVE  /\ IsValue(Trim(p))
             /\ Trim(p) # <<>> /\ (\A j \in 1..Len(p) : p[j] # "=") => IsName(Trim(p))
  <2>1. IsRecordText(Trim(p)) /\ IsTrimmed(Trim(p))
    BY <1>2, TrimTrims
  <2>2. p \in Seq(TextTokens)
    BY <1>2, RecordTextIs
  <2>3. \A j \in 1..Len(Trim(p)) : \E k \in 1..Len(p) : Trim(p)[j] = p[k]
    BY <2>2, TrimElements
  <2>4. ASSUME NEW j \in 1..Len(Trim(p)) PROVE Trim(p)[j] # Comma /\ Trim(p)[j] # ")"
    <3>1. PICK k \in 1..Len(p) : Trim(p)[j] = p[k]
      BY <2>3
    <3>2. PICK l \in 1..Len(s) : p[k] = s[l]
      BY <1>2
    <3>. QED
      BY <3>1, <3>2
  <2>5. ASSUME \A j \in 1..Len(p) : p[j] # "=", NEW j \in 1..Len(Trim(p)) PROVE Trim(p)[j] # "="
    BY <2>3, <2>5
  <2>. QED
    BY <2>1, <2>4, <2>5 DEF IsValue, IsName
<1>3. CASE \A j \in 1..Len(s) : s[j] # "="
  <2>1. ParameterOf(s) = [name |-> Trim(s), value |-> {}]
    BY <1>1, <1>3, ParameterOfIs
  <2>2. Trim(s) # <<>>
    BY <2>1
  <2>3. IsName(Trim(s))
    BY <1>2, <1>3, <2>2
  <2>. QED
    BY <2>1, <2>3 DEF IsParameter
<1>4. ASSUME NEW e, FirstEquals(s, e) PROVE IsParameter(ParameterOf(s))
  <2>. DEFINE p == Before(s, e)
              q == From(s, e + 1)
  <2>1. e \in 1..Len(s) /\ e \in Nat /\ \A j \in 1..(e - 1) : s[j] # "="
    <3>1. e \in 1..Len(s) /\ \A j \in 1..(e - 1) : s[j] # "="
      BY <1>4 DEF FirstEquals
    <3>. QED
      BY <1>1, <3>1
  <2>2. ParameterOf(s) = [name |-> Trim(p), value |-> {Trim(q)}]
    BY <1>1, <1>4, ParameterOfIs
  <2>3. IsRecordText(p) /\ Len(p) = e - 1 /\ \A j \in 1..(e - 1) : p[j] = s[j]
    <3>. DEFINE b == e - 1
    <3>1. b \in Nat /\ b <= Len(s) /\ 1 <= b + 1 /\ b - 1 + 1 = b /\ 1 \in Nat \ {0} /\ \A j \in 1..b : 1 + j - 1 = j
      BY <1>1, <2>1
    <3>. HIDE DEF b
    <3>2. IsRecordText(SubSeq(s, 1, b))
      BY <3>1, SubIsText
    <3>3. Len(SubSeq(s, 1, b)) = b - 1 + 1 /\ \A j \in 1..(b - 1 + 1) : SubSeq(s, 1, b)[j] = s[1 + j - 1]
      BY <1>1, <3>1, SubIs
    <3>4. p = SubSeq(s, 1, b)
      BY DEF b, Before
    <3>. HIDE DEF p
    <3>5. IsRecordText(p) /\ Len(p) = b /\ \A j \in 1..b : p[j] = s[j]
      BY <3>1, <3>2, <3>3, <3>4
    <3>. QED
      BY <3>5 DEF b
  <2>4. IsRecordText(q) /\ Len(q) = Len(s) - e /\ \A j \in 1..(Len(s) - e) : q[j] = s[e + j]
    <3>. DEFINE a == e + 1
                y == Len(s)
    <3>1. /\ a \in Nat \ {0} /\ y \in Nat /\ y <= Len(s) /\ a <= y + 1 /\ y - a + 1 = Len(s) - e
          /\ \A j \in 1..(Len(s) - e) : a + j - 1 = e + j
      BY <1>1, <2>1
    <3>4. q = SubSeq(s, a, y)
      BY DEF From
    <3>. HIDE DEF a, y
    <3>2. IsRecordText(SubSeq(s, a, y))
      BY <3>1, SubIsText
    <3>3. Len(SubSeq(s, a, y)) = y - a + 1 /\ \A j \in 1..(y - a + 1) : SubSeq(s, a, y)[j] = s[a + j - 1]
      BY <1>1, <3>1, SubIs
    <3>. HIDE DEF q
    <3>. QED
      BY <3>1, <3>2, <3>3, <3>4
  <2>. HIDE DEF p, q
  <2>5. /\ \A j \in 1..(e - 1) : j \in 1..Len(s)
        /\ \A j \in 1..(Len(s) - e) : e + j \in 1..Len(s)
    BY <1>1, <2>1
  <2>6. \A j \in 1..Len(p) : \E k \in 1..Len(s) : p[j] = s[k]
    BY <2>3, <2>5
  <2>7. \A j \in 1..Len(q) : \E k \in 1..Len(s) : q[j] = s[k]
    BY <2>4, <2>5
  <2>8. IsValue(Trim(q))
    BY <1>2, <2>4, <2>7
  <2>9. Trim(p) # <<>>
    BY <2>2
  <2>10. \A j \in 1..Len(p) : p[j] # "="
    BY <2>1, <2>3
  <2>11. IsName(Trim(p))
    BY <1>2, <2>3, <2>6, <2>9, <2>10
  <2>. QED
    BY <2>2, <2>8, <2>11 DEF IsParameter
<1>. QED
  BY <1>1, <1>3, <1>4, ParameterOfIs

\* The two parts of two texts in a row.
LEMMA PartsOfConcat ==
  ASSUME NEW S, NEW u \in Seq(S), NEW v \in Seq(S)
  PROVE  /\ Before(u \o v, Len(u) + 1) = u
         /\ From(u \o v, Len(u) + 1) = v
<1>. DEFINE t == u \o v
            b == Len(u)
<1>1. Len(u) \in Nat /\ Len(v) \in Nat
  OBVIOUS
<1>2. /\ t \in Seq(S) /\ Len(t) = Len(u) + Len(v)
      /\ \A i \in 1..(Len(u) + Len(v)) : t[i] = IF i <= Len(u) THEN u[i] ELSE v[i - Len(u)]
  BY ConcatProperties
<1>. HIDE DEF t
<1>3. Before(t, Len(u) + 1) = u
  <2>1. b \in Nat /\ b <= Len(t) /\ 1 <= b + 1 /\ 1 \in Nat \ {0} /\ b - 1 + 1 = b /\ (Len(u) + 1) - 1 = b
        /\ \A j \in 1..b : 1 + j - 1 = j /\ j \in 1..(Len(u) + Len(v)) /\ j <= Len(u)
    BY <1>1, <1>2
  <2>2. Len(u) = b
    OBVIOUS
  <2>. HIDE DEF b
  <2>3. /\ SubSeq(t, 1, b) \in Seq(S) /\ Len(SubSeq(t, 1, b)) = b - 1 + 1
        /\ \A j \in 1..(b - 1 + 1) : SubSeq(t, 1, b)[j] = t[1 + j - 1]
    BY <1>2, <2>1, SubIs
  <2>4. \A j \in 1..Len(u) : SubSeq(t, 1, b)[j] = u[j]
    BY <1>2, <2>1, <2>2, <2>3
  <2>5. SubSeq(t, 1, b) = u
    BY <2>1, <2>2, <2>3, <2>4, SeqEqual
  <2>. QED
    BY <2>1, <2>5 DEF Before
<1>4. From(t, Len(u) + 1) = v
  <2>. DEFINE a == Len(u) + 1
  <2>1. a \in 1..(Len(t) + 1) /\ Len(t) - a + 1 = Len(v)
        /\ \A j \in 1..Len(v) : a + j - 1 \in 1..(Len(u) + Len(v)) /\ ~(a + j - 1 <= Len(u)) /\ (a + j - 1) - Len(u) = j
    BY <1>1, <1>2
  <2>. HIDE DEF a
  <2>2. /\ From(t, a) \in Seq(S) /\ Len(From(t, a)) = Len(t) - a + 1
        /\ \A j \in 1..(Len(t) - a + 1) : From(t, a)[j] = t[a + j - 1]
    BY <1>2, <2>1, FromIs
  <2>3. \A j \in 1..Len(v) : From(t, a)[j] = v[j]
    BY <1>2, <2>1, <2>2
  <2>4. From(t, a) = v
    BY <2>1, <2>2, <2>3, SeqEqual
  <2>. QED
    BY <2>4 DEF a
<1>. QED
  BY <1>3, <1>4 DEF t

\* The text of a parameter is read as the parameter.
LEMMA ParameterTextIs ==
  ASSUME NEW p, IsParameter(p)
  PROVE  /\ IsRecordText(ParameterText(p)) /\ ParameterText(p) # <<>>
         /\ ParameterText(p)[1] # "space" /\ ParameterText(p)[Len(ParameterText(p))] # "space"
         /\ \A j \in 1..Len(ParameterText(p)) : ParameterText(p)[j] # Comma /\ ParameterText(p)[j] # ")"
         /\ ParameterOf(ParameterText(p)) = p
<1>1. PICK n : IsName(n) /\ \/ p = [name |-> n, value |-> {}]
                            \/ \E v : IsValue(v) /\ p = [name |-> n, value |-> {v}]
  BY DEF IsParameter
<1>2. /\ IsRecordText(n) /\ IsTrimmed(n) /\ n # <<>> /\ n \in Seq(TextTokens) /\ Len(n) \in Nat \ {0}
      /\ \A j \in 1..Len(n) : n[j] # Comma /\ n[j] # "=" /\ n[j] # ")"
  <2>1. /\ IsRecordText(n) /\ IsTrimmed(n) /\ n # <<>> /\ n \in Seq(TextTokens)
        /\ \A j \in 1..Len(n) : n[j] # Comma /\ n[j] # "=" /\ n[j] # ")"
    BY <1>1, RecordTextIs DEF IsName
  <2>2. Len(n) \in Nat \ {0}
    BY <2>1
  <2>. QED
    BY <2>1, <2>2
<1>3. n[1] # "space" /\ n[Len(n)] # "space"
  BY <1>2 DEF IsTrimmed
<1>4. CASE p = [name |-> n, value |-> {}]
  <2>1. ParameterText(p) = n \o <<>>
    BY <1>4 DEF ParameterText
  <2>2. ParameterText(p) = n
    BY <1>2, <2>1, ConcatEmptySeq
  <2>3. ParameterOf(n) = [name |-> Trim(n), value |-> {}]
    BY <1>2, ParameterOfIs
  <2>4. Trim(n) = n
    BY <1>2, TrimOfTrimmed
  <2>. QED
    BY <1>2, <1>3, <1>4, <2>2, <2>3, <2>4
<1>5. ASSUME NEW v, IsValue(v), p = [name |-> n, value |-> {v}]
      PROVE  /\ IsRecordText(ParameterText(p)) /\ ParameterText(p) # <<>>
             /\ ParameterText(p)[1] # "space" /\ ParameterText(p)[Len(ParameterText(p))] # "space"
             /\ \A j \in 1..Len(ParameterText(p)) : ParameterText(p)[j] # Comma /\ ParameterText(p)[j] # ")"
             /\ ParameterOf(ParameterText(p)) = p
  <2>1. IsRecordText(v) /\ IsTrimmed(v) /\ v \in Seq(TextTokens) /\ \A j \in 1..Len(v) : v[j] # Comma /\ v[j] # ")"
    BY <1>5, RecordTextIs DEF IsValue
  <2>2. Len(v) \in Nat
    BY <2>1
  <2>. DEFINE q == <<"=">>
              r == q \o v
              t == n \o r
  <2>3. ParameterText(p) = t
    <3>1. p.value # {} /\ p.name = n /\ (CHOOSE x \in p.value : TRUE) = v
      BY <1>5
    <3>. QED
      BY <3>1 DEF ParameterText
  <2>4. IsRecordText(q) /\ q \in Seq(TextTokens) /\ Len(q) = 1 /\ q[1] = "="
    BY TokenIsText, MarksAreTokens
  <2>. HIDE DEF q
  <2>5. IsRecordText(r)
    <3>1. q[Len(q)] # "space"
      BY <2>4
    <3>. QED
      BY <2>1, <2>4, <3>1, ConcatIsText
  <2>6. /\ r \in Seq(TextTokens) /\ Len(r) = 1 + Len(v)
        /\ \A i \in 1..(1 + Len(v)) : r[i] = IF i <= 1 THEN q[i] ELSE v[i - 1]
    BY <2>1, <2>4, ConcatProperties, SMTT(30)
  <2>7. From(r, 2) = v
    <3>1. From(r, Len(q) + 1) = v
      BY <2>1, <2>4, PartsOfConcat
    <3>. HIDE DEF r
    <3>. QED
      BY <2>4, <3>1
  <2>. HIDE DEF r
  <2>8. r[1] = "=" /\ r # <<>> /\ \A i \in 1..Len(v) : r[i + 1] = v[i]
    <3>1. /\ 1 \in 1..(1 + Len(v)) /\ 1 + Len(v) # 0
          /\ \A i \in 1..Len(v) : i + 1 \in 1..(1 + Len(v)) /\ ~(i + 1 <= 1) /\ (i + 1) - 1 = i
      BY <2>2
    <3>. QED
      BY <2>4, <2>6, <3>1
  <2>9. IsRecordText(t)
    BY <1>2, <1>3, <2>5, ConcatIsText
  <2>10. /\ t \in Seq(TextTokens) /\ Len(t) = Len(n) + Len(r)
         /\ \A i \in 1..(Len(n) + Len(r)) : t[i] = IF i <= Len(n) THEN n[i] ELSE r[i - Len(n)]
    BY <1>2, <2>6, ConcatProperties
  <2>. DEFINE e == Len(n) + 1
  <2>11. Before(t, e) = n /\ From(t, e) = r
    BY <1>2, <2>6, PartsOfConcat
  <2>. HIDE DEF t
  <2>12. e \in 1..Len(t) /\ e \in 1..(Len(n) + Len(r)) /\ ~(e <= Len(n)) /\ e - Len(n) = 1
         /\ e + 1 = e + 2 - 1 /\ 2 \in 1..(Len(t) - e + 2) /\ e \in 1..(Len(t) + 1) /\ e - 1 = Len(n)
         /\ \A j \in 1..(e - 1) : j \in 1..(Len(n) + Len(r)) /\ j <= Len(n) /\ j \in 1..Len(n)
    BY <1>2, <2>2, <2>6, <2>10
  <2>. HIDE DEF e
  <2>13. From(t, e + 1) = v
    <3>1. From(From(t, e), 2) = From(t, e + 2 - 1)
      BY <2>10, <2>12, FromOfFrom
    <3>. QED
      BY <2>7, <2>11, <2>12, <3>1
  <2>14. FirstEquals(t, e)
    <3>1. t[e] = "="
      BY <2>8, <2>10, <2>12
    <3>2. \A j \in 1..(e - 1) : t[j] # "="
      BY <1>2, <2>10, <2>12
    <3>. QED
      BY <2>12, <3>1, <3>2 DEF FirstEquals
  <2>15. ParameterOf(t) = p
    <3>1. ParameterOf(t) = [name |-> Trim(n), value |-> {Trim(v)}]
      BY <2>10, <2>11, <2>13, <2>14, ParameterOfIs
    <3>2. Trim(n) = n /\ Trim(v) = v
      BY <1>2, <2>1, TrimOfTrimmed
    <3>. QED
      BY <1>5, <3>1, <3>2
  <2>16. ASSUME NEW j \in 1..Len(t) PROVE t[j] # Comma /\ t[j] # ")"
    <3>1. j \in 1..(Len(n) + Len(r)) /\ j \in Nat \ {0}
      BY <2>10
    <3>2. CASE j <= Len(n)
      <4>1. j \in 1..Len(n)
        BY <1>2, <3>1, <3>2
      <4>. QED
        BY <1>2, <2>10, <3>1, <3>2, <4>1
    <3>3. CASE ~(j <= Len(n))
      <4>1. t[j] = r[j - Len(n)] /\ j - Len(n) \in 1..(1 + Len(v))
        <5>1. t[j] = r[j - Len(n)]
          BY <2>10, <3>1, <3>3
        <5>2. Len(n) \in Nat /\ Len(r) = 1 + Len(v)
          BY <1>2, <2>6
        <5>. QED
          BY <2>2, <3>1, <3>3, <5>1, <5>2
      <4>2. CASE j - Len(n) = 1
        BY <2>8, <4>1, <4>2, CommaIs
      <4>3. CASE j - Len(n) # 1
        <5>1. (j - Len(n)) - 1 \in 1..Len(v) /\ ((j - Len(n)) - 1) + 1 = j - Len(n)
          BY <1>2, <2>2, <3>1, <4>1, <4>3
        <5>2. r[j - Len(n)] = v[(j - Len(n)) - 1]
          BY <2>8, <5>1
        <5>. QED
          BY <2>1, <4>1, <5>1, <5>2
      <4>. QED
        BY <4>2, <4>3
    <3>. QED
      BY <3>2, <3>3
  <2>17. t # <<>> /\ t[1] # "space" /\ t[Len(t)] # "space"
    <3>1. 1 \in 1..(Len(n) + Len(r)) /\ 1 <= Len(n) /\ Len(n) + Len(r) # 0 /\ Len(n) \in Nat \ {0} /\ Len(r) \in Nat \ {0}
      BY <1>2, <2>2, <2>6
    <3>2. t # <<>> /\ t[1] # "space"
      BY <1>3, <2>10, <3>1
    <3>3. t[Len(t)] = r[Len(r)]
      <4>1. Len(t) \in 1..(Len(n) + Len(r)) /\ ~(Len(t) <= Len(n)) /\ Len(t) - Len(n) = Len(r)
        BY <2>10, <3>1
      <4>. QED
        BY <2>10, <4>1
    <3>4. r[Len(r)] # "space"
      <4>1. CASE Len(v) = 0
        <5>1. Len(r) = 1
          BY <2>6, <4>1
        <5>. QED
          BY <2>8, <5>1
      <4>2. CASE Len(v) # 0
        <5>1. v # <<>> /\ Len(v) \in 1..Len(v) /\ Len(v) + 1 = 1 + Len(v)
          BY <2>2, <4>2
        <5>2. v[Len(v)] # "space"
          BY <2>1, <5>1 DEF IsTrimmed
        <5>3. r[Len(v) + 1] = v[Len(v)]
          BY <2>8, <5>1
        <5>. QED
          BY <2>6, <5>1, <5>2, <5>3
      <4>. QED
        BY <4>1, <4>2
    <3>. QED
      BY <3>2, <3>3, <3>4
  <2>. QED
    BY <2>3, <2>9, <2>15, <2>16, <2>17
<1>. QED
  BY <1>1, <1>4, <1>5

\* The parameters of a list.
AreParametersOf(set, f) ==
  /\ IsFiniteSet(DOMAIN f) /\ AreProper(f) /\ set = {f[a] : a \in DOMAIN f}
  /\ \A a \in DOMAIN f : IsParameter(f[a])

\* What ParseDeviceParameters returns.
IsParameterSet(set) == set = {} \/ \E f : AreParametersOf(set, f)

\* It returns nothing else.
LEMMA ListHasParameters ==
  ASSUME NEW s, IsRecordText(s), \A j \in 1..Len(s) : s[j] # ")", ParseDeviceParameters(s) # {}
  PROVE  \E set : IsParameterSet(set) /\ ParseDeviceParameters(s) = {set}
<1>1. CASE s = <<>>
  <2>1. ParseDeviceParameters(s) = {{}}
    BY <1>1 DEF ParseDeviceParameters
  <2>. QED
    BY <2>1 DEF IsParameterSet
<1>2. CASE s # <<>>
  <2>. DEFINE f == ParametersAt(s)
  <2>1. s \in Seq(TextTokens) /\ Len(s) \in Nat
    BY RecordTextIs
  <2>2. ParseDeviceParameters(s) = IF AreProper(f) THEN {{f[a] : a \in DOMAIN f}} ELSE {}
    <3>1. DOMAIN f = DOMAIN SplitString(s, Comma)
      BY <2>1, PartsAt
    <3>. QED
      BY <1>2, <3>1, ParametersAre
  <2>3. AreProper(f)
    BY <2>2
  <2>4. /\ DOMAIN f = {0} \union {a \in 1..Len(s) : s[a] = Comma}
        /\ \A a \in DOMAIN f : \E b : IsListPart(s, a, b)
        /\ \A a, b : IsListPart(s, a, b) => f[a] = ParameterOf(SubSeq(s, a + 1, b - 1))
    BY <2>1, PartsAt
  <2>. HIDE DEF f
  <2>5. IsFiniteSet(DOMAIN f)
    <3>1. IsFiniteSet(0..Len(s))
      BY <2>1, FS_Interval
    <3>2. DOMAIN f \subseteq 0..Len(s)
      BY <2>1, <2>4
    <3>. QED
      BY <3>1, <3>2, FS_Subset
  <2>6. ASSUME NEW a \in DOMAIN f PROVE IsParameter(f[a])
    <3>1. PICK b : IsListPart(s, a, b)
      BY <2>4
    <3>2. /\ a \in 0..Len(s) /\ b \in (a + 1)..(Len(s) + 1)
          /\ \A i \in (a + 1)..(b - 1) : s[i] # Comma
      BY <3>1 DEF IsListPart
    <3>. DEFINE x == a + 1
                y == b - 1
                p == SubSeq(s, x, y)
    <3>3. /\ x \in Nat \ {0} /\ y \in Nat /\ y <= Len(s) /\ x <= y + 1
          /\ \A j \in 1..(y - x + 1) : x + j - 1 \in (a + 1)..(b - 1) /\ x + j - 1 \in 1..Len(s)
      BY <2>1, <3>2
    <3>4. f[a] = ParameterOf(p)
      BY <2>4, <3>1
    <3>. HIDE DEF x, y
    <3>5. IsRecordText(p)
      BY <3>3, SubIsText
    <3>6. Len(p) = y - x + 1 /\ \A j \in 1..(y - x + 1) : p[j] = s[x + j - 1]
      BY <2>1, <3>3, SubIs
    <3>. HIDE DEF p
    <3>7. \A j \in 1..Len(p) : p[j] # Comma /\ p[j] # ")"
      BY <3>2, <3>3, <3>6
    <3>8. ParameterOf(p).name # <<>>
      BY <2>3, <3>4 DEF AreProper
    <3>. QED
      BY <3>4, <3>5, <3>7, <3>8, ParameterIsParameter
  <2>7. AreParametersOf({f[a] : a \in DOMAIN f}, f)
    BY <2>3, <2>5, <2>6 DEF AreParametersOf
  <2>. QED
    BY <2>2, <2>3, <2>7 DEF IsParameterSet
<1>. QED
  BY <1>1, <1>2

\* The name of a port ends before white space and parentheses.
IsPort(n) == IsRecordText(n) /\ n # <<>> /\ \A j \in 1..Len(n) : n[j] # "space" /\ n[j] # "("

\* A data type, or none.
IsOptionalType(type) == type = {} \/ \E t \in PlcDataTypes : type = {t}

\* What ParseMemory returns for a valid text.
LEMMA MemoryIs ==
  ASSUME NEW n, NEW parameters, NEW s, ParseMemory(n, parameters, s).valid
  PROVE  \E a \in PlcAddressWords : \E type :
           IsOptionalType(type) /\ ParseMemory(n, parameters, s) = Result(n, parameters, {a}, type, TRUE)
<1>. DEFINE spaces == Positions(s, {"space"})
            address == IF spaces = {} THEN s ELSE Before(s, Least(spaces))
            type == IF spaces = {} THEN <<>> ELSE From(s, Least(spaces) + 1)
<1>1. ParseMemory(n, parameters, s) =
        IF Len(address) # 1 \/ address[1] \notin PlcAddressWords
        THEN Result(n, parameters, {}, {}, FALSE)
        ELSE Result(n, parameters, {address[1]}, StringToPlcDataType(type),
                    type = <<>> \/ StringToPlcDataType(type) # {})
  BY DEF ParseMemory
<1>. HIDE DEF address, type
<1>2. ~(Len(address) # 1 \/ address[1] \notin PlcAddressWords)
  <2>1. Result(n, parameters, {}, {}, FALSE).valid = FALSE
    BY DEF Result
  <2>. QED
    BY <1>1, <2>1
<1>3. type = <<>> \/ StringToPlcDataType(type) # {}
  <2>1. Result(n, parameters, {address[1]}, StringToPlcDataType(type),
               type = <<>> \/ StringToPlcDataType(type) # {}).valid = (type = <<>> \/ StringToPlcDataType(type) # {})
    BY DEF Result
  <2>. QED
    BY <1>1, <1>2, <2>1
<1>4. IsOptionalType(StringToPlcDataType(type))
  BY DEF IsOptionalType, StringToPlcDataType
<1>5. ParseMemory(n, parameters, s) = Result(n, parameters, {address[1]}, StringToPlcDataType(type), TRUE)
  <2>1. (type = <<>> \/ StringToPlcDataType(type) # {}) = TRUE
    BY <1>3
  <2>. QED
    BY <1>1, <1>2, <2>1
<1>. QED
  BY <1>2, <1>4, <1>5

\* What a valid text says.
LEMMA ValidAddress ==
  ASSUME NEW s, IsRecordText(s), ParseRecordAddress(s).valid
  PROVE  \E n, set, type : \E a \in PlcAddressWords :
           /\ IsPort(n) /\ IsParameterSet(set) /\ IsOptionalType(type)
           /\ ParseRecordAddress(s) = Result(n, {set}, {a}, type, TRUE)
<1>. DEFINE t == Trim(s)
            ends == Positions(t, {"space", "("})
            e == Least(ends)
            n == Before(t, e)
            u == TrimLeft(From(t, e))
<1>1. IsRecordText(t) /\ t \in Seq(TextTokens) /\ ParseRecordAddress(s) = ParseTrimmed(t)
  BY TrimTrims, ParseTrims, RecordTextIs
<1>2. Len(t) \in Nat
  BY <1>1
<1>. HIDE DEF t, e
<1>3. ends # {} /\ e # 1 /\ ParseRecordAddress(s) = ParseParameters(n, u)
  <2>1. ParseTrimmed(t) = IF ends = {} \/ e = 1 THEN Result(IF ends = {} THEN t ELSE <<>>, {}, {}, {}, FALSE)
                          ELSE ParseParameters(n, u)
    BY DEF ParseTrimmed, e
  <2>2. Result(IF ends = {} THEN t ELSE <<>>, {}, {}, {}, FALSE).valid = FALSE
    BY DEF Result
  <2>. HIDE DEF ends, n, u
  <2>. QED
    BY <1>1, <2>1, <2>2
<1>4. e \in 1..Len(t) /\ \A k \in 1..Len(t) : t[k] \in {"space", "("} => e <= k
  BY <1>1, <1>3, LeastPositionIn DEF e
<1>. HIDE DEF ends
<1>5. IsPort(n)
  <2>. DEFINE b == e - 1
  <2>1. /\ b \in Nat /\ b <= Len(t) /\ 1 <= b + 1 /\ b - 1 + 1 = b /\ b # 0 /\ 1 \in Nat \ {0}
        /\ \A j \in 1..b : 1 + j - 1 = j /\ j \in 1..Len(t) /\ ~(e <= j)
    BY <1>2, <1>3, <1>4
  <2>2. n = SubSeq(t, 1, b)
    BY DEF Before
  <2>. HIDE DEF b, n
  <2>3. IsRecordText(SubSeq(t, 1, b))
    BY <1>1, <2>1, SubIsText
  <2>4. Len(SubSeq(t, 1, b)) = b - 1 + 1 /\ \A j \in 1..(b - 1 + 1) : SubSeq(t, 1, b)[j] = t[1 + j - 1]
    BY <1>1, <2>1, SubIs
  <2>5. IsRecordText(n) /\ Len(n) = b /\ \A j \in 1..b : n[j] = t[j]
    BY <2>1, <2>2, <2>3, <2>4
  <2>6. n # <<>>
    BY <2>1, <2>5
  <2>7. ASSUME NEW j \in 1..Len(n) PROVE n[j] # "space" /\ n[j] # "("
    BY <1>4, <2>1, <2>5
  <2>. QED
    BY <2>5, <2>6, <2>7 DEF IsPort
<1>6. IsRecordText(u)
  <2>1. e \in 1..Len(t) /\ e \in Nat
    BY <1>2, <1>4
  <2>2. u = IF t[e] = "space" THEN From(t, e + 1) ELSE From(t, e)
    BY <1>1, <2>1, TrimLeftFrom
  <2>. DEFINE x == e + 1
              y == Len(t)
  <2>3. x \in Nat \ {0} /\ y \in Nat /\ y <= Len(t) /\ x <= y + 1 /\ e \in Nat \ {0} /\ e <= y + 1
    BY <1>2, <2>1
  <2>4. From(t, e + 1) = SubSeq(t, x, y) /\ From(t, e) = SubSeq(t, e, y)
    BY DEF From
  <2>. HIDE DEF x, y, u
  <2>5. IsRecordText(SubSeq(t, x, y)) /\ IsRecordText(SubSeq(t, e, y))
    BY <1>1, <2>3, SubIsText
  <2>. QED
    BY <2>2, <2>4, <2>5
<1>. HIDE DEF n, u
<1>7. u \in Seq(TextTokens) /\ Len(u) \in Nat
  <2>1. u \in Seq(TextTokens)
    BY <1>6, RecordTextIs
  <2>. QED
    BY <2>1
<1>8. ParseParameters(n, u).valid
  BY <1>3
<1>9. ASSUME NEW set, IsParameterSet(set), NEW x, ParseParameters(n, u) = ParseMemory(n, {set}, x)
      PROVE  \E type : \E a \in PlcAddressWords :
               IsOptionalType(type) /\ ParseRecordAddress(s) = Result(n, {set}, {a}, type, TRUE)
  <2>1. ParseMemory(n, {set}, x).valid
    BY <1>8, <1>9
  <2>2. PICK a \in PlcAddressWords : \E type : IsOptionalType(type) /\ ParseMemory(n, {set}, x) = Result(n, {set}, {a}, type, TRUE)
    BY <2>1, MemoryIs
  <2>3. PICK type : IsOptionalType(type) /\ ParseMemory(n, {set}, x) = Result(n, {set}, {a}, type, TRUE)
    BY <2>2
  <2>. QED
    BY <1>3, <1>9, <2>2, <2>3
<1>10. CASE u = <<>> \/ u[1] # "("
  <2>1. ParseParameters(n, u) = ParseMemory(n, {{}}, u)
    BY <1>10 DEF ParseParameters
  <2>2. IsParameterSet({})
    BY DEF IsParameterSet
  <2>. QED
    BY <1>5, <1>9, <2>1, <2>2
<1>11. CASE u # <<>> /\ u[1] = "("
  <2>. DEFINE closing == Positions(u, {")"})
              m == Least(closing)
              p == SubSeq(u, 2, m - 1)
              x == TrimLeft(From(u, m + 1))
  <2>1. closing # {} /\ ParseDeviceParameters(p) # {} /\ ParseParameters(n, u) = ParseMemory(n, ParseDeviceParameters(p), x)
    <3>1. ParseParameters(n, u) = IF closing = {} \/ ParseDeviceParameters(p) = {} THEN Result(n, {}, {}, {}, FALSE)
                                  ELSE ParseMemory(n, ParseDeviceParameters(p), x)
      BY <1>11 DEF ParseParameters
    <3>2. Result(n, {}, {}, {}, FALSE).valid = FALSE
      BY DEF Result
    <3>. HIDE DEF closing, p, x
    <3>. QED
      BY <1>8, <3>1, <3>2
  <2>2. m \in 1..Len(u) /\ u[m] \in {")"} /\ \A k \in 1..Len(u) : u[k] \in {")"} => m <= k
    BY <1>7, <2>1, LeastPositionIn
  <2>. HIDE DEF closing, m, x
  <2>3. m # 1
    BY <1>11, <2>2
  <2>4. IsRecordText(p) /\ \A j \in 1..Len(p) : p[j] # ")"
    <3>. DEFINE b == m - 1
    <3>1. /\ 2 \in Nat \ {0} /\ b \in Nat /\ b <= Len(u) /\ 2 <= b + 1
          /\ \A j \in 1..(b - 2 + 1) : 2 + j - 1 \in 1..Len(u) /\ ~(m <= 2 + j - 1)
      BY <1>7, <2>2, <2>3
    <3>2. p = SubSeq(u, 2, b)
      OBVIOUS
    <3>. HIDE DEF b, p
    <3>3. IsRecordText(SubSeq(u, 2, b))
      BY <1>6, <3>1, SubIsText
    <3>4. Len(SubSeq(u, 2, b)) = b - 2 + 1 /\ \A j \in 1..(b - 2 + 1) : SubSeq(u, 2, b)[j] = u[2 + j - 1]
      BY <1>7, <3>1, SubIs
    <3>5. ASSUME NEW j \in 1..Len(p) PROVE p[j] # ")"
      BY <2>2, <3>1, <3>2, <3>4
    <3>. QED
      BY <3>2, <3>3, <3>5
  <2>. HIDE DEF p
  <2>5. PICK set : IsParameterSet(set) /\ ParseDeviceParameters(p) = {set}
    BY <2>1, <2>4, ListHasParameters
  <2>. QED
    BY <1>5, <1>9, <2>1, <2>5
<1>. QED
  BY <1>10, <1>11

\* The elements of a finite set in some order.
LEMMA PermutationIs ==
  ASSUME NEW set, IsFiniteSet(set), NEW q \in SetToSeqs(set)
  PROVE  /\ q \in Seq(set)
         /\ q = <<>> <=> set = {}
         /\ \A i, j \in 1..Len(q) : q[i] = q[j] => i = j
         /\ set = {q[i] : i \in 1..Len(q)}
<1>. DEFINE n == Cardinality(set)
<1>1. n \in Nat /\ (n = 0 <=> set = {})
  BY FS_CardinalityType, FS_EmptySet
<1>2. q \in [1..n -> set] /\ \A i, j \in 1..n : i # j => q[i] # q[j]
  BY DEF SetToSeqs
<1>3. IsFiniteSet(1..n) /\ Cardinality(1..n) = n
  BY <1>1, FS_Interval
<1>4. q \in Injection(1..n, set)
  BY <1>2 DEF Injection, IsInjective
<1>5. q \in Surjection(1..n, set)
  BY <1>3, <1>4, FS_Injection
<1>6. set = {q[i] : i \in 1..n}
  BY <1>2, <1>5 DEF Surjection
<1>. HIDE DEF n
<1>7. q \in Seq(set) /\ Len(q) = n
  BY <1>1, <1>2, SeqDef
<1>8. q = <<>> <=> n = 0
  BY <1>1, <1>7
<1>. QED
  BY <1>1, <1>2, <1>6, <1>7, <1>8

\* The text of one more parameter, and what the recursive definition of JoinedText says.
NextText(q, x, k) == x \o (IF k = 1 THEN <<>> ELSE <<Comma>>) \o ParameterText(q[k])
\* s is the function of these texts up to m.
Texts(q, m, s) == s = [k \in 0..m |-> IF k = 0 THEN <<>> ELSE NextText(q, s[k - 1], k)]

\* It exists for every m.
LEMMA TextsExist ==
  ASSUME NEW q, NEW m \in Nat
  PROVE  \E s : Texts(q, m, s)
<1>. DEFINE T == {n \in Nat : \E s : Texts(q, n, s)}
<1>1. 0 \in T
  <2>. DEFINE s == [k \in 0..0 |-> <<>>]
  <2>1. Texts(q, 0, s)
    BY DEF Texts
  <2>. QED
    BY <2>1
<1>2. ASSUME NEW n \in Nat, n \in T PROVE n + 1 \in T
  <2>1. PICK s : Texts(q, n, s)
    BY <1>2
  <2>. DEFINE t == [k \in 0..(n + 1) |-> IF k = n + 1 THEN NextText(q, s[n], n + 1) ELSE s[k]]
  <2>2. ASSUME NEW k \in 0..(n + 1)
        PROVE  t[k] = IF k = 0 THEN <<>> ELSE NextText(q, t[k - 1], k)
    <3>1. CASE k = 0
      BY <2>1, <3>1 DEF Texts
    <3>2. CASE k \in 1..n
      <4>1. t[k] = s[k] /\ t[k - 1] = s[k - 1]
        BY <3>2
      <4>2. s[k] = NextText(q, s[k - 1], k)
        BY <2>1, <3>2 DEF Texts
      <4>. QED
        BY <3>2, <4>1, <4>2
    <3>3. CASE k = n + 1
      <4>1. t[k] = NextText(q, s[n], n + 1) /\ t[k - 1] = s[n] /\ k # 0
        BY <3>3
      <4>. QED
        BY <3>3, <4>1
    <3>. QED
      BY <3>1, <3>2, <3>3
  <2>3. t = [k \in 0..(n + 1) |-> IF k = 0 THEN <<>> ELSE NextText(q, t[k - 1], k)]
    BY <2>2
  <2>4. Texts(q, n + 1, t)
    BY <2>3 DEF Texts
  <2>. QED
    BY <2>4
<1>. HIDE DEF T
<1>3. Nat \subseteq T
  BY <1>1, <1>2, SetOfAllNaturals
<1>. QED
  BY <1>3 DEF T

\* JoinedText is the last of these texts.
LEMMA JoinedTextIs ==
  ASSUME NEW q, Len(q) \in Nat
  PROVE  \E s : Texts(q, Len(q), s) /\ JoinedText(q) = s[Len(q)]
<1>. DEFINE s == CHOOSE t : Texts(q, Len(q), t)
<1>1. Texts(q, Len(q), s)
  BY TextsExist
<1>2. JoinedText(q) = s[Len(q)]
  BY Zenon DEF JoinedText, Texts, NextText, Comma
<1>. QED
  BY <1>1, <1>2

\* A text without commas is one part.
LEMMA SinglePart ==
  ASSUME NEW v \in Seq(TextTokens), \A j \in 1..Len(v) : v[j] # Comma
  PROVE  DOMAIN ParametersAt(v) = {0} /\ ParametersAt(v)[0] = ParameterOf(v)
<1>1. Len(v) \in Nat
  OBVIOUS
<1>2. DOMAIN ParametersAt(v) = {0} \union {a \in 1..Len(v) : v[a] = Comma}
  BY PartsAt
<1>. DEFINE b == Len(v) + 1
<1>3. b \in (0 + 1)..(Len(v) + 1) /\ 0 \in 0..Len(v) /\ b - 1 = Len(v) /\ 0 + 1 = 1
  BY <1>1
<1>4. IsListPart(v, 0, b)
  BY <1>3 DEF IsListPart
<1>5. SubSeq(v, 1, Len(v)) = v
  BY <1>1
<1>. HIDE DEF b
<1>6. ParametersAt(v)[0] = ParameterOf(SubSeq(v, 0 + 1, b - 1))
  BY <1>4, PartsAt
<1>. QED
  BY <1>2, <1>3, <1>5, <1>6

\* The parameter of one part.
LEMMA PartAt ==
  ASSUME NEW s \in Seq(TextTokens), NEW a, NEW b, IsListPart(s, a, b)
  PROVE  ParametersAt(s)[a] = ParameterOf(SubSeq(s, a + 1, b - 1))
BY PartsAt, Zenon

\* The parameters of t are those of u and, behind u, the one of v.
HasPartMore(t, u, v) ==
  /\ DOMAIN ParametersAt(t) = DOMAIN ParametersAt(u) \union {Len(u) + 1}
  /\ \A a \in DOMAIN ParametersAt(u) : ParametersAt(t)[a] = ParametersAt(u)[a]
  /\ ParametersAt(t)[Len(u) + 1] = ParameterOf(v)

\* Behind a comma, the next part begins.
LEMMA AppendPart ==
  ASSUME NEW u \in Seq(TextTokens), NEW v \in Seq(TextTokens), \A j \in 1..Len(v) : v[j] # Comma,
         NEW t, t = u \o <<Comma>> \o v
  PROVE  HasPartMore(t, u, v)
<1>. DEFINE m == <<Comma>>
            w == u \o m
            x == Len(u) + 1
<1>1. m \in Seq(TextTokens) /\ Len(m) = 1 /\ m[1] = Comma
  BY MarksAreTokens, TokenIsText
<1>. HIDE DEF m
<1>2. /\ w \in Seq(TextTokens) /\ Len(w) = Len(u) + 1
      /\ \A i \in 1..(Len(u) + 1) : w[i] = IF i <= Len(u) THEN u[i] ELSE m[i - Len(u)]
  <2>1. Len(w) = Len(u) + Len(m) /\ w \in Seq(TextTokens)
        /\ \A i \in 1..(Len(u) + Len(m)) : w[i] = IF i <= Len(u) THEN u[i] ELSE m[i - Len(u)]
    BY <1>1, ConcatProperties
  <2>. HIDE DEF w
  <2>. QED
    BY <1>1, <2>1
<1>3. t = w \o v
  BY DEF m
<1>. HIDE DEF w
<1>4. /\ t \in Seq(TextTokens) /\ Len(t) = Len(w) + Len(v)
      /\ \A i \in 1..(Len(w) + Len(v)) : t[i] = IF i <= Len(w) THEN w[i] ELSE v[i - Len(w)]
  BY <1>2, <1>3, ConcatProperties
<1>5. Len(u) \in Nat /\ Len(v) \in Nat /\ Len(w) \in Nat /\ Len(t) \in Nat /\ x \in Nat \ {0}
  BY <1>2, <1>4
<1>6. Len(t) = x + Len(v) /\ Len(u) = x - 1 /\ Len(w) = x
  BY <1>2, <1>4, <1>5
<1>. HIDE DEF x
<1>7. ASSUME NEW i \in 1..(x - 1) PROVE t[i] = u[i]
  <2>1. i \in 1..(Len(u) + 1) /\ i <= Len(u) /\ i <= Len(w) /\ i \in 1..(Len(w) + Len(v))
    BY <1>5, <1>6
  <2>. QED
    BY <1>2, <1>4, <2>1
<1>8. t[x] = Comma
  <2>1. x \in 1..(Len(u) + 1) /\ ~(x <= Len(u)) /\ x - Len(u) = 1 /\ x <= Len(w) /\ x \in 1..(Len(w) + Len(v))
    BY <1>5, <1>6
  <2>. QED
    BY <1>1, <1>2, <1>4, <2>1
<1>9. ASSUME NEW i \in (x + 1)..Len(t) PROVE t[i] # Comma
  <2>1. i - x \in 1..Len(v) /\ ~(i <= Len(w)) /\ i - Len(w) = i - x /\ i \in 1..(Len(w) + Len(v))
    BY <1>5, <1>6
  <2>. QED
    BY <1>4, <2>1
<1>10. DOMAIN ParametersAt(t) = {0} \union {a \in 1..Len(t) : t[a] = Comma}
  BY <1>4, PartsAt
<1>11. DOMAIN ParametersAt(u) = {0} \union {a \in 1..Len(u) : u[a] = Comma}
  BY PartsAt
<1>12. DOMAIN ParametersAt(t) = DOMAIN ParametersAt(u) \union {x}
  <2>1. \A a \in 1..Len(t) : a \in 1..(x - 1) \/ a = x \/ a \in (x + 1)..Len(t)
    BY <1>5
  <2>2. \A a \in 1..(x - 1) : a \in 1..Len(t)
    BY <1>5, <1>6
  <2>3. x \in 1..Len(t)
    BY <1>5, <1>6
  <2>4. 1..Len(u) = 1..(x - 1)
    BY <1>6
  <2>5. {a \in 1..Len(t) : t[a] = Comma} = {a \in 1..(x - 1) : u[a] = Comma} \union {x}
    BY <1>7, <1>8, <1>9, <2>1, <2>2, <2>3
  <2>. QED
    BY <1>10, <1>11, <2>4, <2>5
<1>13. ASSUME NEW a \in DOMAIN ParametersAt(u) PROVE ParametersAt(t)[a] = ParametersAt(u)[a]
  <2>1. PICK b : IsListPart(u, a, b)
    BY PartsAt
  <2>2. /\ a \in 0..Len(u) /\ b \in (a + 1)..(Len(u) + 1)
        /\ (a = 0 \/ u[a] = Comma) /\ (b = Len(u) + 1 \/ u[b] = Comma)
        /\ \A i \in (a + 1)..(b - 1) : u[i] # Comma
    BY <2>1 DEF IsListPart
  <2>. DEFINE c == a + 1
              d == b - 1
  <2>3. /\ a \in 0..Len(t) /\ b \in (a + 1)..(Len(t) + 1) /\ (a = 0 \/ a \in 1..(x - 1))
        /\ (b = x \/ b \in 1..(x - 1)) /\ (b = Len(u) + 1 <=> b = x)
        /\ \A i \in (a + 1)..(b - 1) : i \in 1..(x - 1)
    BY <1>5, <1>6, <2>2
  <2>4. (a = 0 \/ t[a] = Comma) /\ (b = Len(t) + 1 \/ t[b] = Comma)
    BY <1>7, <1>8, <2>2, <2>3
  <2>5. \A i \in (a + 1)..(b - 1) : t[i] # Comma
    BY <1>7, <2>2, <2>3
  <2>6. IsListPart(t, a, b)
    BY <2>3, <2>4, <2>5 DEF IsListPart
  <2>7. /\ c \in Nat \ {0} /\ d \in Nat /\ d <= Len(u) /\ d <= Len(t) /\ c <= d + 1
        /\ \A j \in 1..(d - c + 1) : c + j - 1 \in 1..(x - 1)
    BY <1>5, <1>6, <2>2, SMTT(30)
  <2>13. t \in Seq(TextTokens)
    BY <1>4
  <2>14. ParametersAt(t)[a] = ParameterOf(SubSeq(t, a + 1, b - 1))
    BY <2>6, <2>13, PartAt
  <2>15. ParametersAt(u)[a] = ParameterOf(SubSeq(u, a + 1, b - 1))
    BY <2>1, PartAt
  <2>8. ParametersAt(t)[a] = ParameterOf(SubSeq(t, c, d)) /\ ParametersAt(u)[a] = ParameterOf(SubSeq(u, c, d))
    BY <2>14, <2>15
  <2>. HIDE DEF c, d
  <2>9. /\ SubSeq(t, c, d) \in Seq(TextTokens) /\ Len(SubSeq(t, c, d)) = d - c + 1
        /\ \A j \in 1..(d - c + 1) : SubSeq(t, c, d)[j] = t[c + j - 1]
    BY <1>4, <2>7, SubIs
  <2>10. /\ SubSeq(u, c, d) \in Seq(TextTokens) /\ Len(SubSeq(u, c, d)) = d - c + 1
         /\ \A j \in 1..(d - c + 1) : SubSeq(u, c, d)[j] = u[c + j - 1]
    BY <2>7, SubIs
  <2>11. \A j \in 1..(d - c + 1) : SubSeq(t, c, d)[j] = SubSeq(u, c, d)[j]
    BY <1>7, <2>7, <2>9, <2>10
  <2>12. SubSeq(t, c, d) = SubSeq(u, c, d)
    BY <2>9, <2>10, <2>11, SeqEqual
  <2>. QED
    BY <2>8, <2>12
<1>14. ParametersAt(t)[x] = ParameterOf(v)
  <2>. DEFINE b == Len(t) + 1
  <2>1. x \in 0..Len(t) /\ b \in (x + 1)..(Len(t) + 1) /\ (x + 1)..(b - 1) = (x + 1)..Len(t) /\ b - 1 = Len(t)
    BY <1>5, <1>6
  <2>2. IsListPart(t, x, b)
    BY <1>8, <1>9, <2>1 DEF IsListPart
  <2>3. SubSeq(t, x + 1, Len(t)) = v
    <3>1. From(w \o v, Len(w) + 1) = v
      BY <1>2, PartsOfConcat
    <3>2. From(t, x + 1) = v
      BY <1>3, <1>6, <3>1
    <3>. QED
      BY <3>2 DEF From
  <2>5. t \in Seq(TextTokens)
    BY <1>4
  <2>. HIDE DEF b
  <2>4. ParametersAt(t)[x] = ParameterOf(SubSeq(t, x + 1, b - 1))
    BY <2>2, <2>5, PartAt
  <2>. QED
    BY <2>1, <2>3, <2>4
<1>. QED
  BY <1>12, <1>13, <1>14 DEF x, HasPartMore

\* x is the text of the first k parameters of q.
IsListOf(q, k, x) ==
  /\ IsRecordText(x) /\ x # <<>> /\ \A j \in 1..Len(x) : x[j] # ")"
  /\ \E m : /\ DOMAIN m = 1..k
            /\ \A i \in 1..k : m[i] \in DOMAIN ParametersAt(x) /\ ParametersAt(x)[m[i]] = q[i]
            /\ \A i, j \in 1..k : m[i] = m[j] => i = j
            /\ \A c \in DOMAIN ParametersAt(x) : \E i \in 1..k : m[i] = c

\* The text of the first parameter.
LEMMA FirstList ==
  ASSUME NEW q, IsParameter(q[1])
  PROVE  IsListOf(q, 1, NextText(q, <<>>, 1))
<1>. DEFINE x == ParameterText(q[1])
            p == q[1]
<1>1. /\ IsRecordText(x) /\ x # <<>> /\ \A j \in 1..Len(x) : x[j] # Comma /\ x[j] # ")"
      /\ ParameterOf(x) = q[1]
  BY ParameterTextIs
<1>2. x \in Seq(TextTokens)
  BY <1>1, RecordTextIs
<1>3. NextText(q, <<>>, 1) = x
  <2>1. NextText(q, <<>>, 1) = <<>> \o <<>> \o x
    BY DEF NextText
  <2>. HIDE DEF x
  <2>. QED
    BY <1>2, <2>1
<1>. HIDE DEF x
<1>4. DOMAIN ParametersAt(x) = {0} /\ ParametersAt(x)[0] = q[1]
  BY <1>1, <1>2, SinglePart
<1>. DEFINE m == [i \in 1..1 |-> 0]
<1>5. /\ DOMAIN m = 1..1
      /\ \A i \in 1..1 : m[i] \in DOMAIN ParametersAt(x) /\ ParametersAt(x)[m[i]] = q[i]
      /\ \A i, j \in 1..1 : m[i] = m[j] => i = j
      /\ \A c \in DOMAIN ParametersAt(x) : \E i \in 1..1 : m[i] = c
  BY <1>4
<1>6. IsListOf(q, 1, x)
  BY <1>1, <1>5 DEF IsListOf
<1>. QED
  BY <1>3, <1>6

\* The text of one parameter more.
LEMMA NextList ==
  ASSUME NEW q, NEW k \in Nat, k # 0, IsParameter(q[k + 1]), NEW x, IsListOf(q, k, x)
  PROVE  IsListOf(q, k + 1, NextText(q, x, k + 1))
<1>. DEFINE v == ParameterText(q[k + 1])
            y == x \o <<Comma>>
            t == y \o v
            n == k + 1
<1>1. /\ IsRecordText(v) /\ v # <<>> /\ \A j \in 1..Len(v) : v[j] # Comma /\ v[j] # ")"
      /\ ParameterOf(v) = q[n]
  BY ParameterTextIs
<1>2. IsRecordText(x) /\ x # <<>> /\ \A j \in 1..Len(x) : x[j] # ")"
  BY DEF IsListOf
<1>3. x \in Seq(TextTokens) /\ v \in Seq(TextTokens)
  BY <1>1, <1>2, RecordTextIs
<1>4. n \in Nat /\ n # 1 /\ 1..n = 1..k \union {n} /\ n \notin 1..k
  OBVIOUS
<1>5. NextText(q, x, n) = t
  BY <1>4 DEF NextText
<1>27. t = x \o <<Comma>> \o v
  OBVIOUS
<1>28. t = y \o v
  OBVIOUS
<1>. HIDE DEF t, v
<1>. DEFINE d == <<Comma>>
<1>6. d \in Seq(TextTokens) /\ Len(d) = 1 /\ d[1] = Comma /\ IsRecordText(d) /\ d[Len(d)] # "space" /\ d[1] # "space" /\ d[1] # ")"
  BY MarksAreTokens, TokenIsText, CommaIs
<1>7. /\ DOMAIN ParametersAt(t) = DOMAIN ParametersAt(x) \union {Len(x) + 1}
      /\ \A a \in DOMAIN ParametersAt(x) : ParametersAt(t)[a] = ParametersAt(x)[a]
      /\ ParametersAt(t)[Len(x) + 1] = ParameterOf(v)
  <2>1. x \in Seq(TextTokens) /\ v \in Seq(TextTokens) /\ \A j \in 1..Len(v) : v[j] # Comma
    BY <1>1, <1>3
  <2>2. HasPartMore(t, x, v)
    BY <1>27, <2>1, AppendPart
  <2>. QED
    BY <2>2 DEF HasPartMore
<1>8. /\ DOMAIN ParametersAt(x) = {0} \union {a \in 1..Len(x) : x[a] = Comma}
  BY <1>3, PartsAt
<1>9. Len(x) \in Nat /\ Len(v) \in Nat
  BY <1>3
<1>. HIDE DEF d
<1>10. y = x \o d
  BY DEF d
<1>. HIDE DEF y
<1>11. IsRecordText(y) /\ y \in Seq(TextTokens) /\ Len(y) = Len(x) + 1
       /\ \A i \in 1..(Len(x) + 1) : y[i] = IF i <= Len(x) THEN x[i] ELSE d[i - Len(x)]
  <2>1. IsRecordText(y)
    BY <1>2, <1>6, <1>10, ConcatIsText
  <2>2. y \in Seq(TextTokens) /\ Len(y) = Len(x) + Len(d)
        /\ \A i \in 1..(Len(x) + Len(d)) : y[i] = IF i <= Len(x) THEN x[i] ELSE d[i - Len(x)]
    BY <1>3, <1>6, <1>10, ConcatProperties
  <2>. QED
    BY <1>6, <2>1, <2>2
<1>12. y[Len(y)] # "space" /\ \A j \in 1..Len(y) : y[j] # ")"
  <2>1. Len(y) \in 1..(Len(x) + 1) /\ ~(Len(y) <= Len(x)) /\ Len(y) - Len(x) = 1
    BY <1>9, <1>11
  <2>2. y[Len(y)] = d[1]
    BY <1>11, <2>1
  <2>3. \A j \in 1..Len(y) : (j \in 1..Len(x) /\ j <= Len(x)) \/ j = Len(y)
    BY <1>9, <1>11
  <2>. QED
    BY <1>2, <1>6, <1>11, <2>2, <2>3
<1>13. IsRecordText(t)
  BY <1>1, <1>11, <1>12, <1>28, ConcatIsText
<1>14. Len(t) = Len(y) + Len(v)
       /\ \A i \in 1..(Len(y) + Len(v)) : t[i] = IF i <= Len(y) THEN y[i] ELSE v[i - Len(y)]
  BY <1>3, <1>11, <1>28, ConcatProperties
<1>15. t # <<>>
  <2>1. Len(t) # 0
    BY <1>9, <1>11, <1>14
  <2>. QED
    BY <2>1
<1>16. ASSUME NEW i \in 1..Len(t) PROVE t[i] # ")"
  <2>1. i \in 1..(Len(y) + Len(v)) /\ ((i \in 1..Len(y) /\ i <= Len(y)) \/ (~(i <= Len(y)) /\ i - Len(y) \in 1..Len(v)))
    <3>1. Len(y) \in Nat /\ Len(v) \in Nat /\ Len(t) = Len(y) + Len(v)
      BY <1>9, <1>11, <1>14
    <3>. QED
      BY <3>1
  <2>. QED
    BY <1>1, <1>12, <1>14, <2>1
<1>17. PICK m : /\ DOMAIN m = 1..k
                /\ \A i \in 1..k : m[i] \in DOMAIN ParametersAt(x) /\ ParametersAt(x)[m[i]] = q[i]
                /\ \A i, j \in 1..k : m[i] = m[j] => i = j
                /\ \A c \in DOMAIN ParametersAt(x) : \E i \in 1..k : m[i] = c
  BY DEF IsListOf
<1>. DEFINE e == Len(x) + 1
            r == [i \in 1..n |-> IF i = n THEN e ELSE m[i]]
<1>18. e \notin DOMAIN ParametersAt(x)
  BY <1>8, <1>9
<1>19. \A i \in 1..k : i \in 1..n /\ i # n
  BY <1>4
<1>20. n \in 1..n
  BY <1>4
<1>. HIDE DEF e, n
<1>21. DOMAIN r = 1..n /\ r[n] = e /\ \A i \in 1..k : r[i] = m[i]
  BY <1>19, <1>20
<1>. HIDE DEF r
<1>22. DOMAIN ParametersAt(t) = DOMAIN ParametersAt(x) \union {e} /\ ParametersAt(t)[e] = ParameterOf(v)
  BY <1>7 DEF e
<1>23. \A i \in 1..n : r[i] \in DOMAIN ParametersAt(t) /\ ParametersAt(t)[r[i]] = q[i]
  <2>1. r[n] \in DOMAIN ParametersAt(t) /\ ParametersAt(t)[r[n]] = q[n]
    <3>1. r[n] = e
      BY <1>21
    <3>2. ParameterOf(v) = q[n]
      BY <1>1
    <3>. QED
      BY <1>22, <3>1, <3>2
  <2>2. ASSUME NEW i \in 1..k PROVE r[i] \in DOMAIN ParametersAt(t) /\ ParametersAt(t)[r[i]] = q[i]
    <3>1. r[i] = m[i] /\ m[i] \in DOMAIN ParametersAt(x) /\ ParametersAt(x)[m[i]] = q[i]
      BY <1>17, <1>21
    <3>. QED
      BY <1>7, <3>1
  <2>. QED
    BY <1>4, <2>1, <2>2
<1>24. \A i, j \in 1..n : r[i] = r[j] => i = j
  <2>1. \A i \in 1..k : r[i] # r[n]
    BY <1>17, <1>18, <1>21
  <2>2. \A i, j \in 1..k : r[i] = r[j] => i = j
    BY <1>17, <1>21
  <2>. QED
    BY <1>4, <2>1, <2>2
<1>25. \A c \in DOMAIN ParametersAt(t) : \E i \in 1..n : r[i] = c
  BY <1>4, <1>17, <1>20, <1>21, <1>22
<1>26. IsListOf(q, n, t)
  BY <1>13, <1>15, <1>16, <1>21, <1>23, <1>24, <1>25 DEF IsListOf
<1>. QED
  BY <1>5, <1>26 DEF n

\* The joined texts of some parameters are read as these parameters.
LEMMA JoinedParses ==
  ASSUME NEW q, Len(q) \in Nat \ {0}, DOMAIN q = 1..Len(q), \A i \in 1..Len(q) : IsParameter(q[i]),
         AreProper(q)
  PROVE  /\ IsRecordText(JoinedText(q)) /\ JoinedText(q) # <<>>
         /\ \A j \in 1..Len(JoinedText(q)) : JoinedText(q)[j] # ")"
         /\ ParseDeviceParameters(JoinedText(q)) = {{q[i] : i \in 1..Len(q)}}
<1>. DEFINE n == Len(q)
<1>1. PICK s : Texts(q, n, s) /\ JoinedText(q) = s[n]
  BY JoinedTextIs
<1>2. /\ \A k \in 0..n : s[k] = IF k = 0 THEN <<>> ELSE NextText(q, s[k - 1], k)
  BY <1>1 DEF Texts
<1>3. n \in Nat /\ n # 0
  OBVIOUS
<1>4. \A i \in 1..n : IsParameter(q[i])
  OBVIOUS
<1>. HIDE DEF n
<1>. DEFINE T == {k \in Nat : k < n => IsListOf(q, k + 1, s[k + 1])}
<1>5. 0 \in T
  <2>1. 0 \in 0..n /\ 1 \in 0..n /\ 1 \in 1..n /\ 1 - 1 = 0 /\ 0 + 1 = 1
    BY <1>3
  <2>2. s[0] = <<>> /\ s[1] = NextText(q, s[1 - 1], 1)
    BY <1>2, <2>1
  <2>3. IsListOf(q, 1, s[1])
    BY <1>4, <2>1, <2>2, FirstList
  <2>. QED
    BY <2>1, <2>3
<1>6. ASSUME NEW k \in Nat, k \in T PROVE k + 1 \in T
  <2>1. SUFFICES ASSUME k + 1 < n PROVE IsListOf(q, (k + 1) + 1, s[(k + 1) + 1])
    OBVIOUS
  <2>. DEFINE a == k + 1
              b == a + 1
  <2>2. a \in Nat /\ a # 0 /\ k < n /\ b \in 0..n /\ b \in 1..n /\ b # 0 /\ b - 1 = a
    BY <1>3, <2>1
  <2>3. IsListOf(q, a, s[a])
    BY <1>6, <2>2
  <2>. HIDE DEF a
  <2>4. IsParameter(q[a + 1])
    BY <1>4, <2>2
  <2>5. IsListOf(q, a + 1, NextText(q, s[a], a + 1))
    BY <2>2, <2>3, <2>4, NextList
  <2>6. s[b] = NextText(q, s[a], b)
    BY <1>2, <2>2
  <2>7. IsListOf(q, b, s[b])
    BY <2>5, <2>6
  <2>. QED
    BY <2>7 DEF a
<1>. HIDE DEF T
<1>7. Nat \subseteq T
  BY <1>5, <1>6, SetOfAllNaturals
<1>. DEFINE x == JoinedText(q)
<1>8. IsListOf(q, n, x)
  <2>1. n - 1 \in T /\ n - 1 < n /\ (n - 1) + 1 = n
    BY <1>3, <1>7
  <2>2. IsListOf(q, (n - 1) + 1, s[(n - 1) + 1])
    BY <2>1 DEF T
  <2>. QED
    BY <1>1, <2>1, <2>2
<1>. HIDE DEF x
<1>9. IsRecordText(x) /\ x # <<>> /\ \A j \in 1..Len(x) : x[j] # ")"
  BY <1>8 DEF IsListOf
<1>10. PICK m : /\ DOMAIN m = 1..n
                /\ \A i \in 1..n : m[i] \in DOMAIN ParametersAt(x) /\ ParametersAt(x)[m[i]] = q[i]
                /\ \A i, j \in 1..n : m[i] = m[j] => i = j
                /\ \A c \in DOMAIN ParametersAt(x) : \E i \in 1..n : m[i] = c
  BY <1>8 DEF IsListOf
<1>11. DOMAIN q = 1..n
  BY DEF n
<1>. DEFINE g == ParametersAt(x)
<1>12. x \in Seq(TextTokens)
  BY <1>9, RecordTextIs
<1>13. DOMAIN g = DOMAIN SplitString(x, Comma)
  BY <1>12, PartsAt
<1>14. ParseDeviceParameters(x) = IF AreProper(g) THEN {{g[c] : c \in DOMAIN g}} ELSE {}
  BY <1>9, <1>13, ParametersAre
<1>. HIDE DEF g
<1>15. /\ AreProper(g) <=> AreProper(q)
       /\ {g[c] : c \in DOMAIN g} = {q[a] : a \in DOMAIN q}
  <2>1. DOMAIN m = DOMAIN q
    BY <1>10, <1>11
  <2>2. \A a \in DOMAIN q : m[a] \in DOMAIN g /\ g[m[a]] = q[a]
    BY <1>10, <1>11 DEF g
  <2>3. \A a, b \in DOMAIN q : m[a] = m[b] => a = b
    BY <1>10, <1>11
  <2>4. \A c \in DOMAIN g : \E a \in DOMAIN q : m[a] = c
    BY <1>10, <1>11 DEF g
  <2>. QED
    BY ONLY <2>1, <2>2, <2>3, <2>4, SameParameters
<1>16. ParseDeviceParameters(x) = {{q[i] : i \in 1..n}}
  BY <1>11, <1>14, <1>15
<1>. QED
  BY <1>9, <1>16 DEF x, n

\* Two elements in a row.
LEMMA PairIs ==
  ASSUME NEW x, NEW y
  PROVE  <<x>> \o <<y>> = <<x, y>>
<1>. DEFINE S == {x, y}
            u == <<x>>
            v == <<y>>
            w == <<x, y>>
<1>1. u \in Seq(S) /\ Len(u) = 1 /\ u[1] = x /\ v \in Seq(S) /\ Len(v) = 1 /\ v[1] = y
  OBVIOUS
<1>2. w \in Seq(S) /\ Len(w) = 2 /\ w[1] = x /\ w[2] = y
  OBVIOUS
<1>. HIDE DEF u, v, w, S
<1>3. u \o v \in Seq(S) /\ Len(u \o v) = Len(u) + Len(v)
      /\ \A i \in 1..(Len(u) + Len(v)) : (u \o v)[i] = IF i <= Len(u) THEN u[i] ELSE v[i - Len(u)]
  BY <1>1, ConcatProperties
<1>4. u \o v = w
  BY <1>1, <1>2, <1>3, SeqEqual
<1>. QED
  BY <1>4 DEF u, v, w

\* The PLC address a and the optional data type as a text.
MemoryText(a, type) == <<a>> \o (IF type = {} THEN <<>> ELSE <<"space", CHOOSE t \in type : TRUE>>)

\* This text is read as the PLC address and the data type.
LEMMA MemoryParses ==
  ASSUME NEW a \in PlcAddressWords, NEW type, IsOptionalType(type), NEW n, NEW parameters
  PROVE  /\ IsRecordText(MemoryText(a, type)) /\ MemoryText(a, type) # <<>>
         /\ MemoryText(a, type)[1] \in Words
         /\ MemoryText(a, type)[Len(MemoryText(a, type))] \in Words
         /\ ParseMemory(n, parameters, MemoryText(a, type)) = Result(n, parameters, {a}, type, TRUE)
<1>. DEFINE z == MemoryText(a, type)
<1>1. a \in Words /\ a \in TextTokens
  BY WordAssumption DEF TextTokens
<1>2. a # "space"
  BY <1>1, WordsAre
<1>. DEFINE q == <<a>>
<1>3. IsRecordText(q) /\ q \in Seq(TextTokens) /\ Len(q) = 1 /\ q[1] = a
  BY <1>1, TokenIsText
<1>. HIDE DEF q
<1>4. CASE type = {}
  <2>1. z = q
    <3>1. z = <<a>> \o <<>>
      BY <1>4 DEF MemoryText
    <3>2. q \o <<>> = q
      BY <1>3
    <3>. QED
      BY <3>1, <3>2 DEF q
  <2>2. Positions(q, {"space"}) = {}
    BY <1>2, <1>3 DEF Positions
  <2>3. StringToPlcDataType(<<>>) = {}
    BY DEF StringToPlcDataType
  <2>4. ParseMemory(n, parameters, q) =
          IF Len(q) # 1 \/ q[1] \notin PlcAddressWords
          THEN Result(n, parameters, {}, {}, FALSE)
          ELSE Result(n, parameters, {q[1]}, StringToPlcDataType(<<>>), <<>> = <<>> \/ StringToPlcDataType(<<>>) # {})
    BY <2>2 DEF ParseMemory
  <2>5. (<<>> = <<>> \/ StringToPlcDataType(<<>>) # {}) = TRUE
    OBVIOUS
  <2>6. ParseMemory(n, parameters, q) = Result(n, parameters, {a}, type, TRUE)
    BY <1>3, <1>4, <2>3, <2>4, <2>5
  <2>7. q # <<>>
    BY <1>3
  <2>. QED
    BY <1>1, <1>3, <2>1, <2>6, <2>7
<1>5. ASSUME NEW d \in PlcDataTypes, type = {d}
      PROVE  /\ IsRecordText(z) /\ z # <<>> /\ z[1] \in Words /\ z[Len(z)] \in Words
             /\ ParseMemory(n, parameters, z) = Result(n, parameters, {a}, type, TRUE)
  <2>. DEFINE r == <<"space">>
              w == <<d>>
              v == r \o w
  <2>1. d \in Words /\ d \in TextTokens
    BY WordAssumption DEF TextTokens
  <2>2. z = q \o v
    <3>1. type # {} /\ (CHOOSE t \in type : TRUE) = d
      BY <1>5
    <3>2. z = <<a>> \o <<"space", d>>
      BY <3>1 DEF MemoryText
    <3>3. <<"space">> \o <<d>> = <<"space", d>>
      BY PairIs
    <3>. QED
      BY <3>2, <3>3 DEF q
  <2>3. IsRecordText(r) /\ r \in Seq(TextTokens) /\ Len(r) = 1 /\ r[1] = "space"
    BY MarksAreTokens, TokenIsText
  <2>4. IsRecordText(w) /\ w \in Seq(TextTokens) /\ Len(w) = 1 /\ w[1] = d
    BY <2>1, TokenIsText
  <2>5. d # "space"
    BY <2>1, WordsAre
  <2>. HIDE DEF r, w
  <2>6. IsRecordText(v)
    BY <2>3, <2>4, <2>5, ConcatIsText
  <2>7. v \in Seq(TextTokens) /\ Len(v) = 2 /\ v[1] = "space" /\ v[2] = d
    BY <2>3, <2>4, ConcatProperties
  <2>8. From(v, 2) = w
    <3>1. From(v, Len(r) + 1) = w
      BY <2>3, <2>4, PartsOfConcat
    <3>. HIDE DEF v
    <3>. QED
      BY <2>3, <3>1
  <2>. HIDE DEF v
  <2>. DEFINE t == q \o v
  <2>9. IsRecordText(t)
    BY <1>2, <1>3, <2>6, ConcatIsText
  <2>10. t \in Seq(TextTokens) /\ Len(t) = 3 /\ t[1] = a /\ t[2] = "space" /\ t[3] = d
    <3>1. t \in Seq(TextTokens) /\ Len(t) = Len(q) + Len(v)
          /\ \A i \in 1..(Len(q) + Len(v)) : t[i] = IF i <= Len(q) THEN q[i] ELSE v[i - Len(q)]
      BY <1>3, <2>7, ConcatProperties
    <3>. HIDE DEF t
    <3>2. \A i \in 1..3 : t[i] = IF i <= 1 THEN q[i] ELSE v[i - 1]
      BY <1>3, <2>7, <3>1
    <3>3. 1 \in 1..3 /\ 2 \in 1..3 /\ 3 \in 1..3 /\ 2 - 1 = 1 /\ 3 - 1 = 2 /\ 1 <= 1 /\ ~(2 <= 1) /\ ~(3 <= 1)
      OBVIOUS
    <3>4. t[1] = q[1] /\ t[2] = v[1] /\ t[3] = v[2]
      BY <3>2, <3>3
    <3>. QED
      BY <1>3, <2>7, <3>1, <3>4
  <2>11. Before(t, 2) = q /\ From(t, 2) = v
    <3>1. Before(t, Len(q) + 1) = q /\ From(t, Len(q) + 1) = v
      BY <1>3, <2>7, PartsOfConcat
    <3>. HIDE DEF t
    <3>. QED
      BY <1>3, <3>1
  <2>. HIDE DEF t
  <2>12. From(t, 3) = w
    <3>1. 2 \in 1..(Len(t) + 1) /\ 2 \in 1..(Len(t) - 2 + 2) /\ 2 + 2 - 1 = 3
      BY <2>10
    <3>2. From(From(t, 2), 2) = From(t, 2 + 2 - 1)
      BY <2>10, <3>1, FromOfFrom
    <3>. QED
      BY <2>8, <2>11, <3>1, <3>2
  <2>13. Positions(t, {"space"}) # {} /\ Least(Positions(t, {"space"})) = 2
    <3>1. 2 \in 1..Len(t) /\ t[2] \in {"space"} /\ \A k \in 1..Len(t) : k = 1 \/ 2 <= k
      BY <2>10
    <3>2. \A k \in 1..Len(t) : t[k] \in {"space"} => 2 <= k
      BY <1>2, <2>10, <3>1
    <3>. QED
      BY <2>10, <3>1, <3>2, LeastPositionAt
  <2>14. StringToPlcDataType(w) = {d}
    BY <1>5, <2>4 DEF StringToPlcDataType
  <2>15. ParseMemory(n, parameters, t) =
           IF Len(q) # 1 \/ q[1] \notin PlcAddressWords
           THEN Result(n, parameters, {}, {}, FALSE)
           ELSE Result(n, parameters, {q[1]}, StringToPlcDataType(w), w = <<>> \/ StringToPlcDataType(w) # {})
    <3>1. 2 + 1 = 3
      OBVIOUS
    <3>. QED
      BY <2>11, <2>12, <2>13, <3>1 DEF ParseMemory
  <2>16. (w = <<>> \/ StringToPlcDataType(w) # {}) = TRUE
    BY <2>14
  <2>17. ParseMemory(n, parameters, t) = Result(n, parameters, {a}, type, TRUE)
    BY <1>3, <1>5, <2>14, <2>15, <2>16
  <2>18. t # <<>>
    BY <2>10
  <2>. QED
    BY <1>1, <2>1, <2>2, <2>9, <2>10, <2>17, <2>18 DEF t
<1>. QED
  BY <1>4, <1>5 DEF IsOptionalType

\* t is the text u and then the text v.
IsThen(t, u, v) == u \in Seq(TextTokens) /\ v \in Seq(TextTokens) /\ t = u \o v

\* From the position x on, s is the text w.
Continues(s, x, w) == x \in 1..(Len(s) + 1) /\ From(s, x) = w

\* What follows after the first part of w.
LEMMA ContinuesWith ==
  ASSUME NEW s \in Seq(TextTokens), NEW t, NEW u, NEW v, IsThen(t, u, v),
         NEW x, NEW y, Continues(s, x, t), y = x + Len(u)
  PROVE  /\ Continues(s, y, v) /\ SubSeq(s, x, y - 1) = u
         /\ x \in Nat \ {0} /\ y \in Nat /\ x <= y
         /\ \A i \in 1..Len(u) : s[x + i - 1] = u[i]
<1>0. u \in Seq(TextTokens) /\ v \in Seq(TextTokens)
  BY DEF IsThen
<1>. DEFINE w == u \o v
            m == Len(u) + 1
<1>1. /\ w \in Seq(TextTokens) /\ Len(w) = Len(u) + Len(v)
      /\ \A i \in 1..(Len(u) + Len(v)) : w[i] = IF i <= Len(u) THEN u[i] ELSE v[i - Len(u)]
  BY <1>0, ConcatProperties
<1>2. Before(w, m) = u /\ From(w, m) = v
  BY <1>0, PartsOfConcat
<1>. HIDE DEF w
<1>3. x \in 1..(Len(s) + 1) /\ From(s, x) = w
  BY DEF Continues, IsThen, w
<1>4. Len(w) = Len(s) - x + 1 /\ \A j \in 1..(Len(s) - x + 1) : w[j] = s[x + j - 1]
  BY <1>3, FromIs
<1>5. Len(u) \in Nat /\ Len(v) \in Nat /\ Len(s) \in Nat
  BY <1>0
<1>6. Len(s) - x + 1 = Len(u) + Len(v)
  BY <1>1, <1>4
<1>7. /\ y \in 1..(Len(s) + 1) /\ m \in 1..(Len(s) - x + 2) /\ x + m - 1 = y
      /\ x \in Nat \ {0} /\ y \in Nat /\ x <= y
  BY <1>3, <1>5, <1>6
<1>. HIDE DEF m
<1>8. From(s, y) = v
  <2>1. From(From(s, x), m) = From(s, x + m - 1)
    BY <1>3, <1>7, FromOfFrom
  <2>. QED
    BY <1>2, <1>3, <1>7, <2>1
<1>9. SubSeq(s, x, y - 1) = u
  <2>. DEFINE d == m - 1
  <2>1. d \in Nat /\ d <= Len(s) - x + 1 /\ 1 <= d + 1 /\ x + 1 - 1 = x /\ x + d - 1 = y - 1 /\ 1 \in Nat \ {0}
    BY <1>5, <1>6, <1>7 DEF m
  <2>2. SubSeq(w, 1, d) = u
    BY <1>2 DEF Before
  <2>. HIDE DEF d
  <2>3. SubSeq(From(s, x), 1, d) = SubSeq(s, x + 1 - 1, x + d - 1)
    BY <1>3, <2>1, SubOfFrom
  <2>. QED
    BY <1>3, <2>1, <2>2, <2>3
<1>10. ASSUME NEW i \in 1..Len(u) PROVE s[x + i - 1] = u[i]
  <2>1. i \in 1..(Len(u) + Len(v)) /\ i <= Len(u) /\ i \in 1..(Len(s) - x + 1)
    BY <1>5, <1>6
  <2>. QED
    BY <1>1, <1>4, <2>1
<1>. QED
  BY <1>7, <1>8, <1>9, <1>10 DEF Continues

\* The text of a device address with the parameters q.
AddressText(n, q, a, type) ==
  n \o ParametersText(q) \o <<"space", a>>
    \o (IF type = {} THEN <<>> ELSE <<"space", CHOOSE t \in type : TRUE>>)

\* The tokens of two texts in a row, and when they are a text.
LEMMA ThenIs ==
  ASSUME NEW t, NEW u, NEW v, IsThen(t, u, v)
  PROVE  /\ u \in Seq(TextTokens) /\ v \in Seq(TextTokens)
         /\ t \in Seq(TextTokens) /\ Len(t) = Len(u) + Len(v)
         /\ \A i \in 1..(Len(u) + Len(v)) : t[i] = IF i <= Len(u) THEN u[i] ELSE v[i - Len(u)]
         /\ IsRecordText(u) /\ IsRecordText(v) /\ (u = <<>> \/ v = <<>> \/ u[Len(u)] # "space" \/ v[1] # "space")
              => IsRecordText(t)
<1>. DEFINE w == u \o v
<1>1. u \in Seq(TextTokens) /\ v \in Seq(TextTokens) /\ t = w
  BY DEF IsThen
<1>2. /\ w \in Seq(TextTokens) /\ Len(w) = Len(u) + Len(v)
      /\ \A i \in 1..(Len(u) + Len(v)) : w[i] = IF i <= Len(u) THEN u[i] ELSE v[i - Len(u)]
  BY <1>1, ConcatProperties
<1>3. IsRecordText(u) /\ IsRecordText(v) /\ (u = <<>> \/ v = <<>> \/ u[Len(u)] # "space" \/ v[1] # "space")
        => IsRecordText(w)
  BY ConcatIsText
<1>. HIDE DEF w
<1>. QED
  BY <1>1, <1>2, <1>3

\* Three texts in a row.
LEMMA ThenAssociative ==
  ASSUME NEW t, NEW u, NEW v, NEW w, NEW x, NEW y, IsThen(x, u, v), IsThen(t, x, w), IsThen(y, v, w)
  PROVE  IsThen(t, u, y)
<1>1. u \in Seq(TextTokens) /\ v \in Seq(TextTokens) /\ w \in Seq(TextTokens) /\ y \in Seq(TextTokens)
  BY ThenIs
<1>2. x = u \o v /\ t = x \o w /\ y = v \o w
  BY DEF IsThen
<1>3. (u \o v) \o w = u \o (v \o w)
  BY ONLY <1>1, ConcatAssociative
<1>. QED
  BY <1>1, <1>2, <1>3 DEF IsThen

\* The parts of this text.
LEMMA AddressTextIs ==
  ASSUME NEW n \in Seq(TextTokens), NEW q, ParametersText(q) \in Seq(TextTokens),
         NEW a \in PlcAddressWords, NEW type, IsOptionalType(type)
  PROVE  \E x, y : /\ IsThen(AddressText(n, q, a, type), n, x) /\ IsThen(x, ParametersText(q), y)
                   /\ IsThen(y, <<"space">>, MemoryText(a, type))
<1>. DEFINE w == IF type = {} THEN <<>> ELSE <<"space", CHOOSE t \in type : TRUE>>
            p == ParametersText(q)
            u == <<"space">>
            v == <<a>>
<1>1. a \in TextTokens
  BY WordAssumption DEF TextTokens
<1>2. u \in Seq(TextTokens) /\ v \in Seq(TextTokens)
  BY <1>1, MarksAreTokens, TokenIsText
<1>3. w \in Seq(TextTokens)
  <2>1. CASE type = {}
    BY <2>1
  <2>2. ASSUME NEW d \in PlcDataTypes, type = {d} PROVE w \in Seq(TextTokens)
    <3>1. d \in TextTokens
      BY WordAssumption DEF TextTokens
    <3>2. w = <<"space", d>>
      <4>1. type # {} /\ (CHOOSE t \in type : TRUE) = d
        BY <2>2
      <4>. QED
        BY <4>1
    <3>. HIDE DEF w
    <3>. QED
      BY <3>1, <3>2, MarksAreTokens
  <2>. QED
    BY <2>1, <2>2 DEF IsOptionalType
<1>4. <<"space", a>> = u \o v
  BY PairIs
<1>. DEFINE b == n \o p
            c == u \o v
            d == b \o c
            t == AddressText(n, q, a, type)
            m == MemoryText(a, type)
            y == c \o w
            x == p \o y
<1>5. t = n \o p \o (u \o v) \o w
  BY <1>4 DEF AddressText
<1>6. t = d \o w
  BY <1>5
<1>7. m = v \o w
  BY DEF MemoryText
<1>. HIDE DEF p, u, v, w, t, m
<1>8. p \in Seq(TextTokens)
  BY DEF p
<1>9. b \in Seq(TextTokens) /\ c \in Seq(TextTokens)
  BY <1>2, <1>8, ConcatProperties
<1>10. IsThen(b, n, p) /\ IsThen(c, u, v) /\ IsThen(m, v, w)
  BY <1>2, <1>3, <1>7, <1>8 DEF IsThen
<1>. HIDE DEF b, c
<1>11. d \in Seq(TextTokens) /\ y \in Seq(TextTokens)
  BY <1>3, <1>9, ConcatProperties
<1>12. IsThen(d, b, c) /\ IsThen(y, c, w)
  BY <1>3, <1>9 DEF IsThen
<1>. HIDE DEF d, y
<1>13. IsThen(t, d, w) /\ IsThen(x, p, y)
  BY <1>3, <1>6, <1>8, <1>11 DEF IsThen
<1>. HIDE DEF x
<1>14. IsThen(y, u, m)
  BY <1>10, <1>12, ThenAssociative
<1>15. IsThen(t, b, y)
  BY <1>12, <1>13, ThenAssociative
<1>16. IsThen(t, n, x)
  BY <1>10, <1>13, <1>15, ThenAssociative
<1>17. IsThen(t, n, x) /\ IsThen(x, p, y) /\ IsThen(y, u, m)
  BY <1>13, <1>14, <1>16
<1>. QED
  BY <1>17 DEF t, p, u, m

\* The white space before the PLC address is left out when the text is read.
LEMMA MemoryAt ==
  ASSUME NEW s \in Seq(TextTokens), NEW z \in Seq(TextTokens), z # <<>>, NEW x, NEW r, NEW w, r = <<"space">>,
         IsThen(w, r, z), Continues(s, x, w)
  PROVE  /\ x \in 1..Len(s) /\ s[x] = "space" /\ TrimLeft(From(s, x)) = z
         /\ s[Len(s)] = z[Len(z)]
<1>1. r \in Seq(TextTokens) /\ Len(r) = 1 /\ r[1] = "space"
  BY MarksAreTokens, TokenIsText
<1>2. x \in 1..(Len(s) + 1) /\ Len(s) \in Nat /\ Len(z) \in Nat /\ Len(z) # 0
  BY DEF Continues
<1>. DEFINE y == x + 1
<1>3. y = x + Len(r) /\ y - 1 = x /\ 1 \in 1..Len(r) /\ x + 1 - 1 = x
  BY <1>1, <1>2
<1>. HIDE DEF y
<1>4. Continues(s, y, z) /\ s[x + 1 - 1] = r[1]
  <2>1. y = x + Len(r)
    BY <1>3
  <2>2. Continues(s, y, z)
    BY ONLY <2>1, s \in Seq(TextTokens), IsThen(w, r, z), Continues(s, x, w), ContinuesWith
  <2>3. \A i \in 1..Len(r) : s[x + i - 1] = r[i]
    BY ONLY <2>1, s \in Seq(TextTokens), IsThen(w, r, z), Continues(s, x, w), ContinuesWith
  <2>. QED
    BY <1>3, <2>2, <2>3
<1>5. y \in 1..(Len(s) + 1) /\ From(s, y) = z
  BY <1>4 DEF Continues
<1>6. Len(z) = Len(s) - y + 1 /\ \A j \in 1..(Len(s) - y + 1) : z[j] = s[y + j - 1]
  BY <1>5, FromIs
<1>7. x \in 1..Len(s)
  BY <1>2, <1>5 DEF y
<1>8. s[x] = "space"
  BY <1>1, <1>3, <1>4
<1>9. TrimLeft(From(s, x)) = z
  <2>1. TrimLeft(From(s, x)) = From(s, x + 1)
    BY <1>7, <1>8, TrimLeftFrom
  <2>. QED
    BY <1>5, <2>1 DEF y
<1>10. s[Len(s)] = z[Len(z)]
  <2>1. Len(z) \in 1..(Len(s) - y + 1) /\ y + Len(z) - 1 = Len(s)
    BY <1>2, <1>5, <1>6
  <2>2. z[Len(z)] = s[y + Len(z) - 1]
    BY <1>6, <2>1
  <2>. QED
    BY <2>1, <2>2
<1>. QED
  BY <1>7, <1>8, <1>9, <1>10

\* Some order of the parameters of an address.
LEMMA ParametersInOrder ==
  ASSUME NEW set, IsParameterSet(set), NEW q \in SetToSeqs(set)
  PROVE  /\ q = <<>> <=> set = {}
         /\ Len(q) \in Nat /\ DOMAIN q = 1..Len(q) /\ \A i \in 1..Len(q) : IsParameter(q[i])
         /\ AreProper(q) /\ set = {q[i] : i \in 1..Len(q)}
<1>1. IsFiniteSet(set) /\ (\A p \in set : IsParameter(p) /\ p.name # <<>>)
      /\ \A p, r \in set : p.name = r.name => p = r
  <2>1. CASE set = {}
    BY <2>1, FS_EmptySet
  <2>2. ASSUME NEW f, AreParametersOf(set, f)
        PROVE  IsFiniteSet(set) /\ (\A p \in set : IsParameter(p) /\ p.name # <<>>)
               /\ \A p, r \in set : p.name = r.name => p = r
    <3>1. IsFiniteSet(DOMAIN f) /\ AreProper(f) /\ set = {f[a] : a \in DOMAIN f} /\ \A a \in DOMAIN f : IsParameter(f[a])
      BY <2>2 DEF AreParametersOf
    <3>. DEFINE g == [a \in DOMAIN f |-> f[a]]
    <3>2. g \in Surjection(DOMAIN f, set)
      BY <3>1 DEF Surjection
    <3>. HIDE DEF g
    <3>3. IsFiniteSet(set)
      BY <3>1, <3>2, FS_Surjection
    <3>. QED
      BY <3>1, <3>3 DEF AreProper
  <2>. QED
    BY <2>1, <2>2 DEF IsParameterSet
<1>2. /\ q \in Seq(set)
      /\ q = <<>> <=> set = {}
      /\ \A i, j \in 1..Len(q) : q[i] = q[j] => i = j
      /\ set = {q[i] : i \in 1..Len(q)}
  BY <1>1, PermutationIs
<1>3. Len(q) \in Nat /\ DOMAIN q = 1..Len(q) /\ \A i \in 1..Len(q) : q[i] \in set
  BY <1>2
<1>4. \A i \in 1..Len(q) : IsParameter(q[i]) /\ q[i].name # <<>>
  BY <1>1, <1>3
<1>5. ASSUME NEW i \in 1..Len(q), NEW j \in 1..Len(q), q[i].name = q[j].name PROVE i = j
  <2>1. q[i] = q[j]
    BY <1>1, <1>3, <1>5
  <2>. QED
    BY <1>2, <2>1
<1>6. AreProper(q)
  BY <1>3, <1>4, <1>5 DEF AreProper
<1>. QED
  BY <1>2, <1>3, <1>4, <1>6

\* A text that begins with the name of a port.
LEMMA PortAt ==
  ASSUME NEW n, IsPort(n), NEW t, NEW x, IsThen(t, n, x), NEW e, e = Len(n) + 1
  PROVE  /\ Continues(t, e, x) /\ Before(t, e) = n
         /\ e \in Nat /\ 2 <= e /\ t \in Seq(TextTokens) /\ t[1] # "space"
         /\ \A j \in 1..(e - 1) : t[j] # "space" /\ t[j] # "("
<1>1. /\ n \in Seq(TextTokens) /\ t \in Seq(TextTokens) /\ Len(t) = Len(n) + Len(x) /\ x \in Seq(TextTokens)
  BY ThenIs
<1>2. IsRecordText(n) /\ n # <<>> /\ \A j \in 1..Len(n) : n[j] # "space" /\ n[j] # "("
  BY DEF IsPort
<1>3. Len(n) \in Nat \ {0} /\ Len(t) \in Nat /\ e = 1 + Len(n) /\ 1 \in Nat
  BY <1>1, <1>2
<1>4. Continues(t, 1, t)
  <2>1. From(t, 1) = t
    BY <1>1, SubSeqFull DEF From
  <2>. QED
    BY <1>3, <2>1 DEF Continues
<1>5. Continues(t, e, x) /\ SubSeq(t, 1, e - 1) = n
  BY ONLY <1>1, <1>3, <1>4, IsThen(t, n, x), ContinuesWith
<1>6. \A i \in 1..Len(n) : t[1 + i - 1] = n[i]
  BY ONLY <1>1, <1>3, <1>4, IsThen(t, n, x), ContinuesWith, SMTT(30)
<1>7. e \in Nat /\ 2 <= e /\ e - 1 = Len(n) /\ \A i \in 1..Len(n) : 1 + i - 1 = i
  BY <1>1, <1>3
<1>8. \A j \in 1..(e - 1) : t[j] # "space" /\ t[j] # "("
  BY <1>2, <1>6, <1>7
<1>9. t[1] # "space"
  BY <1>7, <1>8
<1>. QED
  BY <1>1, <1>5, <1>7, <1>8, <1>9 DEF Before

\* The text of an address without parameters.
LEMMA PlainAddressParses ==
  ASSUME NEW n, IsPort(n), NEW a \in PlcAddressWords, NEW type, IsOptionalType(type),
         NEW t, NEW y, IsThen(t, n, y), IsThen(y, <<"space">>, MemoryText(a, type))
  PROVE  /\ IsRecordText(t) /\ IsTrimmed(t)
         /\ ParseTrimmed(t) = Result(n, {{}}, {a}, type, TRUE)
<1>. DEFINE m == MemoryText(a, type)
            r == <<"space">>
            e == Len(n) + 1
<1>1. /\ IsRecordText(m) /\ m # <<>> /\ m[1] \in Words /\ m[Len(m)] \in Words
      /\ ParseMemory(n, {{}}, m) = Result(n, {{}}, {a}, type, TRUE)
  BY MemoryParses
<1>2. m[1] # "space" /\ m[1] # "(" /\ m[Len(m)] # "space"
  BY <1>1, WordsAre
<1>3. IsRecordText(r) /\ Len(r) = 1 /\ r[1] = "space"
  BY MarksAreTokens, TokenIsText
<1>4. IsThen(y, r, m)
  OBVIOUS
<1>5. /\ Continues(t, e, y) /\ Before(t, e) = n
      /\ e \in Nat /\ 2 <= e /\ t \in Seq(TextTokens) /\ t[1] # "space"
      /\ \A j \in 1..(e - 1) : t[j] # "space" /\ t[j] # "("
  BY PortAt
<1>6. r = <<"space">>
  OBVIOUS
<1>. HIDE DEF m, r, e
<1>7. IsRecordText(y)
  BY <1>1, <1>2, <1>3, <1>4, ThenIs
<1>8. IsRecordText(t)
  <2>1. IsRecordText(n) /\ n # <<>> /\ \A j \in 1..Len(n) : n[j] # "space"
    BY DEF IsPort
  <2>2. n \in Seq(TextTokens)
    BY ThenIs
  <2>3. n[Len(n)] # "space"
    <3>1. Len(n) \in 1..Len(n)
      BY <2>1, <2>2
    <3>. QED
      BY <2>1, <3>1
  <2>. QED
    BY <1>7, <2>1, <2>3, ThenIs
<1>9. m \in Seq(TextTokens)
  BY <1>4, ThenIs
<1>10. e \in 1..Len(t) /\ t[e] = "space" /\ TrimLeft(From(t, e)) = m /\ t[Len(t)] = m[Len(m)]
  BY <1>1, <1>4, <1>5, <1>6, <1>9, MemoryAt
<1>11. IsTrimmed(t)
  BY <1>2, <1>5, <1>10 DEF IsTrimmed
<1>. DEFINE ends == Positions(t, {"space", "("})
<1>12. ends # {} /\ Least(ends) = e
  <2>1. t[e] \in {"space", "("}
    BY <1>10
  <2>2. ASSUME NEW k \in 1..Len(t), t[k] \in {"space", "("} PROVE e <= k
    <3>1. k \notin 1..(e - 1)
      BY <1>5, <2>2
    <3>. QED
      BY <1>5, <3>1
  <2>. QED
    BY <1>5, <1>10, <2>1, <2>2, LeastPositionAt
<1>13. ParseTrimmed(t) = IF ends = {} \/ Least(ends) = 1
                         THEN Result(IF ends = {} THEN t ELSE <<>>, {}, {}, {}, FALSE)
                         ELSE ParseParameters(Before(t, Least(ends)), TrimLeft(From(t, Least(ends))))
  BY DEF ParseTrimmed
<1>. HIDE DEF ends
<1>14. e # 1
  BY <1>5
<1>15. ParseTrimmed(t) = ParseParameters(n, m)
  BY <1>5, <1>10, <1>12, <1>13, <1>14
<1>16. ParseParameters(n, m) = ParseMemory(n, {{}}, m)
  BY <1>2 DEF ParseParameters
<1>. QED
  BY <1>1, <1>8, <1>11, <1>15, <1>16

\* t is the text of an address with j between parentheses.
IsListed(t, n, j, a, type) ==
  \E x, h, z, y : /\ IsThen(t, n, x) /\ IsThen(x, <<"(">>, h) /\ IsThen(h, j, z) /\ IsThen(z, <<")">>, y)
                  /\ IsThen(y, <<"space">>, MemoryText(a, type))

\* The text of an address with a list j of parameters in parentheses.
LEMMA ListedAddressParses ==
  ASSUME NEW n, IsPort(n), NEW a \in PlcAddressWords, NEW type, IsOptionalType(type),
         NEW j, IsRecordText(j), \A i \in 1..Len(j) : j[i] # ")",
         ParseDeviceParameters(j) # {},
         NEW t, IsListed(t, n, j, a, type)
  PROVE  /\ IsRecordText(t) /\ IsTrimmed(t)
         /\ ParseTrimmed(t) = Result(n, ParseDeviceParameters(j), {a}, type, TRUE)
<1>21. PICK x, h, z, y : /\ IsThen(t, n, x) /\ IsThen(x, <<"(">>, h) /\ IsThen(h, j, z) /\ IsThen(z, <<")">>, y)
                         /\ IsThen(y, <<"space">>, MemoryText(a, type))
  BY DEF IsListed
<1>. DEFINE m == MemoryText(a, type)
            r == <<"space">>
            o == <<"(">>
            c == <<")">>
            e == Len(n) + 1
            f == e + 1
            g == f + Len(j)
            k == g + 1
<1>1. /\ IsRecordText(m) /\ m # <<>> /\ m[1] \in Words /\ m[Len(m)] \in Words
      /\ ParseMemory(n, ParseDeviceParameters(j), m) = Result(n, ParseDeviceParameters(j), {a}, type, TRUE)
  BY MemoryParses
<1>2. m[1] # "space" /\ m[Len(m)] # "space"
  BY <1>1, WordsAre
<1>3. /\ IsRecordText(r) /\ Len(r) = 1 /\ r[1] = "space"
      /\ IsRecordText(o) /\ Len(o) = 1 /\ o[1] = "("
      /\ IsRecordText(c) /\ Len(c) = 1 /\ c[1] = ")"
  BY MarksAreTokens, TokenIsText
<1>4. IsThen(t, n, x) /\ IsThen(x, o, h) /\ IsThen(h, j, z) /\ IsThen(z, c, y) /\ IsThen(y, r, m)
  BY <1>21
<1>5. /\ Continues(t, e, x) /\ Before(t, e) = n
      /\ e \in Nat /\ 2 <= e /\ t \in Seq(TextTokens) /\ t[1] # "space"
      /\ \A i \in 1..(e - 1) : t[i] # "space" /\ t[i] # "("
  BY <1>4, PortAt
<1>6. r = <<"space">>
  OBVIOUS
<1>7. Len(j) \in Nat /\ j \in Seq(TextTokens) /\ m \in Seq(TextTokens) /\ Len(t) \in Nat
  BY <1>1, <1>5, RecordTextIs
<1>8. f \in Nat /\ g \in Nat /\ k \in Nat /\ f = e + 1 /\ k = g + 1 /\ f <= g /\ g = f + Len(j)
  BY <1>5, <1>7
<1>. HIDE DEF m, r, o, c, e, f, g, k
<1>9. IsRecordText(y)
  BY <1>1, <1>2, <1>3, <1>4, ThenIs
<1>10. IsRecordText(z) /\ z[1] = ")"
  <2>1. IsRecordText(z)
    BY <1>3, <1>4, <1>9, ThenIs
  <2>2. /\ Len(y) \in Nat
        /\ \A i \in 1..(Len(c) + Len(y)) : z[i] = IF i <= Len(c) THEN c[i] ELSE y[i - Len(c)]
    <3>1. y \in Seq(TextTokens)
      BY <1>4, ThenIs
    <3>2. \A i \in 1..(Len(c) + Len(y)) : z[i] = IF i <= Len(c) THEN c[i] ELSE y[i - Len(c)]
      BY <1>4, ThenIs
    <3>. QED
      BY <3>1, <3>2
  <2>3. 1 \in 1..(Len(c) + Len(y)) /\ 1 <= Len(c)
    BY <1>3, <2>2
  <2>4. z[1] = c[1]
    BY <2>2, <2>3
  <2>. QED
    BY <1>3, <2>1, <2>4
<1>11. IsRecordText(h)
  BY <1>4, <1>10, ThenIs
<1>12. IsRecordText(x)
  BY <1>3, <1>4, <1>11, ThenIs
<1>13. IsRecordText(t)
  <2>1. IsRecordText(n) /\ n # <<>> /\ \A i \in 1..Len(n) : n[i] # "space"
    BY DEF IsPort
  <2>2. n \in Seq(TextTokens)
    BY <1>4, ThenIs
  <2>3. n[Len(n)] # "space"
    <3>1. Len(n) \in 1..Len(n)
      BY <2>1, <2>2
    <3>. QED
      BY <2>1, <3>1
  <2>. QED
    BY <1>4, <1>12, <2>1, <2>3, ThenIs
<1>14. Continues(t, f, h) /\ t[e] = "("
  <2>1. f = e + Len(o) /\ 1 \in 1..Len(o) /\ e + 1 - 1 = e
    BY <1>3, <1>5, <1>8
  <2>2. t \in Seq(TextTokens) /\ IsThen(x, o, h) /\ Continues(t, e, x)
    BY <1>4, <1>5
  <2>3. Continues(t, f, h)
    BY ONLY <2>1, <2>2, ContinuesWith
  <2>4. \A i \in 1..Len(o) : t[e + i - 1] = o[i]
    BY ONLY <2>1, <2>2, ContinuesWith
  <2>. QED
    BY <1>3, <2>1, <2>3, <2>4
<1>15. Continues(t, g, z) /\ SubSeq(t, f, g - 1) = j /\ \A i \in 1..Len(j) : t[f + i - 1] = j[i]
  <2>1. t \in Seq(TextTokens) /\ IsThen(h, j, z) /\ Continues(t, f, h) /\ g = f + Len(j)
    BY <1>4, <1>5, <1>8, <1>14
  <2>2. Continues(t, g, z) /\ SubSeq(t, f, g - 1) = j
    BY ONLY <2>1, ContinuesWith
  <2>3. \A i \in 1..Len(j) : t[f + i - 1] = j[i]
    BY ONLY <2>1, ContinuesWith
  <2>. QED
    BY <2>2, <2>3
<1>16. Continues(t, k, y) /\ t[g] = ")"
  <2>1. k = g + Len(c) /\ 1 \in 1..Len(c) /\ g + 1 - 1 = g
    BY <1>3, <1>8
  <2>2. t \in Seq(TextTokens) /\ IsThen(z, c, y) /\ Continues(t, g, z)
    BY <1>4, <1>5, <1>15
  <2>3. Continues(t, k, y)
    BY ONLY <2>1, <2>2, ContinuesWith
  <2>4. \A i \in 1..Len(c) : t[g + i - 1] = c[i]
    BY ONLY <2>1, <2>2, ContinuesWith
  <2>. QED
    BY <1>3, <2>1, <2>3, <2>4
<1>17. k \in 1..Len(t) /\ TrimLeft(From(t, k)) = m /\ t[Len(t)] = m[Len(m)]
  BY <1>1, <1>4, <1>5, <1>6, <1>7, <1>16, MemoryAt
<1>18. IsTrimmed(t)
  BY <1>2, <1>5, <1>17 DEF IsTrimmed
<1>19. IsLayout(t, e, e, g)
  <2>1. /\ e \in 2..Len(t) /\ g \in (e + 1)..Len(t)
        /\ \A i \in (e + 1)..(g - 1) : i - e \in 1..Len(j) /\ f + (i - e) - 1 = i
    BY <1>5, <1>7, <1>8, <1>17
  <2>2. ASSUME NEW i \in (e + 1)..(g - 1) PROVE t[i] # ")"
    BY <1>15, <2>1
  <2>. QED
    BY <1>5, <1>14, <1>16, <2>1, <2>2 DEF IsLayout
<1>20. ParseTrimmed(t) = ParseMemory(n, ParseDeviceParameters(j), m)
  <2>. DEFINE p == ParseDeviceParameters(SubSeq(t, e + 1, g - 1))
  <2>1. p = ParseDeviceParameters(j) /\ p # {}
    BY <1>8, <1>15
  <2>2. ParseTrimmed(t) = IF p = {} THEN Result(Before(t, e), {}, {}, {}, FALSE)
                          ELSE ParseMemory(Before(t, e), p, TrimLeft(From(t, g + 1)))
    BY <1>5, <1>19, LayoutParses
  <2>. HIDE DEF p
  <2>. QED
    BY <1>5, <1>8, <1>17, <2>1, <2>2
<1>. QED
  BY <1>1, <1>13, <1>18, <1>20

\* A device address that is written in its canonical form and read again.
LEMMA AddressTextParses ==
  ASSUME NEW n, IsPort(n), NEW a \in PlcAddressWords, NEW type, IsOptionalType(type),
         NEW set, IsParameterSet(set), NEW q \in SetToSeqs(set)
  PROVE  /\ IsRecordText(AddressText(n, q, a, type))
         /\ ParseRecordAddress(AddressText(n, q, a, type)) = Result(n, {set}, {a}, type, TRUE)
<1>. DEFINE t == AddressText(n, q, a, type)
            p == ParametersText(q)
<1>1. /\ q = <<>> <=> set = {}
      /\ Len(q) \in Nat /\ DOMAIN q = 1..Len(q) /\ \A i \in 1..Len(q) : IsParameter(q[i])
      /\ AreProper(q) /\ set = {q[i] : i \in 1..Len(q)}
  BY ParametersInOrder
<1>2. n \in Seq(TextTokens)
  BY RecordTextIs DEF IsPort
<1>3. SUFFICES IsRecordText(t) /\ IsTrimmed(t) /\ ParseTrimmed(t) = Result(n, {set}, {a}, type, TRUE)
  <2>1. ASSUME NEW s, IsRecordText(s), IsTrimmed(s) PROVE ParseRecordAddress(s) = ParseTrimmed(s)
    <3>1. s \in Seq(TextTokens)
      BY <2>1, RecordTextIs
    <3>2. Trim(s) = s
      BY <2>1, <3>1, TrimOfTrimmed
    <3>. QED
      BY <3>2, ParseTrims
  <2>. HIDE DEF t
  <2>. QED
    BY <2>1 DEF t
<1>4. CASE q = <<>>
  <2>1. p = <<>>
    BY <1>4 DEF ParametersText
  <2>. DEFINE w == <<>>
  <2>2. w \in Seq(TextTokens)
    OBVIOUS
  <2>3. PICK x, y : IsThen(t, n, x) /\ IsThen(x, p, y) /\ IsThen(y, <<"space">>, MemoryText(a, type))
    BY <1>2, <2>1, <2>2, AddressTextIs
  <2>. HIDE DEF t, p
  <2>4. x = y
    BY <2>1, <2>3, ConcatEmptySeq DEF IsThen
  <2>5. IsThen(t, n, y)
    BY <2>3, <2>4
  <2>6. IsRecordText(t) /\ IsTrimmed(t) /\ ParseTrimmed(t) = Result(n, {{}}, {a}, type, TRUE)
    BY <2>3, <2>5, PlainAddressParses
  <2>. QED
    BY <1>1, <1>4, <2>6
<1>5. CASE q # <<>>
  <2>. DEFINE j == JoinedText(q)
              o == <<"(">>
              c == <<")">>
              d == o \o j
  <2>1. Len(q) \in Nat \ {0}
    <3>1. Len(q) # 0
      <4>1. set # {}
        BY <1>1, <1>5
      <4>. QED
        BY <1>1, <4>1
    <3>. QED
      BY <1>1, <3>1
  <2>2. /\ IsRecordText(j) /\ j # <<>> /\ \A i \in 1..Len(j) : j[i] # ")"
        /\ ParseDeviceParameters(j) = {set}
    <3>1. /\ IsRecordText(JoinedText(q)) /\ JoinedText(q) # <<>>
          /\ \A i \in 1..Len(JoinedText(q)) : JoinedText(q)[i] # ")"
          /\ ParseDeviceParameters(JoinedText(q)) = {{q[i] : i \in 1..Len(q)}}
      BY <1>1, <2>1, JoinedParses
    <3>. QED
      BY <1>1, <3>1
  <2>3. o \in Seq(TextTokens) /\ c \in Seq(TextTokens) /\ j \in Seq(TextTokens)
    BY <2>2, MarksAreTokens, TokenIsText, RecordTextIs
  <2>4. p = d \o c
    BY <1>5 DEF ParametersText
  <2>. HIDE DEF j, o, c
  <2>5. d \in Seq(TextTokens)
    BY <2>3, ConcatProperties
  <2>6. IsThen(d, o, j)
    BY <2>3 DEF IsThen
  <2>. HIDE DEF d
  <2>7. IsThen(p, d, c)
    BY <2>3, <2>4, <2>5 DEF IsThen
  <2>8. p \in Seq(TextTokens)
    BY <2>7, ThenIs
  <2>9. PICK x, y : IsThen(t, n, x) /\ IsThen(x, p, y) /\ IsThen(y, <<"space">>, MemoryText(a, type))
    BY <1>2, <2>8, AddressTextIs
  <2>. HIDE DEF t, p
  <2>. DEFINE z == c \o y
              h == j \o z
  <2>10. y \in Seq(TextTokens)
    BY <2>9, ThenIs
  <2>11. IsThen(z, c, y)
    BY <2>3, <2>10 DEF IsThen
  <2>. HIDE DEF z
  <2>12. z \in Seq(TextTokens)
    BY <2>11, ThenIs
  <2>13. IsThen(h, j, z)
    BY <2>3, <2>12 DEF IsThen
  <2>. HIDE DEF h
  <2>14. IsThen(x, d, z)
    BY <2>7, <2>9, <2>11, ThenAssociative
  <2>15. IsThen(x, o, h)
    BY <2>6, <2>13, <2>14, ThenAssociative
  <2>16. IsThen(x, <<"(">>, h) /\ IsThen(z, <<")">>, y)
    BY <2>11, <2>15 DEF o, c
  <2>17. IsListed(t, n, j, a, type)
    BY <2>9, <2>13, <2>16 DEF IsListed
  <2>18. ParseDeviceParameters(j) # {}
    BY <2>2
  <2>19. /\ IsRecordText(t) /\ IsTrimmed(t)
         /\ ParseTrimmed(t) = Result(n, ParseDeviceParameters(j), {a}, type, TRUE)
    <3>1. IsRecordText(j)
      BY <2>2
    <3>2. \A i \in 1..Len(j) : j[i] # ")"
      BY <2>2
    <3>. QED
      BY ONLY <2>17, <2>18, <3>1, <3>2, IsPort(n), a \in PlcAddressWords, IsOptionalType(type), ListedAddressParses
  <2>. QED
    BY <2>2, <2>19
<1>. QED
  BY <1>4, <1>5

\* Rewriting a text in its canonical form keeps its meaning.
LEMMA RewriteKeeps ==
  ASSUME IsRecordText(recordText), RewriteRecordAddress
  PROVE  IsRecordText(recordText') /\ ParseRecordAddress(recordText') = ParseRecordAddress(recordText)
<1>1. ParseRecordAddress(recordText).valid
  BY DEF RewriteRecordAddress
<1>2. PICK n, set, type : \E a \in PlcAddressWords :
        /\ IsPort(n) /\ IsParameterSet(set) /\ IsOptionalType(type)
        /\ ParseRecordAddress(recordText) = Result(n, {set}, {a}, type, TRUE)
  BY <1>1, ValidAddress
<1>3. PICK a \in PlcAddressWords :
        /\ IsPort(n) /\ IsParameterSet(set) /\ IsOptionalType(type)
        /\ ParseRecordAddress(recordText) = Result(n, {set}, {a}, type, TRUE)
  BY <1>2
<1>. DEFINE r == ParseRecordAddress(recordText)
<1>4. r.portName = n /\ r.parameters = {set} /\ r.plcAddress = {a} /\ r.plcDataType = type
  BY <1>3 DEF Result
<1>5. PICK q \in UNION {SetToSeqs(s) : s \in r.parameters} : \E b \in r.plcAddress :
        recordText' = r.portName \o ParametersText(q) \o <<"space", b>>
                        \o (IF r.plcDataType = {} THEN <<>> ELSE <<"space", CHOOSE t \in r.plcDataType : TRUE>>)
  BY DEF RewriteRecordAddress
<1>. HIDE DEF r
<1>6. q \in SetToSeqs(set)
  BY <1>4, <1>5
<1>7. recordText' = AddressText(n, q, a, type)
  BY <1>4, <1>5 DEF AddressText
<1>8. /\ IsRecordText(AddressText(n, q, a, type))
      /\ ParseRecordAddress(AddressText(n, q, a, type)) = Result(n, {set}, {a}, type, TRUE)
  <2>1. IsPort(n) /\ IsParameterSet(set) /\ IsOptionalType(type)
    BY <1>3
  <2>. QED
    BY ONLY <1>6, <2>1, a \in PlcAddressWords, AddressTextParses
<1>. QED
  BY <1>3, <1>7, <1>8

\* Every text of a device address is one, and no step changes its meaning.
LEMMA RecordTextStep ==
  ASSUME IsRecordText(recordText), [TextNext]_textVars
  PROVE  /\ IsRecordText(recordText)'
         /\ recordText' = recordText \/ ParseRecordAddress(recordText') = ParseRecordAddress(recordText)
<1>1. CASE recordText' = recordText
  BY <1>1
<1>2. CASE RemoveSpace
  <2>1. IsRecordText(recordText') /\ ParseRecordAddress(recordText') = ParseRecordAddress(recordText)
    BY <1>2, RemoveSpaceKeeps
  <2>. QED
    BY <2>1
<1>3. CASE RewriteRecordAddress
  <2>1. IsRecordText(recordText') /\ ParseRecordAddress(recordText') = ParseRecordAddress(recordText)
    BY <1>3, RewriteKeeps
  <2>. QED
    BY <2>1
<1>. QED
  BY <1>1, <1>2, <1>3 DEF TextNext, WritePlcAddress, TranslatePlcAddress, textVars

\* The layout of a device address and the order of its parameters do not matter, however many
\* parameters there are and however they are written.
THEOREM RecordAddressesKeepMeaning == TextSpec => RecordTextKeepsMeaning
<1>1. TextInit => IsRecordText(recordText)
  BY TextAssumption, NothingIsText DEF TextInit
<1>2. IsRecordText(recordText) /\ [TextNext]_textVars => IsRecordText(recordText)'
  BY RecordTextStep
<1>3. IsRecordText(recordText) /\ [TextNext]_textVars
        => [ParseRecordAddress(recordText') = ParseRecordAddress(recordText)]_recordText
  BY RecordTextStep
<1>. QED
  BY <1>1, <1>2, <1>3, PTL DEF TextSpec, RecordTextKeepsMeaning

------------------------------------------------------------------------------
(***************************************************************************)
(* Entry points.                                                           *)
(***************************************************************************)
USE DEF iocVars, portVars, recordVars, userVars, pollVars

\* The asynUser of a record or a poll group between the steps of its initialization: when all
\* is done, it is there if it has been a success, and until then it is there in any case.
AsynUserFollowsStep(o) ==
  IF step[o] = "idle"
  THEN /\ o \in users <=> HasSucceeded(o)
       /\ o \in connected <=> HasSucceeded(o)
       /\ o \in myAsynUser <=> HasSucceeded(o)
  ELSE /\ o \in users /\ o \in myAsynUser /\ ~HasSucceeded(o)
       /\ step[o] = "finding" => o \in connected
AsynUsersFollowSteps == \A o \in Owners : AsynUserFollowsStep(o)

\* Nothing that a scanned record depends on ever goes away.
ScannedRecordsCanBeScanned ==
  \A r \in Records :
    scan[r] = "I/O Intr" =>
      HasIoIntInfo(config[r]) /\ initialized[r] = "yes" /\ GroupOf[config[r]] \in pollGroups

GroupsKnowTheirRecords ==
  \A g \in Groups :
    requesters[g] = {r \in Records : scan[r] = "I/O Intr" /\ GroupOf[config[r]] = g}

\* Only a record whose initialization has succeeded has a request, and one whose
\* initialization has failed keeps PACT set.
FailedRecordsAreDisabled ==
  /\ ioc \in {"running", "paused"} => AllInitialized
  /\ \A r \in Records : r \in queued => initialized[r] = "yes"
  /\ \A r \in Records : initialized[r] = "failed" => r \in pact

\* The inductive invariant.
IInv ==
  /\ TypeOK
  /\ AsynUsersFollowSteps
  /\ ScannedRecordsCanBeScanned
  /\ GroupsKnowTheirRecords
  /\ FailedRecordsAreDisabled

\* The tables with get_ioint_info are those of input records.
LEMMA IoIntInfoIsForInput ==
  ASSUME NEW c, HasIoIntInfo(c)
  PROVE  c.recordType \in InputTypes
<1>1. PICK device \in Devices : device.recordType = c.recordType /\ device.getIoIntInfo
  BY DEF HasIoIntInfo
<1>2. device.recordType \in {"aai", "ai", "bi", "longin", "mbbi", "mbbiDirect", "stringin", "waveformIn"}
  BY <1>1 DEF Devices, Dset, devAaiS7nodave, devAaoS7nodave, devAiS7nodave, devAoS7nodave,
       devBiS7nodave, devBoS7nodave, devLonginS7nodave, devLongoutS7nodave, devMbbiS7nodave,
       devMbboS7nodave, devMbbiDirectS7nodave, devMbboDirectS7nodave, devStringinS7nodave,
       devStringoutS7nodave, devWaveformInS7nodave, devWaveformOutS7nodave
<1>3. \A t \in {"aai", "ai", "bi", "longin", "mbbi", "mbbiDirect", "stringin", "waveformIn"} :
        t \in RecordTypes /\ ClassOf[t].input
  BY DEF RecordTypes, ClassOf, Class, S7nodaveAaiRecord, S7nodaveAiRecord, S7nodaveBiRecord,
       S7nodaveLonginRecord, S7nodaveMbbiRecord, S7nodaveMbbiDirectRecord,
       S7nodaveStringinRecord, S7nodaveWaveformInRecord
<1>4. QED BY <1>1, <1>2, <1>3 DEF InputTypes

\* A record is not a poll group.
LEMMA RecordsAreNotGroups ==
  /\ \A r \in Records : r \notin Groups /\ r \in Owners
  /\ \A g \in Groups : g \notin Records /\ g \in Owners
BY DeviceSupportAssumption DEF Owners

\* The initial states satisfy the invariant.
LEMMA InitIInv == Init => IInv
<1> SUFFICES ASSUME Init PROVE IInv
  OBVIOUS
<1>1. TypeOK
  BY DEF Init, TypeOK, IocStates, Scans, Steps
<1>2. AsynUsersFollowSteps
  BY DEF Init, AsynUsersFollowSteps, AsynUserFollowsStep, HasSucceeded
<1>3. ScannedRecordsCanBeScanned /\ GroupsKnowTheirRecords /\ FailedRecordsAreDisabled
  BY DEF Init, ScannedRecordsCanBeScanned, GroupsKnowTheirRecords, FailedRecordsAreDisabled
<1>4. QED BY <1>1, <1>2, <1>3 DEF IInv

\* The steps of a creation or an initialization keep the types.
LEMMA TypeStepOfOwner ==
  ASSUME TypeOK, NEW o \in Owners,
         \/ ConnectDevice(o) \/ FreeAsynUser(o)
         \/ o \in Groups /\ (CreatePollGroup(o) \/ InsertPollGroup(o) \/ DestroyPollGroup(o))
         \/ o \in Records /\ (InitRecord(o) \/ CheckAddress(o) \/ FindInterfaces(o) \/ InitRecordError(o))
  PROVE  TypeOK'
<1> USE DEF TypeOK, GoTo, Steps
<1>1. CASE ConnectDevice(o)
  BY <1>1 DEF ConnectDevice
<1>2. CASE FreeAsynUser(o)
  BY <1>2 DEF FreeAsynUser
<1>3. CASE o \in Groups /\ CreatePollGroup(o)
  BY <1>3 DEF CreatePollGroup, CreateAsynUser
<1>4. CASE o \in Groups /\ InsertPollGroup(o)
  BY <1>4 DEF InsertPollGroup
<1>5. CASE o \in Groups /\ DestroyPollGroup(o)
  BY <1>5 DEF DestroyPollGroup
<1>6. CASE o \in Records /\ InitRecord(o)
  BY <1>6 DEF InitRecord, CreateAsynUser
<1>7. CASE o \in Records /\ CheckAddress(o)
  BY <1>7 DEF CheckAddress
<1>8. CASE o \in Records /\ FindInterfaces(o)
  BY <1>8 DEF FindInterfaces
<1>9. CASE o \in Records /\ InitRecordError(o)
  BY <1>9 DEF InitRecordError, PactAfter, CleanUp
<1>10. QED
  BY <1>1, <1>2, <1>3, <1>4, <1>5, <1>6, <1>7, <1>8, <1>9

\* Every step keeps the types.
LEMMA TypeStep ==
  ASSUME TypeOK, [Next]_vars
  PROVE  TypeOK'
<1>1. ASSUME NEW port \in Ports, ConfigureIsoTcpPort(port) PROVE TypeOK'
  BY <1>1 DEF ConfigureIsoTcpPort, TypeOK
<1>2. ASSUME NEW g \in Groups, CreatePollGroup(g) \/ FinishPollGroup(g) PROVE TypeOK'
  BY <1>2, RecordsAreNotGroups, TypeStepOfOwner DEF FinishPollGroup
<1>6. ASSUME NEW r \in Records, InitializeRecord(r) PROVE TypeOK'
  BY <1>6, RecordsAreNotGroups, TypeStepOfOwner DEF InitializeRecord
<1> USE DEF TypeOK, IocStates, Scans
<1>3. ASSUME IocInit PROVE TypeOK'
  BY <1>3 DEF IocInit
<1>4. ASSUME AfterIocRunning PROVE TypeOK'
  BY <1>4 DEF AfterIocRunning, Started
<1>5. ASSUME IocPause PROVE TypeOK'
  BY <1>5 DEF IocPause
<1>7. ASSUME NEW r \in Records, Process(r) PROVE TypeOK'
  BY <1>7 DEF Process
<1>8. ASSUME NEW r \in Records, Complete(r) PROVE TypeOK'
  BY <1>8 DEF Complete
<1>9. ASSUME NEW r \in Records, ScanAdd(r) PROVE TypeOK'
  BY <1>9 DEF ScanAdd
<1>10. ASSUME NEW r \in Records, ScanDelete(r) PROVE TypeOK'
  BY <1>10 DEF ScanDelete
<1>11. ASSUME NEW g \in Groups, Expire(g) \/ Respond(g) PROVE TypeOK'
  BY <1>11 DEF Expire, Respond
<1>12. CASE UNCHANGED vars
  BY <1>12 DEF vars
<1>13. QED
  BY <1>1, <1>2, <1>3, <1>4, <1>5, <1>6, <1>7, <1>8, <1>9, <1>10, <1>11, <1>12 DEF Next

\* A step of one record or poll group does not disturb the asynUsers of the others.
LEMMA StepOfOneOwner ==
  ASSUME AsynUsersFollowSteps, NEW o \in Owners, AsynUserFollowsStep(o)',
         \A x \in Owners \ {o} :
           /\ step'[x] = step[x]
           /\ x \in users' <=> x \in users
           /\ x \in connected' <=> x \in connected
           /\ x \in myAsynUser' <=> x \in myAsynUser
           /\ HasSucceeded(x)' <=> HasSucceeded(x)
  PROVE  AsynUsersFollowSteps'
<1>1. ASSUME NEW x \in Owners \ {o} PROVE AsynUserFollowsStep(x)'
  BY <1>1 DEF AsynUsersFollowSteps, AsynUserFollowsStep
<1>2. QED BY <1>1 DEF AsynUsersFollowSteps

\* The steps of a creation or an initialization create, connect and free its asynUser.
LEMMA AsynUserStep ==
  ASSUME TypeOK, AsynUsersFollowSteps, NEW o \in Owners,
         \/ ConnectDevice(o) \/ FreeAsynUser(o)
         \/ o \in Groups /\ (CreatePollGroup(o) \/ InsertPollGroup(o) \/ DestroyPollGroup(o))
         \/ o \in Records /\ (InitRecord(o) \/ CheckAddress(o) \/ FindInterfaces(o) \/ InitRecordError(o))
  PROVE  AsynUsersFollowSteps'
<1> USE DEF GoTo
<1>0. AsynUserFollowsStep(o) /\ step \in [Owners -> Steps]
  BY DEF AsynUsersFollowSteps, TypeOK
<1>1. CASE ConnectDevice(o)
  <2>1. \A x \in Owners \ {o} :
          /\ step'[x] = step[x]
          /\ x \in users' <=> x \in users
          /\ x \in connected' <=> x \in connected
          /\ x \in myAsynUser' <=> x \in myAsynUser
          /\ HasSucceeded(x)' <=> HasSucceeded(x)
    BY <1>0, <1>1 DEF ConnectDevice, HasSucceeded
  <2>2. AsynUserFollowsStep(o)'
    BY <1>0, <1>1 DEF ConnectDevice, AsynUserFollowsStep, HasSucceeded
  <2>3. QED BY <2>1, <2>2, StepOfOneOwner
<1>2. CASE FreeAsynUser(o)
  <2>1. \A x \in Owners \ {o} :
          /\ step'[x] = step[x]
          /\ x \in users' <=> x \in users
          /\ x \in connected' <=> x \in connected
          /\ x \in myAsynUser' <=> x \in myAsynUser
          /\ HasSucceeded(x)' <=> HasSucceeded(x)
    BY <1>0, <1>2 DEF FreeAsynUser, HasSucceeded
  <2>2. AsynUserFollowsStep(o)'
    BY <1>0, <1>2 DEF FreeAsynUser, AsynUserFollowsStep, HasSucceeded
  <2>3. QED BY <2>1, <2>2, StepOfOneOwner
<1>3. CASE o \in Groups /\ CreatePollGroup(o)
  <2>1. \A x \in Owners \ {o} :
          /\ step'[x] = step[x]
          /\ x \in users' <=> x \in users
          /\ x \in connected' <=> x \in connected
          /\ x \in myAsynUser' <=> x \in myAsynUser
          /\ HasSucceeded(x)' <=> HasSucceeded(x)
    BY <1>0, <1>3 DEF CreatePollGroup, CreateAsynUser, HasSucceeded
  <2>2. AsynUserFollowsStep(o)'
    BY <1>0, <1>3, RecordsAreNotGroups
       DEF CreatePollGroup, CreateAsynUser, AsynUserFollowsStep, HasSucceeded
  <2>3. QED BY <2>1, <2>2, StepOfOneOwner
<1>4. CASE o \in Groups /\ InsertPollGroup(o)
  <2>1. \A x \in Owners \ {o} :
          /\ step'[x] = step[x]
          /\ x \in users' <=> x \in users
          /\ x \in connected' <=> x \in connected
          /\ x \in myAsynUser' <=> x \in myAsynUser
          /\ HasSucceeded(x)' <=> HasSucceeded(x)
    BY <1>0, <1>4 DEF InsertPollGroup, HasSucceeded
  <2>2. AsynUserFollowsStep(o)'
    BY <1>0, <1>4, RecordsAreNotGroups
       DEF InsertPollGroup, AsynUserFollowsStep, HasSucceeded
  <2>3. QED BY <2>1, <2>2, StepOfOneOwner
<1>5. CASE o \in Groups /\ DestroyPollGroup(o)
  <2>1. \A x \in Owners \ {o} :
          /\ step'[x] = step[x]
          /\ x \in users' <=> x \in users
          /\ x \in connected' <=> x \in connected
          /\ x \in myAsynUser' <=> x \in myAsynUser
          /\ HasSucceeded(x)' <=> HasSucceeded(x)
    BY <1>0, <1>5 DEF DestroyPollGroup, HasSucceeded
  <2>2. AsynUserFollowsStep(o)'
    BY <1>0, <1>5 DEF DestroyPollGroup, AsynUserFollowsStep, HasSucceeded
  <2>3. QED BY <2>1, <2>2, StepOfOneOwner
<1>6. CASE o \in Records /\ InitRecord(o)
  <2>1. \A x \in Owners \ {o} :
          /\ step'[x] = step[x]
          /\ x \in users' <=> x \in users
          /\ x \in connected' <=> x \in connected
          /\ x \in myAsynUser' <=> x \in myAsynUser
          /\ HasSucceeded(x)' <=> HasSucceeded(x)
    BY <1>0, <1>6 DEF InitRecord, CreateAsynUser, HasSucceeded
  <2>2. AsynUserFollowsStep(o)'
    BY <1>0, <1>6 DEF InitRecord, CreateAsynUser, AsynUserFollowsStep, HasSucceeded
  <2>3. QED BY <2>1, <2>2, StepOfOneOwner
<1>7. CASE o \in Records /\ CheckAddress(o)
  <2>1. \A x \in Owners \ {o} :
          /\ step'[x] = step[x]
          /\ x \in users' <=> x \in users
          /\ x \in connected' <=> x \in connected
          /\ x \in myAsynUser' <=> x \in myAsynUser
          /\ HasSucceeded(x)' <=> HasSucceeded(x)
    BY <1>0, <1>7 DEF CheckAddress, HasSucceeded
  <2>2. AsynUserFollowsStep(o)'
    BY <1>0, <1>7 DEF CheckAddress, AsynUserFollowsStep, HasSucceeded
  <2>3. QED BY <2>1, <2>2, StepOfOneOwner
<1>8. CASE o \in Records /\ FindInterfaces(o)
  <2>0. \A q \in Records \ {o} : initialized'[q] = initialized[q]
    BY <1>8 DEF FindInterfaces, TypeOK
  <2>1. \A x \in Owners \ {o} :
          /\ step'[x] = step[x]
          /\ x \in users' <=> x \in users
          /\ x \in connected' <=> x \in connected
          /\ x \in myAsynUser' <=> x \in myAsynUser
          /\ HasSucceeded(x)' <=> HasSucceeded(x)
    BY <1>0, <1>8, <2>0 DEF FindInterfaces, HasSucceeded
  <2>2. AsynUserFollowsStep(o)'
    BY <1>0, <1>8 DEF FindInterfaces, AsynUserFollowsStep, HasSucceeded, TypeOK
  <2>3. QED BY <2>1, <2>2, StepOfOneOwner
<1>9. CASE o \in Records /\ InitRecordError(o)
  <2>0. \A q \in Records : initialized'[q] = IF q = o THEN "failed" ELSE initialized[q]
    BY <1>9 DEF InitRecordError, TypeOK
  <2>1. \A x \in Owners \ {o} :
          /\ step'[x] = step[x]
          /\ x \in users' <=> x \in users
          /\ x \in connected' <=> x \in connected
          /\ x \in myAsynUser' <=> x \in myAsynUser
          /\ HasSucceeded(x)' <=> HasSucceeded(x)
    BY <1>0, <1>9, <2>0 DEF InitRecordError, HasSucceeded
  <2>2. AsynUserFollowsStep(o)'
    BY <1>0, <1>9, <2>0 DEF InitRecordError, CleanUp, AsynUserFollowsStep, HasSucceeded
  <2>3. QED BY <2>1, <2>2, StepOfOneOwner
<1>10. QED
  BY <1>1, <1>2, <1>3, <1>4, <1>5, <1>6, <1>7, <1>8, <1>9

\* Every step keeps the asynUsers in line with the steps that have been done.
LEMMA AsynUsersStep ==
  ASSUME TypeOK, AsynUsersFollowSteps, [Next]_vars
  PROVE  AsynUsersFollowSteps'
<1>1. ASSUME NEW g \in Groups, CreatePollGroup(g) \/ FinishPollGroup(g)
      PROVE  AsynUsersFollowSteps'
  BY <1>1, RecordsAreNotGroups, AsynUserStep DEF FinishPollGroup
<1>2. ASSUME NEW r \in Records, InitializeRecord(r) PROVE AsynUsersFollowSteps'
  BY <1>2, RecordsAreNotGroups, AsynUserStep DEF InitializeRecord
<1>3. ASSUME UNCHANGED <<userVars, pollGroups, initialized>> PROVE AsynUsersFollowSteps'
  BY <1>3 DEF AsynUsersFollowSteps, AsynUserFollowsStep, HasSucceeded
<1>4. QED
  BY <1>1, <1>2, <1>3 DEF Next, vars, ConfigureIsoTcpPort, IocInit, AfterIocRunning, IocPause,
       Process, Complete, ScanAdd, ScanDelete, Expire, Respond

\* A record that is initialized stays so, and a poll group is never removed.
LEMMA SuccessLasts ==
  ASSUME TypeOK, AsynUsersFollowSteps, [Next]_vars
  PROVE  /\ pollGroups \subseteq pollGroups'
         /\ \A r \in Records : initialized[r] = "yes" => initialized'[r] = "yes"
<1>1. ASSUME NEW g \in Groups, CreatePollGroup(g) \/ FinishPollGroup(g)
      PROVE  pollGroups \subseteq pollGroups' /\ UNCHANGED initialized
  BY <1>1 DEF CreatePollGroup, FinishPollGroup, ConnectDevice, InsertPollGroup, DestroyPollGroup,
       FreeAsynUser
<1>2. ASSUME NEW r \in Records, InitializeRecord(r)
      PROVE  /\ pollGroups \subseteq pollGroups'
             /\ \A q \in Records : initialized[q] = "yes" => initialized'[q] = "yes"
  <2>1. CASE FindInterfaces(r)
    BY <2>1 DEF FindInterfaces, TypeOK
  <2>2. CASE InitRecordError(r)
    <3>1. AsynUserFollowsStep(r)
      BY RecordsAreNotGroups DEF AsynUsersFollowSteps
    <3>2. initialized[r] # "yes"
      BY <2>2, <3>1 DEF InitRecordError, AsynUserFollowsStep, HasSucceeded
    <3>3. QED BY <2>2, <3>2 DEF InitRecordError, TypeOK
  <2>3. CASE InitRecord(r) \/ CheckAddress(r) \/ ConnectDevice(r) \/ FreeAsynUser(r)
    BY <2>3 DEF InitRecord, CheckAddress, ConnectDevice, FreeAsynUser
  <2>4. QED BY <1>2, <2>1, <2>2, <2>3 DEF InitializeRecord
<1>3. CASE UNCHANGED <<pollGroups, initialized>>
  BY <1>3
<1>4. QED
  BY <1>1, <1>2, <1>3 DEF Next, vars, ConfigureIsoTcpPort, IocInit, AfterIocRunning, IocPause,
       Process, Complete, ScanAdd, ScanDelete, Expire, Respond

\* A record that can be scanned when all records are initialized is initialized.
LEMMA ScannableIsInitialized ==
  ASSUME AsynUsersFollowSteps, AllInitialized, NEW r \in Records, CanBeScanned(r)
  PROVE  initialized[r] = "yes"
<1>1. AsynUserFollowsStep(r) /\ step[r] = "idle" /\ r \in myAsynUser
  BY RecordsAreNotGroups DEF AsynUsersFollowSteps, AllInitialized, CanBeScanned
<1>2. QED BY <1>1 DEF AsynUserFollowsStep, HasSucceeded

\* Every step keeps scanned records scannable.
LEMMA ScannedStep ==
  ASSUME TypeOK, AsynUsersFollowSteps, ScannedRecordsCanBeScanned, [Next]_vars
  PROVE  ScannedRecordsCanBeScanned'
<1> USE DEF ScannedRecordsCanBeScanned
<1>1. ASSUME NEW r \in Records, ScanAdd(r) PROVE ScannedRecordsCanBeScanned'
  <2>1. /\ HasIoIntInfo(config[r]) /\ GroupOf[config[r]] \in pollGroups
        /\ initialized[r] = "yes"
    BY <1>1, ScannableIsInitialized DEF ScanAdd, CanBeScanned
  <2>2. QED BY <1>1, <2>1 DEF ScanAdd, TypeOK
<1>2. ASSUME NEW r \in Records, ScanDelete(r) PROVE ScannedRecordsCanBeScanned'
  BY <1>2 DEF ScanDelete, TypeOK
<1>3. ASSUME UNCHANGED <<config, scan>>
      PROVE  ScannedRecordsCanBeScanned'
  BY <1>3, SuccessLasts
<1>4. QED
  BY <1>1, <1>2, <1>3 DEF Next, vars, ConfigureIsoTcpPort, CreatePollGroup, FinishPollGroup,
       InitializeRecord, ConnectDevice, InsertPollGroup, DestroyPollGroup, FreeAsynUser,
       InitRecord, CheckAddress, FindInterfaces, InitRecordError, IocInit, AfterIocRunning,
       IocPause, Process, Complete, Expire, Respond

\* Every step keeps the poll groups informed: a record that is no longer scanned can still
\* be found in its poll group, and is removed from it.
LEMMA GroupsStep ==
  ASSUME TypeOK, AsynUsersFollowSteps, ScannedRecordsCanBeScanned, GroupsKnowTheirRecords,
         [Next]_vars
  PROVE  GroupsKnowTheirRecords'
<1> USE DEF GroupsKnowTheirRecords
<1>1. ASSUME NEW r \in Records, ScanAdd(r) PROVE GroupsKnowTheirRecords'
  <2> DEFINE group == GroupOf[config[r]]
  <2>1. group \in Groups
    BY <1>1 DEF ScanAdd, CanBeScanned, TypeOK
  <2>2. /\ UNCHANGED config
        /\ \A q \in Records : scan'[q] = IF q = r THEN "I/O Intr" ELSE scan[q]
        /\ \A g \in Groups :
             requesters'[g] = IF g = group THEN requesters[g] \union {r} ELSE requesters[g]
    BY <1>1 DEF ScanAdd, TypeOK
  <2>3. scan[r] = "Passive"
    BY <1>1 DEF ScanAdd
  <2> HIDE DEF group
  <2>4. \A g \in Groups : g = group <=> g = GroupOf[config[r]]
    BY DEF group
  <2>5. ASSUME NEW g \in Groups, NEW q \in Records
        PROVE  q \in requesters'[g] <=> scan'[q] = "I/O Intr" /\ GroupOf[config'[q]] = g
    <3>1. q \in requesters[g] <=> scan[q] = "I/O Intr" /\ GroupOf[config[q]] = g
      OBVIOUS
    <3>2. CASE q = r
      BY <2>2, <2>3, <2>4, <3>1, <3>2
    <3>3. CASE q # r
      <4>1. scan'[q] = scan[q] /\ config' = config
        BY <2>2, <3>3
      <4>2. q \in requesters'[g] <=> q \in requesters[g]
        BY <2>2, <3>3
      <4>3. QED BY <3>1, <4>1, <4>2
    <3>4. QED BY <3>2, <3>3
  <2>6. requesters' \in [Groups -> SUBSET Records]
    BY TypeStep DEF TypeOK
  <2>7. QED BY <2>5, <2>6
<1>2. ASSUME NEW r \in Records, ScanDelete(r) PROVE GroupsKnowTheirRecords'
  <2>1. CanBeScanned(r)
    <3>1. /\ HasIoIntInfo(config[r]) /\ GroupOf[config[r]] \in pollGroups
          /\ initialized[r] = "yes"
      BY <1>2 DEF ScanDelete, ScannedRecordsCanBeScanned
    <3>2. r \in myAsynUser
      BY <3>1, RecordsAreNotGroups DEF AsynUsersFollowSteps, AsynUserFollowsStep, HasSucceeded
    <3>3. QED BY <3>1, <3>2 DEF CanBeScanned
  <2> DEFINE group == GroupOf[config[r]]
  <2>2. /\ UNCHANGED config
        /\ \A q \in Records : scan'[q] = IF q = r THEN "Passive" ELSE scan[q]
        /\ \A g \in Groups :
             requesters'[g] = IF g = group THEN requesters[g] \ {r} ELSE requesters[g]
    BY <1>2, <2>1 DEF ScanDelete, TypeOK
  <2> HIDE DEF group
  <2>3. \A g \in Groups : g = group <=> g = GroupOf[config[r]]
    BY DEF group
  <2>4. ASSUME NEW g \in Groups, NEW q \in Records
        PROVE  q \in requesters'[g] <=> scan'[q] = "I/O Intr" /\ GroupOf[config'[q]] = g
    <3>1. q \in requesters[g] <=> scan[q] = "I/O Intr" /\ GroupOf[config[q]] = g
      OBVIOUS
    <3>2. CASE q = r
      BY <2>2, <2>3, <3>1, <3>2
    <3>3. CASE q # r
      BY <2>2, <2>3, <3>1, <3>3
    <3>4. QED BY <3>2, <3>3
  <2>5. requesters' \in [Groups -> SUBSET Records]
    BY TypeStep DEF TypeOK
  <2>6. QED BY <2>4, <2>5
<1>3. ASSUME UNCHANGED <<config, scan, requesters>> PROVE GroupsKnowTheirRecords'
  BY <1>3
<1>4. QED
  BY <1>1, <1>2, <1>3 DEF Next, vars, ConfigureIsoTcpPort, CreatePollGroup, FinishPollGroup,
       InitializeRecord, ConnectDevice, InsertPollGroup, DestroyPollGroup, FreeAsynUser,
       InitRecord, CheckAddress, FindInterfaces, InitRecordError, IocInit, AfterIocRunning,
       IocPause, Process, Complete, Expire, Respond

\* Every step keeps failed records disabled.
LEMMA FailedStep ==
  ASSUME TypeOK, AsynUsersFollowSteps, FailedRecordsAreDisabled, [Next]_vars
  PROVE  FailedRecordsAreDisabled'
<1> USE DEF FailedRecordsAreDisabled, AllInitialized
<1>1. ASSUME IocInit PROVE FailedRecordsAreDisabled'
  BY <1>1 DEF IocInit
<1>2. ASSUME AfterIocRunning PROVE FailedRecordsAreDisabled'
  BY <1>2 DEF AfterIocRunning
<1>3. ASSUME IocPause PROVE FailedRecordsAreDisabled'
  BY <1>3 DEF IocPause
<1>4. ASSUME NEW r \in Records, InitializeRecord(r) PROVE FailedRecordsAreDisabled'
  <2>1. ioc \notin {"running", "paused"} /\ UNCHANGED ioc
    BY <1>4 DEF InitializeRecord, InitRecord, CheckAddress, ConnectDevice, FindInterfaces,
         InitRecordError, FreeAsynUser
  <2>2. CASE FindInterfaces(r)
    BY <2>1, <2>2 DEF FindInterfaces, TypeOK
  <2>3. CASE InitRecordError(r)
    <3>1. r \notin queued
      BY <2>3, RecordsAreNotGroups
         DEF InitRecordError, AsynUsersFollowSteps, AsynUserFollowsStep, HasSucceeded
    <3>2. QED BY <2>1, <2>3, <3>1 DEF InitRecordError, PactAfter, TypeOK
  <2>4. CASE InitRecord(r) \/ CheckAddress(r) \/ ConnectDevice(r) \/ FreeAsynUser(r)
    BY <2>1, <2>4 DEF InitRecord, CheckAddress, ConnectDevice, FreeAsynUser
  <2>5. QED BY <1>4, <2>2, <2>3, <2>4 DEF InitializeRecord
<1>5. ASSUME NEW r \in Records, Process(r) PROVE FailedRecordsAreDisabled'
  BY <1>5 DEF Process, TypeOK
<1>6. ASSUME NEW r \in Records, Complete(r) PROVE FailedRecordsAreDisabled'
  BY <1>6 DEF Complete, TypeOK
<1>7. ASSUME NEW g \in Groups, CreatePollGroup(g) \/ FinishPollGroup(g)
      PROVE  FailedRecordsAreDisabled'
  <2>1. \A r \in Records : step'[r] = step[r]
    BY <1>7, RecordsAreNotGroups DEF CreatePollGroup, CreateAsynUser, FinishPollGroup,
         ConnectDevice, InsertPollGroup, DestroyPollGroup, FreeAsynUser, GoTo, TypeOK
  <2>2. UNCHANGED <<ioc, initialized, pact, queued>>
    BY <1>7 DEF CreatePollGroup, FinishPollGroup, ConnectDevice, InsertPollGroup,
         DestroyPollGroup, FreeAsynUser
  <2>3. QED BY <2>1, <2>2
<1>8. ASSUME UNCHANGED <<ioc, initialized, pact, queued, step>> PROVE FailedRecordsAreDisabled'
  BY <1>8
<1>9. QED
  BY <1>1, <1>2, <1>3, <1>4, <1>5, <1>6, <1>7, <1>8 DEF Next, vars, ConfigureIsoTcpPort,
       ScanAdd, ScanDelete, Expire, Respond

\* The asynUser of a record that is initialized is connected to a port.
LEMMA InitializedIsConnected ==
  ASSUME AsynUsersFollowSteps, NEW r \in Records, initialized[r] = "yes"
  PROVE  r \in connected
BY RecordsAreNotGroups DEF AsynUsersFollowSteps, AsynUserFollowsStep, HasSucceeded

\* The invariant holds in every reachable state.
THEOREM Invariant == Spec => []IInv
<1>1. IInv /\ [Next]_vars => IInv'
  BY TypeStep, AsynUsersStep, ScannedStep, GroupsStep, FailedStep DEF IInv
<1>2. QED BY InitIInv, <1>1, PTL DEF Spec

\* Type correctness of the configuration, the records and the poll groups.
THEOREM TypeCorrect == Spec => []TypeOK
<1>1. IInv => TypeOK
  BY DEF IInv
<1>2. QED BY <1>1, Invariant, PTL

\* A poll group knows exactly its usable input records, in whatever order the ports, the
\* poll groups and the records have been configured and however SCAN has been changed.
THEOREM UsableRecordsAreRegistered == Spec => []OnlyUsableRecordsAreRegistered
<1>1. IInv => OnlyUsableRecordsAreRegistered
  <2> SUFFICES ASSUME IInv, NEW g \in Groups
               PROVE  /\ requesters[g] = {r \in Records : scan[r] = "I/O Intr" /\ GroupOf[config[r]] = g}
                      /\ \A r \in requesters[g] :
                           initialized[r] = "yes" /\ r \in connected /\ config[r].recordType \in InputTypes
    BY DEF OnlyUsableRecordsAreRegistered
  <2>1. requesters[g] = {r \in Records : scan[r] = "I/O Intr" /\ GroupOf[config[r]] = g}
    BY DEF IInv, GroupsKnowTheirRecords
  <2>2. ASSUME NEW r \in requesters[g]
        PROVE  initialized[r] = "yes" /\ r \in connected /\ config[r].recordType \in InputTypes
    <3>1. r \in Records /\ HasIoIntInfo(config[r]) /\ initialized[r] = "yes"
      BY <2>1, <2>2 DEF IInv, ScannedRecordsCanBeScanned
    <3>2. config[r].recordType \in InputTypes
      BY <3>1, IoIntInfoIsForInput
    <3>3. r \in connected
      BY <3>1, InitializedIsConnected DEF IInv
    <3>4. QED BY <3>1, <3>2, <3>3
  <2>3. QED BY <2>1, <2>2
<1>2. QED BY <1>1, Invariant, PTL

\* No failure of a configuration or an initialization leaves an asynUser, a connection or a
\* pointer behind, however its steps and those of other threads are interleaved.
THEOREM AsynUsersAreBalanced == Spec => []AsynUsersBalanced
<1>1. IInv => AsynUsersBalanced
  BY DEF IInv, AsynUsersFollowSteps, AsynUserFollowsStep, AsynUsersBalanced
<1>2. QED BY <1>1, Invariant, PTL

\* A record whose initialization has failed is never processed.
THEOREM FailedRecordsAreNeverQueued == Spec => []OnlyConnectedUsersAreQueued
<1>1. IInv => OnlyConnectedUsersAreQueued
  BY InitializedIsConnected DEF IInv, TypeOK, OnlyConnectedUsersAreQueued, FailedRecordsAreDisabled
<1>2. QED BY <1>1, Invariant, PTL
==============================================================================
