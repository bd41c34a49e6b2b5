---------------------------- MODULE Base64Proof ----------------------------
(***************************************************************************)
(* For every message that is not one char long, of any chars: Encode fills *)
(* exactly the string it allocates, its text is the Base64 of the message  *)
(* and can be framed, and Decode gives the message back.                   *)
(***************************************************************************)
EXTENDS Base64Messages, TLAPS

\* Without the wrap-around the loop ends where its author meant.
LEMMA LoopEndValue ==
    ASSUME NEW n \in Nat, n >= 2, n < SizeMod
    PROVE  LoopEnd(n) = n - 2
<1>1. n - 2 \in 0 .. SizeMod - 1
  BY SizeAssumption
<1> QED
  BY <1>1, SizeAssumption DEF LoopEnd

\* Encode writes as many characters as it has allocated.
LEMMA ExactFit ==
    ASSUME NEW n \in Nat, n >= 2, n < SizeMod
    PROVE  Written(n) = OutLen(n)
  BY LoopEndValue DEF Written, OutLen, Groups
----------------------------------------------------------------------------
(* Groups of three chars and of four characters *)

\* The tables are inverse to each other, and no code is '=' or '\n'.
LEMMA Tables ==
    ASSUME NEW v \in 0..63
    PROVE  /\ EncodingTable[v] \in 0..255
           /\ EncodingTable[v] # Pad
           /\ EncodingTable[v] # 10
           /\ Value(EncodingTable[v]) = v
<1>1. CASE v \in 0..25
  <2>1. EncodingTable[v] = v + 65
    BY <1>1 DEF EncodingTable
  <2>2. DecodingTable[v + 65] = v
    BY <1>1 DEF DecodingTable
  <2> QED
    BY <1>1, <2>1, <2>2 DEF Value, Pad
<1>2. CASE v \in 26..51
  <2>1. EncodingTable[v] = v + 71
    BY <1>2 DEF EncodingTable
  <2>2. DecodingTable[v + 71] = v
    BY <1>2 DEF DecodingTable
  <2> QED
    BY <1>2, <2>1, <2>2 DEF Value, Pad
<1>3. CASE v \in 52..61
  <2>1. EncodingTable[v] = v - 4
    BY <1>3 DEF EncodingTable
  <2>2. DecodingTable[v - 4] = v
    BY <1>3 DEF DecodingTable
  <2> QED
    BY <1>3, <2>1, <2>2 DEF Value, Pad
<1>4. CASE v = 62
  BY <1>4 DEF EncodingTable, DecodingTable, Value, Pad
<1>5. CASE v = 63
  BY <1>5 DEF EncodingTable, DecodingTable, Value, Pad
<1> QED
  BY <1>1, <1>2, <1>3, <1>4, <1>5

LEMMA GroupIndexes ==
    ASSUME NEW a \in Char, NEW b \in Char, NEW c \in Char
    PROVE  /\ First6(a) \in 0..63
           /\ Low(a, 2) * 16 \in 0..63
           /\ Low(a, 2) * 16 + High(b, 4) \in 0..63
           /\ Low(b, 4) * 4 \in 0..63
           /\ Low(b, 4) * 4 + High(c, 2) \in 0..63
           /\ Low(c, 6) \in 0..63
  BY DEF Char, First6, Low, High

\* The triple of a group, and the chars taken out of it.
LEMMA GroupChars ==
    ASSUME NEW a \in Char, NEW b \in Char, NEW c \in Char,
           NEW t, t = First6(a) * 2^18 + (Low(a, 2) * 16 + High(b, 4)) * 2^12
                      + (Low(b, 4) * 4 + High(c, 2)) * 2^6 + Low(c, 6)
    PROVE  /\ ByteOf(t, 2) = a
           /\ ByteOf(t, 1) = b
           /\ ByteOf(t, 0) = c
<1> DEFINE f == First6(a)     la == Low(a, 2)
           hb == High(b, 4)   lb == Low(b, 4)
           hc == High(c, 2)   lc == Low(c, 6)
           x == a % 256       y == b % 256       z == c % 256
<1>1. x = f * 4 + la /\ y = hb * 16 + lb /\ z = hc * 64 + lc
  BY DEF Char, First6, Low, High
<1>2. /\ f \in 0..63 /\ la \in 0..3 /\ hb \in 0..15
      /\ lb \in 0..15 /\ hc \in 0..3 /\ lc \in 0..63
  BY DEF Char, First6, Low, High
<1>6. x \in 0..255 /\ y \in 0..255 /\ z \in 0..255
  BY DEF Char
<1>7. t = f * 2^18 + (la * 16 + hb) * 2^12 + (lb * 4 + hc) * 2^6 + lc
  OBVIOUS
<1>8. /\ (t \div 65536) % 256 = x
      /\ (t \div 256) % 256 = y
      /\ t % 256 = z
      /\ t \in Nat
  <2> HIDE DEF f, la, hb, lb, hc, lc, x, y, z
  <2>1. 2^18 = 262144 /\ 2^12 = 4096 /\ 2^6 = 64
    OBVIOUS
  <2>2. t = x * 65536 + y * 256 + z
    BY <1>1, <1>2, <1>7, <2>1
  <2>3. t \div 65536 = x /\ t \in Nat
    BY <2>2, <1>6
  <2>4. t \div 256 = x * 256 + y
    BY <2>2, <1>6
  <2>5. (x * 256 + y) % 256 = y
    BY <1>6
  <2>6. x % 256 = x
    BY <1>6
  <2>7. t % 256 = z
    <3>1. t = (x * 256 + y) * 256 + z /\ x * 256 + y \in Nat
      BY <2>2, <1>6
    <3>2. \A q \in Nat : (q * 256 + z) % 256 = z
      BY <1>6
    <3> QED
      BY <3>1, <3>2
  <2> QED
    BY <2>3, <2>4, <2>5, <2>6, <2>7
<1>3. ByteOf(t, 2) = a
  BY <1>8 DEF ByteOf, Char
<1>4. ByteOf(t, 1) = b
  BY <1>8 DEF ByteOf, Char
<1>5. ByteOf(t, 0) = c
  <2>1. 2^(8 * 0) = 1 /\ t \div 1 = t
    BY <1>8
  <2> QED
    BY <2>1, <1>8 DEF ByteOf, Char
<1> QED
  BY <1>3, <1>4, <1>5
----------------------------------------------------------------------------
(* Texts *)

LEMMA TextLength ==
    ASSUME NEW d \in Seq(Char), Len(d) >= 2, Len(d) < SizeMod
    PROVE  /\ Encode(d) = [p \in 1 .. OutLen(Len(d)) |-> Encode(d)[p]]
           /\ Len(Encode(d)) = OutLen(Len(d))
           /\ OutLen(Len(d)) \in Nat
           /\ Len(Encode(d)) % 4 = 0
<1>1. d # <<>> /\ Len(d) \in Nat
  OBVIOUS
<1>2. Written(Len(d)) = OutLen(Len(d))
  BY <1>1, ExactFit
<1>3. OutLen(Len(d)) \in Nat /\ OutLen(Len(d)) % 4 = 0
  BY <1>1 DEF OutLen
<1>4. Encode(d) = [p \in 1 .. OutLen(Len(d)) |-> Encode(d)[p]]
  BY <1>1, <1>2 DEF Encode
<1>5. Len(Encode(d)) = OutLen(Len(d))
  BY <1>3, <1>4
<1> QED
  BY <1>3, <1>4, <1>5

\* The n-th char of a message, and the zero bits after its end.
CharAt(d, n) == IF n <= Len(d) THEN d[n] ELSE 0

\* The four characters of a group: what they are worth, and where the
\* padding is.
LEMMA GroupText ==
    ASSUME NEW d \in Seq(Char), Len(d) >= 2, Len(d) < SizeMod,
           NEW g \in Nat, 3 * g < Len(d),
           NEW a, a = CharAt(d, 3 * g + 1),
           NEW b, b = CharAt(d, 3 * g + 2),
           NEW c, c = CharAt(d, 3 * g + 3),
           NEW text, text = Encode(d)
    PROVE  /\ a \in Char /\ b \in Char /\ c \in Char
           /\ 4 * g + 4 <= Len(text)
           /\ Value(text[4 * g + 1]) = First6(a)
           /\ Value(text[4 * g + 2]) = Low(a, 2) * 16 + High(b, 4)
           /\ Value(text[4 * g + 3]) = Low(b, 4) * 4 + High(c, 2)
           /\ Value(text[4 * g + 4]) = Low(c, 6)
           /\ text[4 * g + 3] = Pad <=> 3 * g + 1 >= Len(d)
           /\ text[4 * g + 4] = Pad <=> 3 * g + 2 >= Len(d)
           /\ \A k \in 1..4 : text[4 * g + k] # 10
           /\ text[4 * g + 1] = EncodingTable[First6(a)]
           /\ text[4 * g + 2] = EncodingTable[Low(a, 2) * 16 + High(b, 4)]
           /\ text[4 * g + 3] # Pad
                => text[4 * g + 3] = EncodingTable[Low(b, 4) * 4 + High(c, 2)]
           /\ text[4 * g + 4] # Pad => text[4 * g + 4] = EncodingTable[Low(c, 6)]
<1> DEFINE group == Indexes(d, 3 * g)
<1>1. Len(d) \in Nat /\ d # <<>> /\ \A m \in 1 .. Len(d) : d[m] \in Char
  OBVIOUS
<1>2. a \in Char /\ b \in Char /\ c \in Char
  BY <1>1 DEF CharAt, Char
<1>3. 4 * g + 4 <= OutLen(Len(d))
  BY <1>1 DEF OutLen
<1>4. ASSUME NEW k \in 1..4
      PROVE  text[4 * g + k] = IF k <= Len(group) THEN EncodingTable[group[k]] ELSE Pad
  <2>1. 4 * g + k \in 1 .. OutLen(Len(d))
    BY <1>1, <1>3 DEF OutLen
  <2>2. /\ (4 * g + k - 1) \div 4 = g
        /\ ((4 * g + k - 1) % 4) + 1 = k
    OBVIOUS
  <2>3. Written(Len(d)) = OutLen(Len(d))
    BY <1>1, ExactFit
  <2>4. text[4 * g + k] =
          LET cs == Indexes(d, 3 * ((4 * g + k - 1) \div 4))
              m == ((4 * g + k - 1) % 4) + 1
          IN  IF m <= Len(cs) THEN EncodingTable[cs[m]] ELSE Pad
    BY <1>1, <2>1, <2>3 DEF Encode
  <2> QED
    BY <2>2, <2>4
<1> DEFINE C(k) == IF k <= Len(group) THEN EncodingTable[group[k]] ELSE Pad
<1>12. /\ text[4 * g + 1] = C(1) /\ text[4 * g + 2] = C(2)
       /\ text[4 * g + 3] = C(3) /\ text[4 * g + 4] = C(4)
  <2>1. 1 \in 1..4 /\ 2 \in 1..4 /\ 3 \in 1..4 /\ 4 \in 1..4
    OBVIOUS
  <2> QED
    BY <1>4, <2>1, Zenon
<1> HIDE DEF group
<1>5. /\ First6(a) \in 0..63
      /\ Low(a, 2) * 16 \in 0..63
      /\ Low(a, 2) * 16 + High(b, 4) \in 0..63
      /\ Low(b, 4) * 4 \in 0..63
      /\ Low(b, 4) * 4 + High(c, 2) \in 0..63
      /\ Low(c, 6) \in 0..63
  BY <1>2, GroupIndexes
<1>6. LoopEnd(Len(d)) = Len(d) - 2
  BY <1>1, LoopEndValue
<1>7. Value(Pad) = 0 /\ High(0, 4) = 0 /\ High(0, 2) = 0 /\ Low(0, 6) = 0 /\ Low(0, 4) = 0
  BY DEF Value, High, Low
<1>8. 4 * g + 4 <= Len(text)
  BY <1>3, TextLength
<1>13. \A v \in 0..63 : /\ EncodingTable[v] # Pad
                        /\ EncodingTable[v] # 10
                        /\ Value(EncodingTable[v]) = v
  BY Tables
<1> DEFINE Good(v) == /\ EncodingTable[v] # Pad
                      /\ EncodingTable[v] # 10
                      /\ Value(EncodingTable[v]) = v
<1>15. /\ Good(First6(a))
       /\ Good(Low(a, 2) * 16)
       /\ Good(Low(a, 2) * 16 + High(b, 4))
       /\ Good(Low(b, 4) * 4)
       /\ Good(Low(b, 4) * 4 + High(c, 2))
       /\ Good(Low(c, 6))
  BY <1>5, <1>13, Zenon
<1>14. ASSUME text[4 * g + 1] # 10, text[4 * g + 2] # 10,
              text[4 * g + 3] # 10, text[4 * g + 4] # 10
       PROVE  \A k \in 1..4 : text[4 * g + k] # 10
  BY <1>14
<1>9. CASE 3 * g < Len(d) - 2
  <2>1. group = EncodeGroup(a, b, c)
    BY <1>1, <1>6, <1>9 DEF group, Indexes, CharAt
  <2>2. /\ text[4 * g + 1] = EncodingTable[First6(a)]
        /\ text[4 * g + 2] = EncodingTable[Low(a, 2) * 16 + High(b, 4)]
        /\ text[4 * g + 3] = EncodingTable[Low(b, 4) * 4 + High(c, 2)]
        /\ text[4 * g + 4] = EncodingTable[Low(c, 6)]
    BY <1>12, <2>1 DEF EncodeGroup
  <2>5. /\ Value(text[4 * g + 1]) = First6(a)
        /\ Value(text[4 * g + 2]) = Low(a, 2) * 16 + High(b, 4)
        /\ Value(text[4 * g + 3]) = Low(b, 4) * 4 + High(c, 2)
        /\ Value(text[4 * g + 4]) = Low(c, 6)
    BY <1>15, <2>2
  <2>6. text[4 * g + 3] = Pad <=> 3 * g + 1 >= Len(d)
    BY <1>1, <1>15, <1>9, <2>2
  <2>7. text[4 * g + 4] = Pad <=> 3 * g + 2 >= Len(d)
    BY <1>1, <1>15, <1>9, <2>2
  <2>8. \A k \in 1..4 : text[4 * g + k] # 10
    <3>1. /\ text[4 * g + 1] # 10 /\ text[4 * g + 2] # 10
          /\ text[4 * g + 3] # 10 /\ text[4 * g + 4] # 10
      BY <1>15, <2>2 DEF Pad
    <3> QED
      BY <3>1, <1>14
  <2>9. /\ text[4 * g + 1] = EncodingTable[First6(a)]
        /\ text[4 * g + 2] = EncodingTable[Low(a, 2) * 16 + High(b, 4)]
        /\ text[4 * g + 3] # Pad
             => text[4 * g + 3] = EncodingTable[Low(b, 4) * 4 + High(c, 2)]
        /\ text[4 * g + 4] # Pad => text[4 * g + 4] = EncodingTable[Low(c, 6)]
    BY <2>2
  <2> QED
    BY <1>2, <1>8, <2>5, <2>6, <2>7, <2>8, <2>9
<1>10. CASE 3 * g = Len(d) - 2
  <2>1. group = EncodeLastTwo(a, b) /\ c = 0
    BY <1>1, <1>6, <1>10 DEF group, Indexes, CharAt
  <2>2. /\ text[4 * g + 1] = EncodingTable[First6(a)]
        /\ text[4 * g + 2] = EncodingTable[Low(a, 2) * 16 + High(b, 4)]
        /\ text[4 * g + 3] = EncodingTable[Low(b, 4) * 4]
        /\ text[4 * g + 4] = Pad
    BY <1>12, <2>1 DEF EncodeLastTwo
  <2>3. Low(b, 4) * 4 + High(c, 2) = Low(b, 4) * 4 /\ Low(c, 6) = 0
    BY <1>2, <1>7, <2>1 DEF Low, Char
  <2>5. /\ Value(text[4 * g + 1]) = First6(a)
        /\ Value(text[4 * g + 2]) = Low(a, 2) * 16 + High(b, 4)
        /\ Value(text[4 * g + 3]) = Low(b, 4) * 4 + High(c, 2)
        /\ Value(text[4 * g + 4]) = Low(c, 6)
    BY <1>15, <1>7, <2>2, <2>3
  <2>6. text[4 * g + 3] = Pad <=> 3 * g + 1 >= Len(d)
    BY <1>1, <1>15, <1>10, <2>2
  <2>7. text[4 * g + 4] = Pad <=> 3 * g + 2 >= Len(d)
    BY <1>1, <1>15, <1>10, <2>2
  <2>8. \A k \in 1..4 : text[4 * g + k] # 10
    <3>1. /\ text[4 * g + 1] # 10 /\ text[4 * g + 2] # 10
          /\ text[4 * g + 3] # 10 /\ text[4 * g + 4] # 10
      BY <1>15, <2>2 DEF Pad
    <3> QED
      BY <3>1, <1>14
  <2>9. /\ text[4 * g + 1] = EncodingTable[First6(a)]
        /\ text[4 * g + 2] = EncodingTable[Low(a, 2) * 16 + High(b, 4)]
        /\ text[4 * g + 3] # Pad
             => text[4 * g + 3] = EncodingTable[Low(b, 4) * 4 + High(c, 2)]
        /\ text[4 * g + 4] # Pad => text[4 * g + 4] = EncodingTable[Low(c, 6)]
    BY <2>2, <2>3
  <2> QED
    BY <1>2, <1>8, <2>5, <2>6, <2>7, <2>8, <2>9
<1>11. CASE 3 * g = Len(d) - 1
  <2>1. group = EncodeLastOne(a) /\ b = 0 /\ c = 0
    BY <1>1, <1>6, <1>11 DEF group, Indexes, CharAt
  <2>2. /\ text[4 * g + 1] = EncodingTable[First6(a)]
        /\ text[4 * g + 2] = EncodingTable[Low(a, 2) * 16]
        /\ text[4 * g + 3] = Pad
        /\ text[4 * g + 4] = Pad
    BY <1>12, <2>1 DEF EncodeLastOne
  <2>3. /\ Low(a, 2) * 16 + High(b, 4) = Low(a, 2) * 16
        /\ Low(b, 4) * 4 + High(c, 2) = 0
        /\ Low(c, 6) = 0
    BY <1>2, <1>7, <2>1 DEF Low, Char
  <2>5. /\ Value(text[4 * g + 1]) = First6(a)
        /\ Value(text[4 * g + 2]) = Low(a, 2) * 16 + High(b, 4)
        /\ Value(text[4 * g + 3]) = Low(b, 4) * 4 + High(c, 2)
        /\ Value(text[4 * g + 4]) = Low(c, 6)
    BY <1>15, <1>7, <2>2, <2>3
  <2>6. text[4 * g + 3] = Pad <=> 3 * g + 1 >= Len(d)
    BY <1>1, <1>15, <1>11, <2>2
  <2>7. text[4 * g + 4] = Pad <=> 3 * g + 2 >= Len(d)
    BY <1>1, <1>15, <1>11, <2>2
  <2>8. \A k \in 1..4 : text[4 * g + k] # 10
    <3>1. /\ text[4 * g + 1] # 10 /\ text[4 * g + 2] # 10
          /\ text[4 * g + 3] # 10 /\ text[4 * g + 4] # 10
      BY <1>15, <2>2 DEF Pad
    <3> QED
      BY <3>1, <1>14
  <2>9. /\ text[4 * g + 1] = EncodingTable[First6(a)]
        /\ text[4 * g + 2] = EncodingTable[Low(a, 2) * 16 + High(b, 4)]
        /\ text[4 * g + 3] # Pad
             => text[4 * g + 3] = EncodingTable[Low(b, 4) * 4 + High(c, 2)]
        /\ text[4 * g + 4] # Pad => text[4 * g + 4] = EncodingTable[Low(c, 6)]
    BY <2>2, <2>3
  <2> QED
    BY <1>2, <1>8, <2>5, <2>6, <2>7, <2>8, <2>9
<1> QED
  BY <1>1, <1>9, <1>10, <1>11

\* The padding says how many chars the last group has.
LEMMA DecodedLength ==
    ASSUME NEW d \in Seq(Char), Len(d) >= 2, Len(d) < SizeMod
    PROVE  DecodedLen(Encode(d)) = Len(d)
<1> DEFINE text == Encode(d)
           g == (Len(d) + 2) \div 3 - 1
<1>1. Len(d) \in Nat
  OBVIOUS
<1>2. g \in Nat /\ 3 * g < Len(d) /\ Len(d) <= 3 * g + 3
  BY <1>1
<1>3. Len(text) = 4 * g + 4
  BY <1>1, <1>2, TextLength DEF OutLen
<1>4. /\ CharAt(d, 3 * g + 1) \in Char
      /\ CharAt(d, 3 * g + 2) \in Char
      /\ text[4 * g + 3] = Pad <=> 3 * g + 1 >= Len(d)
      /\ text[4 * g + 4] = Pad <=> 3 * g + 2 >= Len(d)
  <2> HIDE DEF g
  <2> QED
    BY <1>2, GroupText
<1> HIDE DEF text, g
<1>5. /\ Len(text) \div 4 = g + 1
      /\ Len(text) - 1 = 4 * g + 3
  BY <1>2, <1>3
<1>6. DecodedLen(text) = (g + 1) * 3 - (IF text[4 * g + 4] = Pad THEN 1 ELSE 0)
                                     - (IF text[4 * g + 3] = Pad THEN 1 ELSE 0)
  BY <1>3, <1>5 DEF DecodedLen
<1> QED
  <2>1. CASE Len(d) = 3 * g + 1
    BY <1>2, <1>4, <1>6, <2>1 DEF text
  <2>2. CASE Len(d) = 3 * g + 2
    BY <1>2, <1>4, <1>6, <2>2 DEF text
  <2>3. CASE Len(d) = 3 * g + 3
    BY <1>2, <1>4, <1>6, <2>3 DEF text
  <2> QED
    BY <1>1, <1>2, <2>1, <2>2, <2>3

\* Decode is the inverse of Encode.
LEMMA Inverse ==
    ASSUME NEW d \in Seq(Char), Len(d) >= 2, Len(d) < SizeMod
    PROVE  Decode(Encode(d)) = d
<1> DEFINE text == Encode(d)
<1>1. Len(d) \in Nat /\ d = [j \in 1 .. Len(d) |-> d[j]]
  OBVIOUS
<1>2. ASSUME NEW j \in 1 .. Len(d)
      PROVE  ByteOf(Triple(text, (j - 1) \div 3), 2 - ((j - 1) % 3)) = d[j]
  <2> DEFINE g == (j - 1) \div 3
             a == CharAt(d, 3 * g + 1)
             b == CharAt(d, 3 * g + 2)
             c == CharAt(d, 3 * g + 3)
             t == Triple(text, g)
  <2>1. g \in Nat /\ 3 * g < Len(d)
    BY <1>1
  <2>2. /\ a \in Char /\ b \in Char /\ c \in Char
        /\ Value(text[4 * g + 1]) = First6(a)
        /\ Value(text[4 * g + 2]) = Low(a, 2) * 16 + High(b, 4)
        /\ Value(text[4 * g + 3]) = Low(b, 4) * 4 + High(c, 2)
        /\ Value(text[4 * g + 4]) = Low(c, 6)
    BY <2>1, GroupText
  <2>3. t = First6(a) * 2^18 + (Low(a, 2) * 16 + High(b, 4)) * 2^12
              + (Low(b, 4) * 4 + High(c, 2)) * 2^6 + Low(c, 6)
    BY <2>2 DEF Triple
  <2>4. ByteOf(t, 2) = a /\ ByteOf(t, 1) = b /\ ByteOf(t, 0) = c
    <3> HIDE DEF a, b, c, t, g, text
    <3> QED
      BY <2>2, <2>3, GroupChars
  <2>5. CASE j = 3 * g + 1
    <3>1. a = d[j] /\ (j - 1) % 3 = 0
      BY <1>1, <2>1, <2>5 DEF CharAt
    <3> QED
      BY <2>4, <3>1
  <2>6. CASE j = 3 * g + 2
    <3>1. b = d[j] /\ (j - 1) % 3 = 1
      BY <1>1, <2>1, <2>6 DEF CharAt
    <3> QED
      BY <2>4, <3>1
  <2>7. CASE j = 3 * g + 3
    <3>1. c = d[j] /\ (j - 1) % 3 = 2
      BY <1>1, <2>1, <2>7 DEF CharAt
    <3> QED
      BY <2>4, <3>1
  <2>8. j \in {3 * g + 1, 3 * g + 2, 3 * g + 3}
    BY <1>1
  <2> QED
    BY <2>5, <2>6, <2>7, <2>8
<1>3. DecodedLen(text) = Len(d)
  BY DecodedLength
<1>4. text # <<>>
  <2>1. Len(text) > 0
    BY <1>1, TextLength DEF OutLen
  <2> QED
    BY <2>1
<1>5. Decode(text) = [j \in 1 .. Len(d) |->
                        ByteOf(Triple(text, (j - 1) \div 3), 2 - ((j - 1) % 3))]
  BY <1>3, <1>4 DEF Decode
<1>6. Decode(text) = [j \in 1 .. Len(d) |-> d[j]]
  <2> HIDE DEF text
  <2> QED
    BY <1>2, <1>5
<1> QED
  BY <1>1, <1>6
----------------------------------------------------------------------------
(* The properties, of every message *)

LEMMA MessageTyped == Spec => [](data \in Seq(Char) /\ Len(data) <= MaxLen)
<1> DEFINE Inv == data \in Seq(Char) /\ Len(data) <= MaxLen
<1>1. Init => Inv
  BY MessageAssumption DEF Init
<1>2. Inv /\ [Next]_data => Inv'
  <2> SUFFICES ASSUME Inv, [Next]_data PROVE Inv'
    OBVIOUS
  <2>1. CASE Next
    <3>1. PICK c \in Sample : data' = Append(data, c)
      BY <2>1 DEF Next
    <3>2. c \in Char
      BY MessageAssumption
    <3>3. data' \in Seq(Char) /\ Len(data') = Len(data) + 1
      BY <3>1, <3>2
    <3> QED
      BY <2>1, <3>3, MessageAssumption DEF Next
  <2>2. CASE UNCHANGED data
    BY <2>2
  <2> QED
    BY <2>1, <2>2
<1> QED
  BY <1>1, <1>2, PTL DEF Spec

LEMMA LengthFits ==
    ASSUME data \in Seq(Char), Len(data) <= MaxLen
    PROVE  Len(data) < SizeMod
<1>1. Len(data) \in Nat /\ MaxLen \in Nat /\ OutLen(MaxLen) < SizeMod /\ SizeMod \in Nat
  BY MessageAssumption, SizeAssumption
<1>2. OutLen(MaxLen) >= MaxLen
  BY <1>1 DEF OutLen
<1> QED
  BY <1>1, <1>2 DEF OutLen

\* A message of any chars, of no char or of two and more, is what Decode
\* makes of its text.
THEOREM RoundTripHolds == Spec => []RoundTrip
<1>1. data \in Seq(Char) /\ Len(data) <= MaxLen => RoundTrip
  <2> SUFFICES ASSUME data \in Seq(Char), Len(data) <= MaxLen, Len(data) # 1
               PROVE  Decodes(Encode(data)) /\ Decode(Encode(data)) = data
    BY DEF RoundTrip, Encodable
  <2>1. CASE data = <<>>
    BY <2>1 DEF Encode, Decode, Decodes
  <2>2. CASE data # <<>>
    <3>1. Len(data) >= 2 /\ Len(data) < SizeMod
      <4>1. Len(data) \in Nat /\ Len(data) # 0
        BY <2>2
      <4>2. Len(data) < SizeMod
        BY LengthFits
      <4>3. \A n \in Nat : n # 0 /\ n # 1 => n >= 2
        OBVIOUS
      <4> QED
        BY <4>1, <4>2, <4>3, Zenon
    <3> QED
      BY <3>1, TextLength, Inverse DEF Decodes
  <2> QED
    BY <2>1, <2>2
<1> QED
  BY <1>1, MessageTyped, PTL

\* The text of such a message has no delimiter, is empty for the empty
\* message only, and has a length that Decode accepts.
THEOREM FrameableHolds == Spec => []Frameable
<1>1. data \in Seq(Char) /\ Len(data) <= MaxLen => Frameable
  <2> SUFFICES ASSUME data \in Seq(Char), Len(data) <= MaxLen, Len(data) # 1
               PROVE  /\ \A p \in DOMAIN Encode(data) : Encode(data)[p] # 10
                      /\ Encode(data) = <<>> <=> data = <<>>
                      /\ Len(Encode(data)) % 4 = 0
    BY DEF Frameable, Encodable
  <2>1. CASE data = <<>>
    BY <2>1 DEF Encode
  <2>2. CASE data # <<>>
    <3> DEFINE text == Encode(data)
    <3>1. Len(data) >= 2 /\ Len(data) < SizeMod /\ Len(data) \in Nat
      <4>1. Len(data) \in Nat /\ Len(data) # 0
        BY <2>2
      <4>2. Len(data) < SizeMod
        BY LengthFits
      <4>3. \A n \in Nat : n # 0 /\ n # 1 => n >= 2
        OBVIOUS
      <4> QED
        BY <4>1, <4>2, <4>3, Zenon
    <3>2. /\ DOMAIN text = 1 .. OutLen(Len(data))
          /\ Len(text) = OutLen(Len(data))
          /\ Len(text) % 4 = 0
      BY <3>1, TextLength
    <3>3. text # <<>>
      BY <3>1, <3>2 DEF OutLen
    <3>4. ASSUME NEW p \in DOMAIN text
          PROVE  text[p] # 10
      <4> DEFINE g == (p - 1) \div 4
                 k == ((p - 1) % 4) + 1
      <4>1. p = 4 * g + k /\ k \in 1..4 /\ g \in Nat /\ 3 * g < Len(data)
        <5>1. p \in 1 .. 4 * ((Len(data) + 2) \div 3)
          BY <3>2 DEF OutLen
        <5>2. Len(data) \in Nat /\ p \in Nat
          BY <3>1, <5>1
        <5> QED
          BY <5>1, <5>2
      <4>2. /\ CharAt(data, 3 * g + 1) \in Char
            /\ \A m \in 1..4 : text[4 * g + m] # 10
        <5> HIDE DEF g
        <5> QED
          BY <3>1, <4>1, GroupText
      <4> HIDE DEF g, k, text
      <4>3. \A n \in Nat : n # 0 /\ n # 1 => n >= 2
        OBVIOUS
      <4> QED
        BY <4>1, <4>2, <4>3, Zenon
    <3> QED
      BY <2>2, <3>2, <3>3, <3>4
  <2> QED
    BY <2>1, <2>2
<1> QED
  BY <1>1, MessageTyped, PTL
----------------------------------------------------------------------------
(* Encode and the definition of Base64 *)

\* The two ways to write the table.
LEMMA SameTable ==
    ASSUME NEW v \in 0..63
    PROVE  EncodingTable[v] = Alphabet[v]
<1>1. CASE v \in 0..25
  BY <1>1 DEF EncodingTable, Alphabet
<1>2. CASE v \in 26..51
  BY <1>2 DEF EncodingTable, Alphabet
<1>3. CASE v \in 52..61
  BY <1>3 DEF EncodingTable, Alphabet
<1>4. CASE v = 62 \/ v = 63
  BY <1>4 DEF EncodingTable, Alphabet
<1> QED
  BY <1>1, <1>2, <1>3, <1>4

\* The bit of a byte that is worth w, and six bits as a number.
BitOf(x, w) == (x \div w) % 2
Six(u, v, w, x, y, z) == 32 * u + 16 * v + 8 * w + 4 * x + 2 * y + z

\* The eight bits from position k are those of the byte x, highest first.
BitsAt(k, x) ==
    /\ Bit(k) = BitOf(x, 128)    /\ Bit(k + 1) = BitOf(x, 64)
    /\ Bit(k + 2) = BitOf(x, 32) /\ Bit(k + 3) = BitOf(x, 16)
    /\ Bit(k + 4) = BitOf(x, 8)  /\ Bit(k + 5) = BitOf(x, 4)
    /\ Bit(k + 6) = BitOf(x, 2)  /\ Bit(k + 7) = BitOf(x, 1)

\* The bits of the char after the first n; zeros behind the last one.
LEMMA CharBits ==
    ASSUME data \in Seq(Char), NEW n \in Nat
    PROVE  BitsAt(8 * n, CharAt(data, n + 1) % 256)
<1> DEFINE x == CharAt(data, n + 1) % 256
<1>1. Len(data) \in Nat
  OBVIOUS
<1>2. /\ n < Len(data) => x = data[n + 1] % 256
      /\ n >= Len(data) => x = 0
  BY <1>1 DEF CharAt
<1> HIDE DEF x
<1>3. ASSUME NEW i \in 0..7
      PROVE  Bit(8 * n + i) = IF n < Len(data) THEN (x \div 2^(7 - i)) % 2 ELSE 0
  <2>1. (8 * n + i) \div 8 = n /\ (8 * n + i) % 8 = i
    OBVIOUS
  <2> QED
    BY <1>1, <1>2, <2>1 DEF Bit
<1>4. /\ 2^(7 - 0) = 128 /\ 2^(7 - 1) = 64 /\ 2^(7 - 2) = 32 /\ 2^(7 - 3) = 16
      /\ 2^(7 - 4) = 8 /\ 2^(7 - 5) = 4 /\ 2^(7 - 6) = 2 /\ 2^(7 - 7) = 1
  OBVIOUS
<1>5. ASSUME NEW i \in 0..7, NEW q \in 1..128, 2^(7 - i) = q
      PROVE  Bit(8 * n + i) = BitOf(x, q)
  <2>1. CASE n < Len(data)
    BY <1>3, <1>5, <2>1 DEF BitOf
  <2>2. CASE ~(n < Len(data))
    <3>1. x = 0
      BY <1>1, <1>2, <2>2
    <3>2. 0 \div q = 0
      OBVIOUS
    <3>3. BitOf(0, q) = 0
      BY <3>2 DEF BitOf
    <3> QED
      BY <1>3, <2>2, <3>1, <3>3
  <2> QED
    BY <2>1, <2>2
<1>6. 8 * n + 0 = 8 * n
  OBVIOUS
<1>7. BitsAt(8 * n, x)
  BY <1>4, <1>5, <1>6 DEF BitsAt
<1> QED
  BY <1>7 DEF x

\* Quotients and remainders of a byte by its bits.
LEMMA ByteBits ==
    ASSUME NEW m \in 0..255
    PROVE  /\ m \div 4 = Six(BitOf(m, 128), BitOf(m, 64), BitOf(m, 32),
                             BitOf(m, 16), BitOf(m, 8), BitOf(m, 4))
           /\ m % 4 = 2 * BitOf(m, 2) + BitOf(m, 1)
           /\ m \div 16 = 8 * BitOf(m, 128) + 4 * BitOf(m, 64)
                          + 2 * BitOf(m, 32) + BitOf(m, 16)
           /\ m % 16 = 8 * BitOf(m, 8) + 4 * BitOf(m, 4)
                       + 2 * BitOf(m, 2) + BitOf(m, 1)
           /\ m \div 64 = 2 * BitOf(m, 128) + BitOf(m, 64)
           /\ m % 64 = Six(BitOf(m, 32), BitOf(m, 16), BitOf(m, 8),
                           BitOf(m, 4), BitOf(m, 2), BitOf(m, 1))
<1> DEFINE h == BitOf(m, 128)  g == BitOf(m, 64)  f == BitOf(m, 32)
           e == BitOf(m, 16)   d == BitOf(m, 8)   q == BitOf(m, 4)
           p == BitOf(m, 2)    o == BitOf(m, 1)
<1>1. /\ h \in 0..1 /\ g \in 0..1 /\ f \in 0..1 /\ e \in 0..1
      /\ d \in 0..1 /\ q \in 0..1 /\ p \in 0..1 /\ o \in 0..1
  BY DEF BitOf
<1>2. m \div 4 = 32 * h + 16 * g + 8 * f + 4 * e + 2 * d + q
  BY DEF BitOf
<1>3. m % 4 = 2 * p + o
  BY DEF BitOf
<1>4. m = 4 * (m \div 4) + (m % 4)
  OBVIOUS
<1> HIDE DEF h, g, f, e, d, q, p, o
<1>5. m = 128 * h + 64 * g + 32 * f + 16 * e + 8 * d + 4 * q + 2 * p + o
  BY <1>1, <1>2, <1>3, <1>4
<1>6. /\ m \div 16 = 8 * h + 4 * g + 2 * f + e
      /\ m % 16 = 8 * d + 4 * q + 2 * p + o
  BY <1>1, <1>5
<1>7. /\ m \div 64 = 2 * h + g
      /\ m % 64 = 32 * f + 16 * e + 8 * d + 4 * q + 2 * p + o
  BY <1>1, <1>5
<1> QED
  BY <1>2, <1>3, <1>6, <1>7 DEF Six, h, g, f, e, d, q, p, o

\* The low bits of a byte and the high bits of the next one, as six bits.
LEMMA TwoBytes ==
    ASSUME NEW m \in 0..255, NEW n \in 0..255
    PROVE  /\ (m % 4) * 16 + (n \div 16)
                 = Six(BitOf(m, 2), BitOf(m, 1), BitOf(n, 128),
                       BitOf(n, 64), BitOf(n, 32), BitOf(n, 16))
           /\ (m % 16) * 4 + (n \div 64)
                 = Six(BitOf(m, 8), BitOf(m, 4), BitOf(m, 2),
                       BitOf(m, 1), BitOf(n, 128), BitOf(n, 64))
<1> DEFINE f == BitOf(m, 8)    e == BitOf(m, 4)   d == BitOf(m, 2)   o == BitOf(m, 1)
           h == BitOf(n, 128)  g == BitOf(n, 64)  q == BitOf(n, 32)  p == BitOf(n, 16)
<1>1. /\ m % 4 = 2 * d + o
      /\ m % 16 = 8 * f + 4 * e + 2 * d + o
      /\ n \div 16 = 8 * h + 4 * g + 2 * q + p
      /\ n \div 64 = 2 * h + g
  BY ByteBits, Zenon
<1>2. /\ f \in 0..1 /\ e \in 0..1 /\ d \in 0..1 /\ o \in 0..1
      /\ h \in 0..1 /\ g \in 0..1 /\ q \in 0..1 /\ p \in 0..1
  BY DEF BitOf
<1> HIDE DEF f, e, d, o, h, g, q, p
<1>3. /\ (m % 4) * 16 + (n \div 16) = 32 * d + 16 * o + 8 * h + 4 * g + 2 * q + p
      /\ (m % 16) * 4 + (n \div 64) = 32 * f + 16 * e + 8 * d + 4 * o + 2 * h + g
  BY <1>1, <1>2
<1> QED
  BY <1>3 DEF Six, f, e, d, o, h, g, q, p


\* What the code takes of a char, from the byte x it is.
PartsOf(a, x) ==
    /\ x \in 0..255
    /\ First6(a) = x \div 4
    /\ Low(a, 2) = x % 4 /\ Low(a, 4) = x % 16 /\ Low(a, 6) = x % 64
    /\ High(a, 4) = x \div 16 /\ High(a, 2) = x \div 64

LEMMA CharParts ==
    ASSUME NEW a \in Char
    PROVE  PartsOf(a, a % 256)
  BY DEF PartsOf, First6, Low, High, Char

\* The six bits that the definition takes for each character of a group are
\* those that the code takes.
LEMMA GroupSextets ==
    ASSUME data \in Seq(Char), NEW g \in Nat,
           NEW a \in Char, a = CharAt(data, 3 * g + 1),
           NEW b \in Char, b = CharAt(data, 3 * g + 2),
           NEW c \in Char, c = CharAt(data, 3 * g + 3)
    PROVE  /\ Sextet(4 * g) = First6(a)
           /\ Sextet(4 * g + 1) = Low(a, 2) * 16 + High(b, 4)
           /\ Sextet(4 * g + 2) = Low(b, 4) * 4 + High(c, 2)
           /\ Sextet(4 * g + 3) = Low(c, 6)
<1> DEFINE x == a % 256
           y == b % 256
           z == c % 256
<1>0. PartsOf(a, x) /\ PartsOf(b, y) /\ PartsOf(c, z)
  BY CharParts
<1>1. x \in 0..255 /\ y \in 0..255 /\ z \in 0..255
  BY <1>0 DEF PartsOf
<1>2. /\ First6(a) = x \div 4
      /\ Low(a, 2) = x % 4 /\ High(b, 4) = y \div 16
      /\ Low(b, 4) = y % 16 /\ High(c, 2) = z \div 64 /\ Low(c, 6) = z % 64
  BY <1>0 DEF PartsOf
<1>3. /\ 3 * g \in Nat /\ 3 * g + 1 \in Nat /\ 3 * g + 2 \in Nat
      /\ 8 * (3 * g) = 24 * g /\ 8 * (3 * g + 1) = 24 * g + 8
      /\ 8 * (3 * g + 2) = 24 * g + 16
      /\ (3 * g + 1) + 1 = 3 * g + 2 /\ (3 * g + 2) + 1 = 3 * g + 3
  OBVIOUS
<1>4. /\ BitsAt(8 * (3 * g), CharAt(data, 3 * g + 1) % 256)
      /\ BitsAt(8 * (3 * g + 1), CharAt(data, (3 * g + 1) + 1) % 256)
      /\ BitsAt(8 * (3 * g + 2), CharAt(data, (3 * g + 2) + 1) % 256)
  BY <1>3, CharBits, Zenon
<1>5. BitsAt(24 * g, x) /\ BitsAt(24 * g + 8, y) /\ BitsAt(24 * g + 16, z)
  BY <1>3, <1>4, Zenon
<1> HIDE DEF x, y, z
<1>6. Sextet(4 * g) = Six(BitOf(x, 128), BitOf(x, 64), BitOf(x, 32),
                          BitOf(x, 16), BitOf(x, 8), BitOf(x, 4))
  <2>1. 6 * (4 * g) = 24 * g
    OBVIOUS
  <2> QED
    BY <1>5, <2>1 DEF BitsAt, Sextet, Six
<1>7. Sextet(4 * g + 1) = Six(BitOf(x, 2), BitOf(x, 1), BitOf(y, 128),
                              BitOf(y, 64), BitOf(y, 32), BitOf(y, 16))
  <2>1. /\ 6 * (4 * g + 1) = 24 * g + 6
        /\ 24 * g + 6 + 1 = 24 * g + 7          /\ 24 * g + 6 + 2 = 24 * g + 8
        /\ 24 * g + 6 + 3 = (24 * g + 8) + 1    /\ 24 * g + 6 + 4 = (24 * g + 8) + 2
        /\ 24 * g + 6 + 5 = (24 * g + 8) + 3
    OBVIOUS
  <2> QED
    BY <1>5, <2>1 DEF BitsAt, Sextet, Six
<1>8. Sextet(4 * g + 2) = Six(BitOf(y, 8), BitOf(y, 4), BitOf(y, 2),
                              BitOf(y, 1), BitOf(z, 128), BitOf(z, 64))
  <2>1. /\ 6 * (4 * g + 2) = (24 * g + 8) + 4
        /\ (24 * g + 8) + 4 + 1 = (24 * g + 8) + 5 /\ (24 * g + 8) + 4 + 2 = (24 * g + 8) + 6
        /\ (24 * g + 8) + 4 + 3 = (24 * g + 8) + 7 /\ (24 * g + 8) + 4 + 4 = 24 * g + 16
        /\ (24 * g + 8) + 4 + 5 = (24 * g + 16) + 1
    OBVIOUS
  <2> QED
    BY <1>5, <2>1 DEF BitsAt, Sextet, Six
<1>9. Sextet(4 * g + 3) = Six(BitOf(z, 32), BitOf(z, 16), BitOf(z, 8),
                              BitOf(z, 4), BitOf(z, 2), BitOf(z, 1))
  <2>1. /\ 6 * (4 * g + 3) = (24 * g + 16) + 2
        /\ (24 * g + 16) + 2 + 1 = (24 * g + 16) + 3 /\ (24 * g + 16) + 2 + 2 = (24 * g + 16) + 4
        /\ (24 * g + 16) + 2 + 3 = (24 * g + 16) + 5 /\ (24 * g + 16) + 2 + 4 = (24 * g + 16) + 6
        /\ (24 * g + 16) + 2 + 5 = (24 * g + 16) + 7
    OBVIOUS
  <2> QED
    BY <1>5, <2>1 DEF BitsAt, Sextet, Six
<1>10. /\ x \div 4 = Six(BitOf(x, 128), BitOf(x, 64), BitOf(x, 32),
                         BitOf(x, 16), BitOf(x, 8), BitOf(x, 4))
       /\ z % 64 = Six(BitOf(z, 32), BitOf(z, 16), BitOf(z, 8),
                       BitOf(z, 4), BitOf(z, 2), BitOf(z, 1))
  BY <1>1, ByteBits, Zenon
<1>11. (x % 4) * 16 + (y \div 16)
              = Six(BitOf(x, 2), BitOf(x, 1), BitOf(y, 128),
                    BitOf(y, 64), BitOf(y, 32), BitOf(y, 16))
  BY <1>1, TwoBytes, Zenon
<1>12. (y % 16) * 4 + (z \div 64)
              = Six(BitOf(y, 8), BitOf(y, 4), BitOf(y, 2),
                    BitOf(y, 1), BitOf(z, 128), BitOf(z, 64))
  BY <1>1, TwoBytes, Zenon
<1> QED
  BY <1>2, <1>6, <1>7, <1>8, <1>9, <1>10, <1>11, <1>12, Zenon

\* How many characters carry bits, and which of a group are padding.
LEMMA LetterCount ==
    ASSUME NEW n \in Nat, n = Len(data)
    PROVE  /\ Letters \in Nat
           /\ 4 * ((Letters + 3) \div 4) = OutLen(n)
           /\ \A g \in Nat : 3 * g < n =>
                 /\ 4 * g + 2 <= Letters
                 /\ 4 * g + 3 <= Letters <=> 3 * g + 1 < n
                 /\ 4 * g + 4 <= Letters <=> 3 * g + 2 < n
<1> DEFINE L == (8 * n + 5) \div 6
<1>1. Letters = L
  BY DEF Letters
<1>2. L \in Nat /\ 6 * L <= 8 * n + 5 /\ 8 * n + 5 < 6 * L + 6
  OBVIOUS
<1> HIDE DEF L
<1>3. 4 * ((L + 3) \div 4) = OutLen(n)
  BY <1>2 DEF OutLen
<1>4. ASSUME NEW g \in Nat, 3 * g < n
      PROVE  /\ 4 * g + 2 <= L
             /\ 4 * g + 3 <= L <=> 3 * g + 1 < n
             /\ 4 * g + 4 <= L <=> 3 * g + 2 < n
  BY <1>2, <1>4
<1> QED
  BY <1>1, <1>2, <1>3, <1>4

\* One character of the text is the one that the definition gives.
LEMMA SameCharacter ==
    ASSUME data \in Seq(Char), Len(data) >= 2, Len(data) < SizeMod,
           NEW g \in Nat, 3 * g < Len(data), NEW k \in 1..4,
           NEW p, p = 4 * g + k
    PROVE  Encode(data)[p] = IF p <= Letters THEN Alphabet[Sextet(p - 1)] ELSE Pad
<1> DEFINE a == CharAt(data, 3 * g + 1)
           b == CharAt(data, 3 * g + 2)
           c == CharAt(data, 3 * g + 3)
           text == Encode(data)
           C(q) == IF q <= Letters THEN Alphabet[Sextet(q - 1)] ELSE Pad
<1>1. /\ a \in Char /\ b \in Char /\ c \in Char
      /\ text[4 * g + 3] = Pad <=> 3 * g + 1 >= Len(data)
      /\ text[4 * g + 4] = Pad <=> 3 * g + 2 >= Len(data)
      /\ text[4 * g + 1] = EncodingTable[First6(a)]
      /\ text[4 * g + 2] = EncodingTable[Low(a, 2) * 16 + High(b, 4)]
      /\ text[4 * g + 3] # Pad
           => text[4 * g + 3] = EncodingTable[Low(b, 4) * 4 + High(c, 2)]
      /\ text[4 * g + 4] # Pad => text[4 * g + 4] = EncodingTable[Low(c, 6)]
  BY GroupText
<1>2. Len(data) \in Nat
  OBVIOUS
<1>3. /\ Sextet(4 * g) = First6(a)
      /\ Sextet(4 * g + 1) = Low(a, 2) * 16 + High(b, 4)
      /\ Sextet(4 * g + 2) = Low(b, 4) * 4 + High(c, 2)
      /\ Sextet(4 * g + 3) = Low(c, 6)
  BY <1>1, GroupSextets, Zenon
<1> HIDE DEF a, b, c, text
<1>4. /\ First6(a) \in 0..63
      /\ Low(a, 2) * 16 + High(b, 4) \in 0..63
      /\ Low(b, 4) * 4 + High(c, 2) \in 0..63
      /\ Low(c, 6) \in 0..63
  BY <1>1, GroupIndexes, Zenon
<1>5. /\ EncodingTable[First6(a)] = Alphabet[Sextet(4 * g)]
      /\ EncodingTable[Low(a, 2) * 16 + High(b, 4)] = Alphabet[Sextet(4 * g + 1)]
      /\ EncodingTable[Low(b, 4) * 4 + High(c, 2)] = Alphabet[Sextet(4 * g + 2)]
      /\ EncodingTable[Low(c, 6)] = Alphabet[Sextet(4 * g + 3)]
  BY <1>3, <1>4, SameTable, Zenon
<1>6. /\ Letters \in Nat
      /\ 4 * g + 2 <= Letters
      /\ 4 * g + 3 <= Letters <=> 3 * g + 1 < Len(data)
      /\ 4 * g + 4 <= Letters <=> 3 * g + 2 < Len(data)
  BY <1>2, LetterCount
<1>7. /\ 4 * g + 1 <= Letters
      /\ 3 * g + 1 >= Len(data) <=> ~(3 * g + 1 < Len(data))
      /\ 3 * g + 2 >= Len(data) <=> ~(3 * g + 2 < Len(data))
      /\ (4 * g + 1) - 1 = 4 * g     /\ (4 * g + 2) - 1 = 4 * g + 1
      /\ (4 * g + 3) - 1 = 4 * g + 2 /\ (4 * g + 4) - 1 = 4 * g + 3
  BY <1>2, <1>6
<1>8. text[4 * g + 1] = C(4 * g + 1) /\ text[4 * g + 2] = C(4 * g + 2)
  BY <1>1, <1>5, <1>6, <1>7, Zenon
<1>9. text[4 * g + 3] = C(4 * g + 3)
  <2>1. CASE 3 * g + 1 < Len(data)
    BY <1>1, <1>5, <1>6, <1>7, <2>1, Zenon
  <2>2. CASE ~(3 * g + 1 < Len(data))
    BY <1>1, <1>6, <1>7, <2>2, Zenon
  <2> QED
    BY <2>1, <2>2
<1>10. text[4 * g + 4] = C(4 * g + 4)
  <2>1. CASE 3 * g + 2 < Len(data)
    BY <1>1, <1>5, <1>6, <1>7, <2>1, Zenon
  <2>2. CASE ~(3 * g + 2 < Len(data))
    BY <1>1, <1>6, <1>7, <2>2, Zenon
  <2> QED
    BY <2>1, <2>2
<1>11. text[p] = C(p)
  <2>1. p = 4 * g + 1 \/ p = 4 * g + 2 \/ p = 4 * g + 3 \/ p = 4 * g + 4
    OBVIOUS
  <2> HIDE DEF C
  <2> QED
    BY <1>8, <1>9, <1>10, <2>1, Zenon
<1> QED
  BY <1>11, Zenon DEF text

\* For a message of any chars that is not one char long the text is Base64.
THEOREM EncodeCorrectHolds == Spec => []EncodeCorrect
<1>1. data \in Seq(Char) /\ Len(data) <= MaxLen => EncodeCorrect
  <2> SUFFICES ASSUME data \in Seq(Char), Len(data) <= MaxLen, Len(data) # 1
               PROVE  Encode(data) = Reference
    BY DEF EncodeCorrect, Encodable
  <2>0. Len(data) \in Nat
    OBVIOUS
  <2>1. Reference = [p \in 1 .. OutLen(Len(data)) |->
                       IF p <= Letters THEN Alphabet[Sextet(p - 1)] ELSE Pad]
    BY <2>0, LetterCount DEF Reference
  <2>2. CASE data = <<>>
    <3>1. OutLen(Len(data)) = 0
      BY <2>2 DEF OutLen
    <3>2. Encode(data) = <<>>
      BY <2>2 DEF Encode
    <3>3. 1 .. OutLen(Len(data)) = {}
      BY <3>1
    <3>4. Reference = <<>>
      BY <2>1, <3>3
    <3> QED
      BY <3>2, <3>4
  <2>3. CASE data # <<>>
    <3>1. Len(data) >= 2 /\ Len(data) < SizeMod
      <4>1. Len(data) # 0
        BY <2>3
      <4>2. Len(data) < SizeMod
        BY LengthFits
      <4>3. \A n \in Nat : n # 0 /\ n # 1 => n >= 2
        OBVIOUS
      <4> QED
        BY <2>0, <4>1, <4>2, <4>3, Zenon
    <3>2. Encode(data) = [p \in 1 .. OutLen(Len(data)) |-> Encode(data)[p]]
      BY <3>1, TextLength
    <3>3. ASSUME NEW p \in 1 .. OutLen(Len(data))
          PROVE  Encode(data)[p]
                   = IF p <= Letters THEN Alphabet[Sextet(p - 1)] ELSE Pad
      <4> DEFINE g == (p - 1) \div 4
                 k == ((p - 1) % 4) + 1
      <4>1. p = 4 * g + k /\ k \in 1..4 /\ g \in Nat /\ 3 * g < Len(data)
        <5>1. p \in 1 .. 4 * ((Len(data) + 2) \div 3)
          BY DEF OutLen
        <5>2. p \in Nat
          BY <2>0, <5>1
        <5> QED
          BY <2>0, <5>1, <5>2
      <4> HIDE DEF g, k
      <4> QED
        BY <3>1, <4>1, SameCharacter, Zenon
    <3> QED
      BY <2>1, <3>2, <3>3, Zenon
  <2> QED
    BY <2>2, <2>3
<1> QED
  BY <1>1, MessageTyped, PTL
============================================================================
