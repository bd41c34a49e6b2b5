------------------------------- MODULE Base64 -------------------------------
(***************************************************************************)
(* Base64 (core/src/Base64/Base64.cpp): the text that tcp_connection puts  *)
(* on the wire for a message, and back.                                    *)
(*                                                                         *)
(* A message is a sequence of char, which is signed on the platforms the   *)
(* build supports; a text is a sequence of character codes.  Positions are *)
(* counted from 1 here and from 0 in the code.                             *)
(***************************************************************************)
EXTENDS Integers, Sequences

CONSTANT SizeMod    \* size_t counts modulo this power of two

ASSUME SizeAssumption == SizeMod \in Nat /\ SizeMod > 2

Char == -128 .. 127
Pad == 61           \* '='
Invalid == 64       \* what kDecodingTable has for other characters
----------------------------------------------------------------------------
(* Sizes, for a message of n chars *)

OutLen(n) == 4 * ((n + 2) \div 3)

\* The loop runs while i < in_len - 2, an unsigned difference.
LoopEnd(n) == (n - 2) % SizeMod
Groups(n) == (LoopEnd(n) + 2) \div 3

\* Mutant: no padding.
Unpadded(n) ==
    4 * Groups(n) + (IF 3 * Groups(n) < n THEN n - 3 * Groups(n) + 1 ELSE 0)

\* Characters written through p: four for each turn of the loop, and four
\* for the one or two chars left.
Written(n) == 4 * Groups(n) + (IF 3 * Groups(n) < n THEN 4 ELSE 0)
----------------------------------------------------------------------------
(* Encode *)

EncodingTable ==
    [v \in 0..63 |->
        CASE v \in  0..25 -> v + 65     \* 'A'..'Z'
          [] v \in 26..51 -> v + 71     \* 'a'..'z'
          [] v \in 52..61 -> v - 4      \* '0'..'9'
          [] v = 62 -> 43               \* '+'
          [] v = 63 -> 47]              \* '/'

\* Bits 7..2 of a char; its low 2, 4 or 6 bits; its high 4 or 2.  Division
\* rounds down, as >> does on a negative char.
First6(a) == (a \div 4) % 64
Low(a, k) == a % 2^k
High(a, k) == (a % 256) \div 2^(8 - k)

\* Mutant: the sign of the second char goes into the first one's bits.
EncodeGroupSigned(a, b, c) ==
    <<First6(a), (Low(a, 2) * 16 + b \div 16) % 64,
      Low(b, 4) * 4 + High(c, 2), Low(c, 6)>>

\* The table indexes for three chars, and for the last two and one.
EncodeGroup(a, b, c) ==
    <<First6(a), Low(a, 2) * 16 + High(b, 4), Low(b, 4) * 4 + High(c, 2), Low(c, 6)>>
EncodeLastTwo(a, b) == <<First6(a), Low(a, 2) * 16 + High(b, 4), Low(b, 4) * 4>>
EncodeLastOne(a) == <<First6(a), Low(a, 2) * 16>>

\* The indexes written for the group that starts at offset i.
Indexes(data, i) ==
    IF i < LoopEnd(Len(data)) THEN EncodeGroup(data[i + 1], data[i + 2], data[i + 3])
    ELSE IF i = Len(data) - 1 THEN EncodeLastOne(data[i + 1])
    ELSE EncodeLastTwo(data[i + 1], data[i + 2])

Encode(data) ==
    IF data = <<>> THEN <<>>
    ELSE [p \in 1 .. Written(Len(data)) |->
            LET group == Indexes(data, 3 * ((p - 1) \div 4))
                k == ((p - 1) % 4) + 1
            IN  IF k <= Len(group) THEN EncodingTable[group[k]] ELSE Pad]
----------------------------------------------------------------------------
(* Decode *)

DecodingTable ==
    [c \in 0..255 |->
        CASE c \in 65..90  -> c - 65
          [] c \in 97..122 -> c - 71
          [] c \in 48..57  -> c + 4
          [] c = 43 -> 62
          [] c = 47 -> 63
          [] OTHER -> Invalid]

Value(c) == IF c = Pad THEN 0 ELSE DecodingTable[c]

\* Decode throws on other lengths.
Decodes(text) == Len(text) % 4 = 0

\* Mutant: one '=' is looked for.
DecodedLenOnePad(text) ==
    (Len(text) \div 4) * 3 - (IF text[Len(text)] = Pad THEN 1 ELSE 0)

DecodedLen(text) ==
    (Len(text) \div 4) * 3
    - (IF text[Len(text)] = Pad THEN 1 ELSE 0)
    - (IF text[Len(text) - 1] = Pad THEN 1 ELSE 0)

\* The sum may carry when a character is invalid.
Triple(text, g) ==
    Value(text[4 * g + 1]) * 2^18 + Value(text[4 * g + 2]) * 2^12
    + Value(text[4 * g + 3]) * 2^6 + Value(text[4 * g + 4])

\* (triple >> 8 k) & 0xFF, as a char.
ByteOf(triple, k) ==
    LET byte == (triple \div 2^(8 * k)) % 256
    IN  IF byte < 128 THEN byte ELSE byte - 256

Decode(text) ==
    IF text = <<>> THEN <<>>
    ELSE [j \in 1 .. DecodedLen(text) |->
            ByteOf(Triple(text, (j - 1) \div 3), 2 - ((j - 1) % 3))]
============================================================================
