--------------------------- MODULE Base64Messages ---------------------------
(***************************************************************************)
(* What Base64 must do for a message, stated for every message up to a     *)
(* length.  The message grows by one char at a time.                       *)
(***************************************************************************)
EXTENDS Base64

CONSTANTS
    Sample,     \* the chars of messages
    MaxLen      \* bound: chars in the message

\* The sizes computed from a length do not overflow.
ASSUME MessageAssumption ==
    /\ Sample \subseteq Char
    /\ MaxLen \in Nat
    /\ OutLen(MaxLen) < SizeMod

VARIABLE data

Init == data = <<>>
Next == Len(data) < MaxLen /\ \E c \in Sample : data' = Append(data, c)
Spec == Init /\ [][Next]_data
----------------------------------------------------------------------------
(* Base64 by its definition: the bits of the message, highest first, six   *)
(* by six, padded with zeros to a character and with '=' to four.          *)

Alphabet == [v \in 0..63 |->
    IF v < 26 THEN 65 + v ELSE IF v < 52 THEN 97 + (v - 26)
    ELSE IF v < 62 THEN 48 + (v - 52) ELSE IF v = 62 THEN 43 ELSE 47]

Bit(p) ==
    IF p \div 8 < Len(data) THEN ((data[p \div 8 + 1] % 256) \div 2^(7 - (p % 8))) % 2 ELSE 0

Sextet(q) ==
    32 * Bit(6 * q) + 16 * Bit(6 * q + 1) + 8 * Bit(6 * q + 2)
    + 4 * Bit(6 * q + 3) + 2 * Bit(6 * q + 4) + Bit(6 * q + 5)

Letters == (8 * Len(data) + 5) \div 6

Reference ==
    [p \in 1 .. 4 * ((Letters + 3) \div 4) |->
        IF p <= Letters THEN Alphabet[Sextet(p - 1)] ELSE Pad]
----------------------------------------------------------------------------
\* The code is undefined on one char, see InBounds.
Encodable == Len(data) # 1

\* Encode computes Base64, whatever the signs of the chars.
EncodeCorrect == Encodable => Encode(data) = Reference

\* Decode gives the message back: neither the padding nor the signs lose a
\* char.
RoundTrip ==
    Encodable => /\ Decodes(Encode(data))
                 /\ Decode(Encode(data)) = data

\* What tcp_connection relies on: a text has no delimiter, only the empty
\* message has an empty text, and its length is one that Decode accepts.
Frameable ==
    Encodable => /\ \A p \in DOMAIN Encode(data) : Encode(data)[p] # 10
                 /\ Encode(data) = <<>> <=> data = <<>>
                 /\ Len(Encode(data)) % 4 = 0

\* Encode writes into the string it has allocated and nowhere else.
InBounds == data # <<>> => Written(Len(data)) <= OutLen(Len(data))
============================================================================
