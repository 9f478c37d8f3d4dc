---------------------------- MODULE IntegerCodec ----------------------------
(***************************************************************************)
(* The integers of the library: how many octets a value needs, how it is   *)
(* written into them and read from them, and how many digits it has in a   *)
(* document.                                                               *)
(*                                                                         *)
(* A value is the sequence of the octets of its C++ type, in two's         *)
(* complement, the most significant first; a type is a record of its width *)
(* in octets and whether it is signed.                                     *)
(***************************************************************************)
EXTENDS Words

CONSTANT Failed                         \* an exception instead of a result

Types == [width : {1, 2, 4, 8}, signed : BOOLEAN]

Bits(value) ==
    Word(8 * Len(value), LAMBDA i :
        (value[((i - 1) \div 8) + 1] \div 2 ^ (7 - ((i - 1) % 8))) % 2)

\* The number of bits in front of the first one that satisfies Test.
BitsBefore(bits, Test(_)) ==
    CHOOSE n \in 0..Len(bits) :
        /\ \A i \in 1..n : ~Test(bits[i])
        /\ n < Len(bits) => Test(bits[n + 1])

clz(value) == BitsBefore(Bits(value), LAMBDA bit : bit = 1)

\* The bits behind the sign that repeat it.
clrsb(value) ==
    LET bits == Bits(value)
    IN  BitsBefore(bits, LAMBDA bit : bit # bits[1]) - 1

IsZero(value) == \A i \in DOMAIN value : value[i] = 0

Number16(value) ==
    LET n == 256 * value[1] + value[2]
    IN  IF n >= 32768 THEN n - 65536 ELSE n

\* Seven bits of a tag go into each octet.
minimally_encoded_tag_length(tag) ==
    LET redundant == IF IsZero(tag) THEN 31 ELSE clz(tag)
    IN  (32 - redundant + 6) \div 7

\* A fault: the leading zeros of a signed number are counted.
minimally_encoded_length_unsigned(type, value) ==
    type.width - (IF IsZero(value) THEN type.width - 1 ELSE clz(value) \div 8)

minimally_encoded_length(type, value) ==
    CASE type.width = 1 -> 1
      [] type.width = 2 /\ ~type.signed -> IF value[1] > 0 THEN 2 ELSE 1
      [] type.width = 2 /\ type.signed ->
            IF Number16(value) < -128 \/ Number16(value) > 255 THEN 2 ELSE 1
      [] type.width > 2 /\ ~type.signed ->
            type.width - (IF IsZero(value) THEN type.width - 1
                                           ELSE clz(value) \div 8)
      [] OTHER -> type.width - (clrsb(value) \div 8)

(* -------------------------- Values and octets --------------------------- *)

encode_int(type, value, size) ==
    IF (type.width = 1 /\ size # 1) \/ size > type.width
    THEN Failed
    ELSE SubSeq(value, type.width - size + 1, type.width)

\* A fault: the sign is not extended.
decode_int_unsigned(type, octets, old) ==
    CASE Len(octets) > type.width -> Failed
      [] octets = << >> -> old
      [] OTHER -> bcast(type.width - Len(octets), 0) \o octets

\* Without an octet the result keeps what it held.
decode_int(type, octets, old) ==
    CASE Len(octets) > type.width -> Failed
      [] octets = << >> -> old
      [] type.width = 1 -> octets
      [] OTHER ->
            LET r == IF type.signed /\ octets[1] >= 128 THEN 255 ELSE 0
            IN  bcast(type.width - Len(octets), r) \o octets

encode_bool(t, size) ==
    IF size # 1 THEN Failed ELSE <<IF t THEN 1 ELSE 0>>

\* The one octet is read even when there is none: next is what lies behind.
decode_bool(octets, next) ==
    IF Len(octets) > 1 THEN Failed
    ELSE (octets \o <<next>>)[1] # 0

(* ------------------------------- Digits --------------------------------- *)

powers_of_10 == [t \in 0..9 |-> IF t = 0 THEN 0 ELSE 10 ^ t]

\* The digits of a number below 2^31, of which TLC's integers allow no more.
dec_digits(n) ==
    LET size == CHOOSE b \in 1..31 :
                    (n | 1) \div 2 ^ (b - 1) = 1
        t == (size * 1233) \div 4096
    IN  t - (IF n < powers_of_10[t] THEN 1 ELSE 0) + 1
=============================================================================
