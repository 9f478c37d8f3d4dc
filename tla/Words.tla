------------------------------- MODULE Words -------------------------------
(***************************************************************************)
(* Machine words as sequences of octets, for the codecs that work on       *)
(* several digits of one register at a time.                               *)
(*                                                                         *)
(* A word is written most significant octet first and keeps its width: a   *)
(* carry or a bit that leaves the first octet is lost, and what one octet  *)
(* loses or gains goes to the octet next to it, so that an operation that  *)
(* is meant for each octet alone is right only when nothing is carried.    *)
(* The octets of a vector register are written in the order of the memory, *)
(* the first octet first.                                                  *)
(***************************************************************************)
EXTENDS Integers, SequencesExt, Bitwise

Octet == 0..255

High(octet) == octet \div 16

Low(octet) == octet % 16

(* -------------------------------- Words -------------------------------- *)

\* A word of n octets; TLC evaluates every octet of it once.
Word(n, OctetAt(_)) == SubSeq([i \in 1..n |-> OctetAt(i)], 1, n)

\* The octet in every octet of a word.
bcast(width, octet) == Word(width, LAMBDA i : octet)

\* The octets of the memory that holds a word, and its inverse.
Image(order, word) == IF order = "little" THEN Reverse(word) ELSE word

\* The word that the octets are when the first is the most significant one:
\* a copy into the register, and the swap of a little endian machine.
movbe(order, octets) ==
    LET copied == Image(order, octets)
    IN  IF order = "little" THEN Reverse(copied) ELSE copied

AndWord(x, y) == Word(Len(x), LAMBDA i : x[i] & y[i])

OrWord(x, y) == Word(Len(x), LAMBDA i : x[i] | y[i])

Add(x, y) ==
    LET carry[i \in DOMAIN x] ==
            IF i = Len(x) THEN 0
                          ELSE (x[i + 1] + y[i + 1] + carry[i + 1]) \div 256
    IN  Word(Len(x), LAMBDA i : (x[i] + y[i] + carry[i]) % 256)

Subtract(x, y) ==
    LET borrow[i \in DOMAIN x] ==
            IF i = Len(x) THEN 0
                          ELSE (y[i + 1] + borrow[i + 1] + 255 - x[i + 1]) \div 256
    IN  Word(Len(x), LAMBDA i : (x[i] - y[i] - borrow[i]) % 256)

\* Shifts by less than an octet, within the word.
ShiftLeft(x, bits) ==
    Word(Len(x), LAMBDA i :
        ((x[i] * 2 ^ bits) % 256)
            + (IF i = Len(x) THEN 0 ELSE x[i + 1] \div 2 ^ (8 - bits)))

ShiftRight(x, bits) ==
    Word(Len(x), LAMBDA i :
        (x[i] \div 2 ^ bits)
            + (IF i = 1 THEN 0 ELSE (x[i - 1] * 2 ^ (8 - bits)) % 256))

\* Bit deposit and bit extract with the mask 0x0f in every octet.
Deposit(octets) ==
    Word(2 * Len(octets), LAMBDA i :
        IF i % 2 = 1 THEN High(octets[(i + 1) \div 2]) ELSE Low(octets[i \div 2]))

Extract(x) ==
    Word(Len(x) \div 2, LAMBDA i : 16 * Low(x[2 * i - 1]) + Low(x[2 * i]))

(* ------------------------------- Vectors -------------------------------- *)

\* _mm_srli_epi16: every pair of octets is a little endian number.
ShiftPairs(v, bits) ==
    Word(Len(v), LAMBDA i :
        (v[i] \div 2 ^ bits)
            + (IF i % 2 = 0 THEN 0 ELSE (v[i + 1] * 2 ^ (8 - bits)) % 256))

\* _mm_shuffle_epi8: an index with its highest bit set chooses zero.
Shuffle(v, indices) ==
    Word(16, LAMBDA i : IF indices[i] >= 128 THEN 0 ELSE v[(indices[i] % 16) + 1])

\* _mm_unpacklo_epi8: the low halves of two vectors, interleaved.
Unpack(v, w) ==
    Word(16, LAMBDA i : IF i % 2 = 1 THEN v[(i + 1) \div 2] ELSE w[i \div 2])

\* Octet by octet: the sum, the difference, the comparison of signed octets
\* and the difference that stops at zero.
AddOctets(v, w) == Word(16, LAMBDA i : (v[i] + w[i]) % 256)

SubtractOctets(v, w) == Word(16, LAMBDA i : (v[i] - w[i]) % 256)

Signed(octet) == IF octet < 128 THEN octet ELSE octet - 256

Greater(v, w) ==
    Word(16, LAMBDA i : IF Signed(v[i]) > Signed(w[i]) THEN 255 ELSE 0)

SubtractSaturated(v, w) ==
    Word(16, LAMBDA i : IF v[i] < w[i] THEN 0 ELSE v[i] - w[i])

\* The indices that exchange the octets of every pair, and those that take
\* every other octet and fill the upper half with zeros.
SwapPairs == Word(16, LAMBDA i : IF i % 2 = 1 THEN i ELSE i - 2)

EvenOctets == Word(16, LAMBDA i : IF i <= 8 THEN 2 * (i - 1) ELSE 128)
=============================================================================
