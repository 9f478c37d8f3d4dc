-------------------------------- MODULE Bcd ---------------------------------
(***************************************************************************)
(* The decoders of binary-coded decimals: an octet becomes two characters, *)
(* one octet at a time, by a table, in a machine word or in a vector       *)
(* register.  Octets and characters are numbers.                           *)
(*                                                                         *)
(* A decoder is a record of the template arguments: its type, how it       *)
(* scatters the nibbles, converts them and gathers the characters, the     *)
(* first letter of the digits above 9 and the width of the word; order is  *)
(* the byte order of the machine and bmi2 whether it has the bit           *)
(* instructions.                                                           *)
(*                                                                         *)
(* The encoders of binary-coded decimals: two characters become an octet,  *)
(* two at a time, by a table, in a machine word or in a vector register.   *)
(* A last character without a partner gets the nibble 15.                  *)
(*                                                                         *)
(* An encoder is a record of the template arguments, as a decoder is.      *)
(*                                                                         *)
(* xfsx/hex_impl.hh: octets that are not plain text are written with two   *)
(* hexadecimal digits - as a character reference in a document, in the     *)
(* manner of C, or all of them - and read back.  Both loops alternate      *)
(* between a run that is copied and characters that are translated; the    *)
(* operators are the parts of one round.  A style is "XML", "C" or "Raw".  *)
(***************************************************************************)
EXTENDS Words

Zero == 48                                                    \* '0'

geq_10_off(A) == A - Zero - 10

\* What every decoder promises for an octet.
DigitOf(A, nibble) == IF nibble > 9 THEN nibble - 10 + A ELSE nibble + Zero

DigitsOf(A, octet) == <<DigitOf(A, High(octet)), DigitOf(A, Low(octet))>>

(* ------------------------------ Bytewise -------------------------------- *)

\* The masks of the variants without a branch.
ArithmeticMask(nibble) ==
    LET m == (nibble + 54) & 64 IN m - (m \div 64)

ComparisonMask(nibble) == IF nibble > 9 THEN 255 ELSE 0

ConvertNibble(convert, A, nibble) ==
    CASE convert = "BRANCH" ->
            IF nibble > 9 THEN nibble - 10 + A ELSE nibble + Zero
      [] convert = "ARITH" ->
            (nibble + Zero + (ArithmeticMask(nibble) & geq_10_off(A))) % 256
      [] OTHER ->
            (nibble + Zero + (ComparisonMask(nibble) & geq_10_off(A))) % 256

decode_bytewise(d, octet) ==
    <<ConvertNibble(d.convert, d.A, High(octet)),
      ConvertNibble(d.convert, d.A, Low(octet))>>

(* ------------------------------- Lookup --------------------------------- *)

\* The tables of two characters: the entry is a number of 16 bits, and the
\* table depends on the byte order that stores it.
LittleEndianLower ==
    [octet \in Octet |-> DigitOf(97, High(octet)) + 256 * DigitOf(97, Low(octet))]

LittleEndianUpper ==
    [octet \in Octet |-> DigitOf(65, High(octet)) + 256 * DigitOf(65, Low(octet))]

BigEndianLower ==
    [octet \in Octet |-> 256 * DigitOf(97, High(octet)) + DigitOf(97, Low(octet))]

BigEndianUpper ==
    [octet \in Octet |-> 256 * DigitOf(65, High(octet)) + DigitOf(65, Low(octet))]

Pair(order, A, octet) ==
    IF order = "little"
    THEN IF A = 97 THEN LittleEndianLower[octet] ELSE LittleEndianUpper[octet]
    ELSE IF A = 97 THEN BigEndianLower[octet] ELSE BigEndianUpper[octet]

\* The tables of one character.
SmallTable(A) == [nibble \in 0..15 |-> DigitOf(A, nibble)]

decode_lookup(d, octet) ==
    IF d.convert = "DIRECT"
    THEN LET x == Pair(d.order, d.A, octet)
         IN  Image(d.order, <<x \div 256, x % 256>>)
    ELSE <<SmallTable(d.A)[High(octet)], SmallTable(d.A)[Low(octet)]>>

(* -------------------------- SIMD in a register --------------------------- *)

\* Half a word of octets in, a word of nibbles out.
ScatterWord(d, octets) ==
    IF d.scatter = "PDEP" /\ d.bmi2
    THEN Deposit(movbe(d.order, octets))
    ELSE LET first == bcast(d.width - 1, 0) \o <<octets[1]>>
             t == FoldLeft(LAMBDA w, octet :
                               OrWord(SubSeq(w, 3, d.width) \o <<0, 0>>,
                                  bcast(d.width - 1, 0) \o <<octet>>),
                           first, Tail(octets))
             a == AndWord(ShiftLeft(t, 4), bcast(d.width, 15))
             b == AndWord(t, bcast(d.width, 15))
         IN  OrWord(a, b)

\* A fault: nine is taken for a letter.
ConvertWordNineIsLetter(d, x) ==
    LET m == AndWord(Add(x, bcast(d.width, 55)), bcast(d.width, 64))
        mask == Subtract(m, ShiftRight(m, 6))
    IN  Add(Add(x, bcast(d.width, Zero)),
            AndWord(mask, bcast(d.width, geq_10_off(d.A))))

ConvertWord(d, x) ==
    LET m == AndWord(Add(x, bcast(d.width, 54)), bcast(d.width, 64))
        mask == Subtract(m, ShiftRight(m, 6))
    IN  Add(Add(x, bcast(d.width, Zero)),
            AndWord(mask, bcast(d.width, geq_10_off(d.A))))

\* The shifts of the first alternative are those of a word of 8 octets.
GatherWord(d, y) ==
    IF d.gather = "SHIFT"
    THEN Word(8, LAMBDA k : y[k])
    ELSE Image(d.order, IF d.order = "little" THEN Reverse(y) ELSE y)

decode_swar_word(d, octets) ==
    GatherWord(d, ConvertWord(d, ScatterWord(d, octets)))

(* ---------------------------- Vector registers --------------------------- *)

\* 8 octets in, 16 nibbles out; the nibbles of an octet are in order after
\* the interleaving and exchanged after the bit deposit.
ScatterVector(d, octets) ==
    IF d.scatter = "LOOP" \/ ~d.bmi2
    THEN LET a == octets \o bcast(8, 0)
             b == ShiftPairs(a, 4)
         IN  AndWord(Unpack(b, a), bcast(16, 15))
    ELSE Word(16, LAMBDA i : IF i % 2 = 1 THEN Low(octets[(i + 1) \div 2])
                                          ELSE High(octets[i \div 2]))

ConvertVector(d, x) ==
    IF d.convert = "DIRECT"
    THEN Shuffle(Word(16, LAMBDA i : DigitOf(d.A, i - 1)), x)
    ELSE LET mask == Greater(x, bcast(16, 9))
             y == AddOctets(x, bcast(16, Zero))
         IN  AddOctets(y, AndWord(mask, bcast(16, geq_10_off(d.A))))

GatherVector(d, r) == IF d.scatter = "PDEP" THEN Shuffle(r, SwapPairs) ELSE r

decode_ssse3_word(d, octets) ==
    GatherVector(d, ConvertVector(d, ScatterVector(d, octets)))

(* -------------------------------- decode -------------------------------- *)

\* The octets of one step of the loop of the decoder, and what the step
\* writes; the rest that is shorter goes through the table.
WordOctets(d) ==
    CASE d.type = "SWAR" -> d.width \div 2
      [] d.type = "SIMD" -> 8
      [] OTHER -> 1

DecodeStep(d, octets) ==
    CASE d.type = "BYTEWISE" -> decode_bytewise(d, octets[1])
      [] d.type = "LOOKUP" -> decode_lookup(d, octets[1])
      [] d.type = "SWAR" -> decode_swar_word(d, octets)
      [] OTHER -> decode_ssse3_word(d, octets)

IsDigit(c) == c \in Zero..57 \/ c \in 65..70 \/ c \in 97..102

\* What every encoder promises for a character.
NibbleOf(c) ==
    CASE c >= 97 -> c - 97 + 10
      [] c >= 65 /\ c < 97 -> c - 65 + 10
      [] OTHER -> c - Zero

lower_case_mask == 32

gt9_off == 97 - Zero - 10

(* ------------------------------ Bytewise -------------------------------- *)

EncodeCharacter(convert, c) ==
    IF convert = "BRANCH"
    THEN CASE c >= 97 -> (c - (97 - 10)) % 256
           [] c >= 65 /\ c < 97 -> (c - (65 - 10)) % 256
           [] OTHER -> (c - Zero) % 256
    ELSE LET mask == IF convert = "ARITH" THEN 64 - (c \div 64)
                     ELSE IF c > 57 THEN 255 ELSE 0
         IN  ((c | lower_case_mask) - Zero - (gt9_off & mask)) % 256

encode_bytewise(e, pair) ==
    LET hi == EncodeCharacter(e.convert, pair[1])
    IN  <<((hi * 16) % 256)
            | (IF Len(pair) = 1 THEN 15 ELSE EncodeCharacter(e.convert, pair[2]))>>

(* ------------------------------- Lookup --------------------------------- *)

\* Letters of both cases and digits have entries of their own modulo 32.
EncodeTable ==
    [c \in 0..31 |-> CASE c \in 1..6 -> c + 9
                       [] c \in 16..25 -> c - 16
                       [] OTHER -> 0]

encode_lookup(pair) ==
    <<16 * EncodeTable[pair[1] % 32]
        + (IF Len(pair) = 1 THEN 15 ELSE EncodeTable[pair[2] % 32])>>

(* -------------------------- SIMD in a register --------------------------- *)

encode_swar_word(e, characters) ==
    LET word == movbe(e.order, characters)
        m == AndWord(ShiftRight(word, 6), bcast(e.width, 1))
        mask == Subtract(bcast(e.width, 64), m)
        lower == OrWord(word, bcast(e.width, lower_case_mask))
        x == Subtract(Subtract(lower, bcast(e.width, Zero)),
                      AndWord(bcast(e.width, gt9_off), mask))
        y == OrWord(x, ShiftRight(x, 4))
    IN  IF e.gather = "LOOP"
        THEN Word(e.width \div 2, LAMBDA i : y[2 * i])
        ELSE LET z == Extract(x)
             IN  Image(e.order, IF e.order = "little" THEN Reverse(z) ELSE z)

(* ---------------------------- Vector registers --------------------------- *)

\* The three ways to find what has to be subtracted from each character.
ConvertCharacters(e, x) ==
    LET lower == OrWord(x, bcast(16, lower_case_mask))
    IN  CASE e.convert = "DIRECT" ->
                LET mask == Greater(x, bcast(16, 57))
                IN  SubtractOctets(SubtractOctets(lower, bcast(16, Zero)),
                                   AndWord(bcast(16, gt9_off), mask))
          [] e.convert = "SHIFT_SHUFFLE" ->
                LET choice == AndWord(ShiftPairs(x, 5), bcast(16, 3))
                    offsets == <<128, Zero, 65 - 10, 97 - 10>> \o bcast(12, 128)
                IN  SubtractOctets(x, Shuffle(offsets, choice))
          [] OTHER ->
                LET choice == SubtractSaturated(lower, bcast(16, 97 - 1))
                    offsets == <<Zero>> \o bcast(6, 97 - 10) \o bcast(9, 128)
                IN  SubtractOctets(lower, Shuffle(offsets, choice))

\* One nibble of every octet, two of them in an octet of the output.
PackNibbles(e, x) ==
    CASE e.gather = "PEXT" /\ e.bmi2 ->
            Word(8, LAMBDA i : Low(x[2 * i - 1]) + 16 * Low(x[2 * i]))
      [] e.gather = "SHIFT_AND" ->
            SubSeq(Shuffle(OrWord(x, ShiftPairs(x, 4)), EvenOctets), 1, 8)
      [] OTHER ->
            LET sums == Word(16, LAMBDA i :
                            IF i % 2 = 1
                            THEN (x[i] + 16 * x[i + 1]) % 256
                            ELSE (x[i - 1] + 16 * x[i]) \div 256)
            IN  SubSeq(Shuffle(sums, EvenOctets), 1, 8)

encode_ssse3_word(e, characters) ==
    PackNibbles(e, ConvertCharacters(e, Shuffle(characters, SwapPairs)))

(* -------------------------------- encode -------------------------------- *)

\* The characters of one step of the loop of the encoder, and what the step
\* writes; the rest that is shorter goes through the table.
WordCharacters(e) ==
    CASE e.type = "SWAR" -> 8
      [] e.type = "SIMD" -> 16
      [] OTHER -> 2

EncodeStep(e, characters) ==
    CASE e.type = "BYTEWISE" -> encode_bytewise(e, characters)
      [] e.type = "LOOKUP" -> encode_lookup(characters)
      [] e.type = "SWAR" -> encode_swar_word(e, characters)
      [] OTHER -> encode_ssse3_word(e, characters)

IsPrintable(c) == c \in 32..126

Special(style) ==
    CASE style = "XML" -> {38, 60, 62}                       \* & < >
      [] style = "C" -> {92}                                 \* \
      [] OTHER -> {}

Is_Normal(style, c) ==
    style # "Raw" /\ IsPrintable(c) /\ c \notin Special(style)

Is_Not_Normal(style, c) ==
    style = "Raw" \/ ~IsPrintable(c) \/ c \in Special(style)

Prefix(style) ==
    CASE style = "XML" -> <<38, 35, 120>>                    \* &#x
      [] style = "C" -> <<92, 120>>                          \* \x
      [] OTHER -> << >>

Suffix(style) == IF style = "XML" THEN <<59>> ELSE << >>     \* ;

QuotedSize(style) == Len(Prefix(style)) + 2 + Len(Suffix(style))

Escape(style, octet) ==
    Prefix(style)
        \o decode_bytewise([convert |-> "DIRECT", A |-> 97], octet)
        \o Suffix(style)

decoded_size(style, octets) ==
    IF style = "Raw" THEN 2 * Len(octets)
    ELSE Len(octets)
             + (QuotedSize(style) - 1)
                   * Cardinality({i \in DOMAIN octets :
                                      Is_Not_Normal(style, octets[i])})

\* Where the run of normal octets that begins at i ends.
NormalEnd(style, octets, i) ==
    CHOOSE j \in i..Len(octets) + 1 :
        /\ \A k \in i..j - 1 : Is_Normal(style, octets[k])
        /\ j <= Len(octets) => ~Is_Normal(style, octets[j])

(* ---------------------------- Quoted octets ------------------------------ *)

StartsAt(text, i, prefix) ==
    /\ i + Len(prefix) - 1 <= Len(text)
    /\ SubSeq(text, i, i + Len(prefix) - 1) = prefix

\* The first position from i on where the prefix stands, or the end.
Search(text, i, prefix) ==
    LET found == {j \in i..Len(text) : StartsAt(text, j, prefix)}
    IN  IF found = {} THEN Len(text) + 1
                      ELSE CHOOSE j \in found : \A k \in found : j <= k

\* A prefix whose last character is not where it has to be is passed over in
\* a document, but ends the search when there is no room behind it.
Next_Quoted(style, text, i) ==
    CASE style = "Raw" -> i
      [] style = "C" ->
            LET j == Search(text, i, Prefix("C"))
            IN  IF j + 3 > Len(text) THEN Len(text) + 1 ELSE j
      [] OTHER ->
            LET quoted == {j \in i..Len(text) - 5 :
                               /\ StartsAt(text, j, Prefix("XML"))
                               /\ text[j + 5] = 59}
            IN  IF quoted = {} THEN Len(text) + 1
                               ELSE CHOOSE j \in quoted : \A k \in quoted : j <= k

Is_Quoted(style, text, i) ==
    CASE style = "XML" ->
            /\ i + 5 <= Len(text)
            /\ StartsAt(text, i, Prefix("XML"))
            /\ text[i + 5] = 59
      [] style = "C" -> i + 2 <= Len(text) /\ text[i] = 92
      [] OTHER -> i + 1 <= Len(text)

\* Two characters behind the prefix; the last of them may lie behind the end.
Un_Escape(style, text, i) ==
    LET digits == i + Len(Prefix(style))
    IN  encode_lookup(SubSeq(text \o <<0>>, digits, digits + 1))

\* The quoted octets the search finds from i on.
QuotedCount(style, text) ==
    LET count[i \in 1..Len(text) + QuotedSize(style)] ==
            IF i > Len(text) THEN 0
            ELSE LET j == Next_Quoted(style, text, i)
                 IN  IF j > Len(text) THEN 0
                     ELSE 1 + count[j + QuotedSize(style)]
    IN  count[1]

encoded_size(style, text) ==
    IF style = "Raw" THEN Len(text) \div 2
    ELSE Len(text) - (QuotedSize(style) - 1) * QuotedCount(style, text)
=============================================================================
