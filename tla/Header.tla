------------------------------- MODULE Header -------------------------------
(***************************************************************************)
(* struct Unit of xfsx/xfsx.{hh,cc} octet by octet: how the tag and the    *)
(* length of a TLV are laid out (init_tag, init_length, init_l_size,       *)
(* init_indefinite), written and loaded again.                             *)
(*                                                                         *)
(* tag and length are the octets of a uint32_t and a uint64_t, klasse and  *)
(* shape the numbers of their enumerations.                                *)
(***************************************************************************)
EXTENDS IntegerCodec

Size == [width |-> 8, signed |-> FALSE]

NewUnit ==
    [klasse |-> 0, shape |-> 0, is_long_tag |-> FALSE, is_indefinite |-> FALSE,
     is_long_definite |-> FALSE, t_size |-> 1, tl_size |-> 2,
     tag |-> bcast(4, 0), length |-> bcast(8, 0)]

is_eoc(u) ==
    u.klasse = 0 /\ u.shape = 0 /\ u.t_size = 1 /\ u.tl_size = 2
        /\ IsZero(u.tag) /\ IsZero(u.length)

init_tag(u, tag) ==
    LET long == ~IsZero(SubSeq(tag, 1, 3)) \/ tag[4] > 30
    IN  [u EXCEPT !.tag = tag, !.is_long_tag = long,
                  !.t_size = IF long THEN 1 + minimally_encoded_tag_length(tag)
                                     ELSE 1]

init_indefinite(u) ==
    [u EXCEPT !.is_indefinite = TRUE, !.is_long_definite = FALSE,
              !.length = bcast(8, 0), !.tl_size = u.t_size + 1]

init_length(u, length) ==
    LET long == ~IsZero(SubSeq(length, 1, 7)) \/ length[8] > 127
    IN  [u EXCEPT !.length = length, !.is_indefinite = FALSE,
                  !.is_long_definite = long,
                  !.tl_size = u.t_size + 1
                      + (IF long THEN minimally_encoded_length(Size, length)
                                 ELSE 0)]

\* underflow_error when the length needs more octets
TooSmall(u, size) == minimally_encoded_length(Size, u.length) > size

init_l_size(u, size) ==
    [u EXCEPT !.tl_size = u.t_size + 1 + size, !.is_long_definite = TRUE,
              !.is_indefinite = FALSE]

init_constructed_from(u, tag) ==
    init_indefinite(init_tag([u EXCEPT !.shape = 32], tag))

(* ---------------------------- Write and load ----------------------------- *)

\* The seven bits of a tag that end k bits before its last one.
Septet(tag, k) ==
    LET bits == bcast(7, 0) \o Bits(tag)
        last == Len(bits) - k
    IN  FoldLeft(LAMBDA n, bit : 2 * n + bit, 0, SubSeq(bits, last - 6, last))

TagOctets(u) ==
    IF u.is_long_tag
    THEN LET n == u.t_size - 1
         IN  <<u.klasse + u.shape + 31>>
                 \o [i \in 1..n |-> Septet(u.tag, 7 * (n - i))
                                        + (IF i = n THEN 0 ELSE 128)]
    ELSE <<(u.klasse + u.shape) | u.tag[4]>>

LengthOctets(u) ==
    LET l == u.tl_size - u.t_size - 1
    IN  CASE u.is_indefinite -> <<128>>
          [] ~u.is_indefinite /\ u.is_long_definite ->
                <<128 + l>> \o SubSeq(u.length, 9 - l, 8)
          [] OTHER -> <<u.length[8] % 128>>

write(u) == TagOctets(u) \o LengthOctets(u)

\* The octets of a long tag go up to the first one without the highest bit.
LongTagEnd(octets) ==
    LET ends == {i \in 2..Len(octets) : octets[i] < 128}
    IN  IF ends = {} THEN Len(octets)
                     ELSE CHOOSE i \in ends : \A j \in ends : i <= j

\* What the octets of a tag shift into its 32 bits.
TagValue(octets) ==
    LET bits == bcast(32, 0) \o
            FlattenSeq([i \in DOMAIN octets |->
                            [b \in 1..7 |-> (octets[i] \div 2 ^ (7 - b)) % 2]])
        word == SubSeq(bits, Len(bits) - 31, Len(bits))
    IN  [i \in 1..4 |-> FoldLeft(LAMBDA n, bit : 2 * n + bit, 0,
                                 SubSeq(word, 8 * i - 7, 8 * i))]

LoadTag(octets) ==
    LET u == [NewUnit EXCEPT !.klasse = (octets[1] \div 64) * 64,
                             !.shape = ((octets[1] \div 32) % 2) * 32]
        n == LongTagEnd(octets)
    IN  CASE octets[1] % 32 # 31 ->
                [u EXCEPT !.tag = bcast(3, 0) \o <<octets[1] % 32>>]
          [] octets[n] >= 128 -> Failed                     \* truncated long tag
          [] n > 6 \/ (n = 6 /\ octets[2] % 128 >= 16) -> Failed  \* tag overflow
          [] OTHER ->
                [u EXCEPT !.is_long_tag = TRUE, !.t_size = n,
                          !.tag = TagValue(SubSeq(octets, 2, n))]

LoadLength(u, octets) ==
    LET first == octets[1]
        n == first % 128
    IN  CASE first = 128 ->
                [u EXCEPT !.is_indefinite = TRUE, !.tl_size = u.t_size + 1]
          [] first < 128 ->
                [u EXCEPT !.length = bcast(7, 0) \o <<first>>,
                          !.tl_size = u.t_size + 1]
          [] n > 8 \/ Len(octets) - 1 < n -> Failed
          [] OTHER ->
                [u EXCEPT !.is_long_definite = TRUE, !.tl_size = u.t_size + 1 + n,
                          !.length = bcast(8 - n, 0) \o SubSeq(octets, 2, n + 1)]

\* A header is at least two octets long.
load(octets) ==
    IF Len(octets) < 2 THEN Failed
    ELSE LET u == LoadTag(octets)
         IN  IF u = Failed \/ Len(octets) = u.t_size
             THEN Failed
             ELSE LoadLength(u, SubSeq(octets, u.t_size + 1, Len(octets)))
=============================================================================
