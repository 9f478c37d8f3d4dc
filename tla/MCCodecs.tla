------------------------------ MODULE MCCodecs ------------------------------
(***************************************************************************)
(* The jobs of the codecs for TLC.                                         *)
(*                                                                         *)
(* Decimals: inputs that are longer than two words of every variant and    *)
(* end everywhere in a word, with every octet and every digit in every     *)
(* lane.  Integers and headers: the values around every power of two that  *)
(* changes the number of octets.  Texts: everything that is made of a few  *)
(* fragments, among them incomplete quotations.  Searches: every pair of   *)
(* ranges on a few positions.  Documents: headers with the versions of two *)
(* definitions, of one, of none, behind the end of the header, or with     *)
(* texts that are no versions, complete and cut off, and directories in    *)
(* which a file is missing or twice.                                       *)
(***************************************************************************)
EXTENDS Codecs

\* The n-th text of octets: the octets differ in every lane.
Text(n, length) == [i \in 1..length |-> (n + 59 * i) % 256]

Octets == {Text(13 * n, n % 19) : n \in 0..150}

Digits == [k \in 0..21 |-> IF k < 10 THEN 48 + k
                           ELSE IF k < 16 THEN 55 + k ELSE 81 + k]

Characters ==
  {[i \in 1..n % 35 |-> Digits[(n + 5 * i) % 22]] : n \in 0..104}

Codec == [type |-> "LOOKUP", scatter |-> "LOOP", convert |-> "DIRECT",
          gather |-> "LOOP", A |-> 97, width |-> 8, order |-> "little",
          bmi2 |-> TRUE]

Letters == {65, 97}

Orders == {"little", "big"}

Decoders ==
  {[Codec EXCEPT !.type = "BYTEWISE", !.convert = c, !.A = a] :
      c \in {"BRANCH", "ARITH", "DIRECT"}, a \in Letters}
  \cup {[Codec EXCEPT !.convert = c, !.A = a, !.order = o] :
      c \in {"DIRECT", "SMALL"}, a \in Letters, o \in Orders}
  \cup {[Codec EXCEPT !.type = "SWAR", !.scatter = s, !.gather = g, !.A = a,
                      !.order = o] :
      s \in {"LOOP", "PDEP"}, g \in {"SHIFT", "MEMCPY"}, a \in Letters,
      o \in Orders}
  \cup {[Codec EXCEPT !.type = "SWAR", !.gather = "MEMCPY", !.A = a,
                      !.width = 4, !.order = o] : a \in Letters, o \in Orders}
  \cup {[Codec EXCEPT !.type = "SIMD", !.scatter = s, !.convert = c, !.A = a] :
      s \in {"LOOP", "PDEP"}, c \in {"DIRECT", "ARITH"}, a \in Letters}

Encoders ==
  {[Codec EXCEPT !.type = "BYTEWISE", !.convert = c] :
      c \in {"BRANCH", "ARITH", "DIRECT"}}
  \cup {Codec}
  \cup {[Codec EXCEPT !.type = "SWAR", !.gather = g, !.order = o] :
      g \in {"LOOP", "PEXT"}, o \in Orders}
  \cup {[Codec EXCEPT !.type = "SIMD", !.convert = c, !.gather = g] :
      c \in {"DIRECT", "SHIFT_SHUFFLE", "SATURATE_SHUFFLE"},
      g \in {"LOOP", "SHIFT_AND", "PEXT"}}

MCDecimalJobs ==
  {[kind |-> "bcd decode", codec |-> d, in |-> t] : d \in Decoders, t \in Octets}
  \cup {[kind |-> "bcd encode", codec |-> e, in |-> t] :
            e \in Encoders, t \in Characters}

\* Leading zeros or ones and an octet at every boundary
Values(width) ==
  {[i \in 1..width |-> IF i < k THEN fill ELSE IF i = k THEN o ELSE rest] :
      k \in 1..width, fill \in {0, 255}, rest \in {0, 255},
      o \in {0, 1, 15, 16, 30, 31, 32, 63, 64, 127, 128, 129, 254, 255}}

MCNumberJobs ==
  UNION {{[kind |-> "integer", type |-> t, in |-> v] : v \in Values(t.width)} :
            t \in Types}
  \cup {[kind |-> "boolean", truth |-> b] : b \in BOOLEAN}
  \cup {[kind |-> "digits", number |-> n] :
            n \in UNION {{10 ^ k - 1, 10 ^ k, 2 ^ k, 2 ^ k - 1} : k \in 0..9}
                  \cup {2 ^ k : k \in 10..30} \cup {2147483647}}

MCHeaderJobs ==
  {[kind |-> "header", klasse |-> k, shape |-> s, tag |-> t, in |-> l] :
      k \in {64, 192}, s \in {0, 32},
      t \in {<<0, 0, 0, 1>>, <<0, 0, 0, 30>>, <<0, 0, 0, 31>>, <<0, 0, 0, 127>>,
             <<0, 0, 0, 128>>, <<0, 0, 63, 255>>, <<0, 0, 64, 0>>,
             <<0, 31, 255, 255>>, <<0, 32, 0, 0>>, <<15, 255, 255, 255>>,
             <<16, 0, 0, 0>>, <<255, 255, 255, 255>>},
      l \in {Append(bcast(7, 0), o) : o \in {0, 127, 128, 255}}
            \cup {bcast(6, 0) \o <<1, 0>>, <<0, 0, 0, 0, 1, 0, 0, 0>>,
                  bcast(8, 255)}}

Fragments == {<<38>>, <<38, 35, 120>>, <<38, 35, 120, 52>>, <<59>>, <<97>>,
              <<38, 35, 120, 52, 49, 59>>, <<92, 120, 52, 49>>}

Styles == {"XML", "C", "Raw"}

MCTextJobs ==
  {[kind |-> "octets", style |-> s, in |-> t] :
      s \in Styles, t \in SeqOf({10, 38, 35, 59, 92, 120, 126, 127, 255}, 3)}
  \cup {[kind |-> "text", style |-> "XML", in |-> FlattenSeq(f)] :
      f \in SeqOf(Fragments, 4)}

Parts == {[kind |-> "star", tag |-> 0], [kind |-> "number", tag |-> 12],
          [kind |-> "name", tag |-> 7], [kind |-> "unknown", tag |-> 0],
          [kind |-> "empty", tag |-> 0]}

RangeParts ==
  {[left |-> l, dots |-> FALSE, right |-> 0] : l \in 0..5}
  \cup {[left |-> l, dots |-> TRUE, right |-> r] : l \in 0..5, r \in 0..5}

Predicates ==
  SeqOf({p \in RangeParts : p.left < 4 /\ p.right \in {0, 1, 3}}, 2)
  \cup {<<p, q, r>> : p \in {x \in RangeParts : ~x.dots},
                      q \in {x \in RangeParts : x.dots /\ x.left = 2},
                      r \in {x \in RangeParts : x.left = 4}}

\* A slash in front makes a path absolute, and alone it has no parts.
Absolute == {p \in SeqOf(Parts, 3) : Len(p) = 1 => p[1].kind # "empty"}

Relative == {p \in Absolute : p # << >> => p[1].kind # "empty"}

MCSearchJobs ==
  {[kind |-> "search", grammar |-> g,
    in |-> [absolute |-> TRUE, parts |-> p, brackets |-> FALSE,
            predicate |-> << >>]] :
      g \in BOOLEAN, p \in Absolute}
  \cup {[kind |-> "search", grammar |-> g,
         in |-> [absolute |-> FALSE, parts |-> p, brackets |-> b,
                 predicate |-> << >>]] :
      g \in BOOLEAN, b \in BOOLEAN, p \in Relative}
  \cup {[kind |-> "search", grammar |-> g,
         in |-> [absolute |-> TRUE, parts |-> p, brackets |-> TRUE,
                 predicate |-> r]] :
      g \in BOOLEAN, p \in {q \in Absolute : Len(q) < 2}, r \in Predicates}

Tag(k, n, t) == [kind |-> k, name |-> n, text |-> t]

Leaf(name, text) ==
  IF text = << >> THEN <<Tag("start end", name, << >>)>>
  ELSE <<Tag("start", name, << >>), Tag("end", name, text)>>

\* TAP has Major and Minor in its control information, the other format
\* Major and Release.
Versions ==
  {<<"Major", <<"3">>>>, <<"Major", <<"v">>>>, <<"Minor", <<"1", "0">>>>,
   <<"Minor", <<"/">>>>, <<"Release", <<"2">>>>, <<"Major", << >>>>}

Endings ==
  {<<Tag("end", "Info", << >>), Tag("end", "Batch", << >>)>>,
   <<Tag("end", "Info", << >>), Tag("start", "Other", << >>)>>,
   <<Tag("cut", "Info", << >>)>>, <<Tag("parse error", "Info", << >>)>>,
   [i \in 1..3 |-> Tag("end", "Info", << >>)],
   [i \in 1..4 |-> Tag("end", "Info", << >>)]}

Header(versions, declared, ending) ==
  (IF declared THEN <<Tag("declaration", "xml", << >>)>> ELSE << >>)
  \o <<Tag("start", "Batch", << >>), Tag("start", "Info", << >>)>>
  \o FlattenSeq([i \in DOMAIN versions |-> Leaf(versions[i][1], versions[i][2])])
  \o ending

Variable(name, element) == [name |-> name, path |-> <<"Batch", "Info", element>>]

Tap ==
  [name |-> "TAP", initial |-> << <<"tap">> >>,
   variables |-> <<Variable("{major}", "Major"), Variable("{minor}", "Minor")>>,
   resulting |-> [asn |-> << <<"tap_", "{major}", "_", "{minor}">> >>,
                  constraints |-> << <<"codes">>, <<"of_", "{minor}">> >>]]

Nrt ==
  [name |-> "NRT", initial |-> << <<"tap">>, <<"nrt">> >>,
   variables |-> <<Variable("{major}", "Major"), Variable("{minor}", "Release")>>,
   resulting |-> [asn |-> << <<"nrt_", "{minor}">>, <<"tap_", "{major}", "_1">> >>]]

Shared ==
  {<<"detector.json">>, <<"tap">>, <<"nrt">>, <<"codes">>, <<"of_", "1", "0">>,
   <<"tap_", "3", "_", "1", "0">>, <<"tap_", "3", "_1">>, <<"nrt_", "2">>}

Directories == {"/asn", "/xdg", "/home", "/etc", "/share"}

\* Everything is shared; the file is also, or only, in the directory.
With(name, directory, moved) ==
  [d \in Directories |->
     IF d = "/share" THEN (IF moved THEN Shared \ {name} ELSE Shared)
     ELSE IF d = directory THEN {name} ELSE {}]

Disks ==
  {With(n, d, m) : n \in {<<"nrt">>, <<"tap_", "3", "_", "1", "0">>,
                          <<"nrt_", "2">>, <<"detector.json">>},
                   d \in {"/asn", "/home"}, m \in BOOLEAN}

Searched == {[path |-> << >>, xdg |-> << >>], [path |-> << >>, xdg |-> <<"/xdg">>],
             [path |-> <<"/share", "/asn">>, xdg |-> << >>]}

Detect(tags, disk, searched, definitions, configured) ==
  [kind |-> "detect", in |-> tags, disk |-> disk, path |-> searched.path,
   env |-> [ASN1_PATH |-> <<"/asn">>, XDG_CONFIG_HOME |-> searched.xdg,
            HOME |-> <<"/home">>],
   definitions |-> definitions, configured |-> configured]

Everywhere == With(<<"codes">>, "/asn", FALSE)

MCDetectJobs ==
  {Detect(Header(v, d, e), Everywhere, [path |-> << >>, xdg |-> << >>], f, TRUE) :
      v \in SeqOf(Versions, 3), d \in BOOLEAN, e \in Endings,
      f \in {<<Tap, Nrt>>, <<Nrt, Tap>>}}
  \cup {Detect(Header(v, FALSE, <<Tag("end", "Info", << >>)>>), k, s, f, c) :
      v \in {<< <<"Major", <<"3">> >>, m>> :
                m \in {<<"Minor", <<"1", "0">> >>, <<"Release", <<"2">> >>}},
      k \in Disks, s \in Searched,
      f \in {<<Tap, Nrt>>, <<Nrt, Tap>>}, c \in BOOLEAN}
=============================================================================
