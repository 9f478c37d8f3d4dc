-------------------------- MODULE Xml2BerProofs ----------------------------
(***************************************************************************)
(* xml::Reader and Xml2Ber, which is driven by it, for every document,     *)
(* every place where it may be cut off, and every window that next() and   *)
(* forget() of a Simple_Reader leave: no tag and no text is lost, however  *)
(* often the window goes on, and each open element has its writer, whose   *)
(* position is what was written to it.  A document is refused if and only  *)
(* if it is not balanced, or ends within a tag.                            *)
(***************************************************************************)
EXTENDS Xml2Ber, LevelsProofs

(***************************************************************************)
(* Windows                                                                 *)
(***************************************************************************)
WindowType ==
  [backend : Backends, at : Nat, avail : Nat, size : Nat, eof : BOOLEAN]

IsWindow(q) == q \in WindowType /\ q.at + q.avail <= q.size

(* q at another place, or with another number of bytes *)
IsAt(p, q, at, avail) ==
  /\ p \in WindowType
  /\ p.at = at /\ p.avail = avail /\ p.size = q.size

(* set_eof() and nothing else changes. *)
LEMMA EofChanges ==
  ASSUME NEW q \in WindowType
  PROVE  \A e \in BOOLEAN : IsAt([q EXCEPT !.eof = e], q, q.at, q.avail)
<1> SUFFICES ASSUME NEW e \in BOOLEAN
             PROVE  IsAt([q EXCEPT !.eof = e], q, q.at, q.avail)
  OBVIOUS
<1> QED
  BY DEF IsAt, WindowType

(* next() and nothing else: there are more bytes at the same place. *)
LEMMA AvailChanges ==
  ASSUME NEW q \in WindowType, NEW n \in Nat
  PROVE  IsAt([q EXCEPT !.avail = n], q, q.at, n)
BY DEF IsAt, WindowType

(* forget(): the window begins further on. *)
LEMMA AtChanges ==
  ASSUME NEW q \in WindowType, NEW n \in Nat
  PROVE  IsAt([q EXCEPT !.at = n], q, n, q.avail)
BY DEF IsAt, WindowType

(* next() keeps what is in the window. *)
LEMMA MoreKeeps ==
  ASSUME NEW q, IsWindow(q), NEW want \in Nat
  PROVE  /\ IsWindow(More(q, want))
         /\ More(q, want).at = q.at /\ More(q, want).size = q.size
         /\ More(q, want).avail >= q.avail
<1> DEFINE room == (((want - q.avail + Inc - 1) % Word) \div Inc) * Inc
           p    == More(q, want)
<1>1. /\ q \in WindowType /\ q.at \in Nat /\ q.avail \in Nat /\ q.size \in Nat
      /\ q.at + q.avail <= q.size
  BY DEF IsWindow, WindowType
<1>2. q.size - q.at \in Nat /\ q.size - q.at >= q.avail
  BY <1>1
<1>3. \E n \in Nat : n >= q.avail /\ q.at + n <= q.size /\ IsAt(p, q, q.at, n)
  <2>1. CASE q.backend = "none"
    <3>1. IsAt(p, q, q.at, q.avail)
      BY <2>1, <1>1, EofChanges, Zenon DEF More
    <3> QED
      BY <3>1, <1>1
  <2>2. CASE q.backend # "none" /\ ~(q.avail < want /\ ~q.eof)
    <3>1. p = q
      BY <2>2 DEF More
    <3> QED
      BY <3>1, <1>1 DEF IsAt
  <2>3. CASE q.backend # "none" /\ q.avail < want /\ ~q.eof
    <3>1. p = Extend(q, want)
      BY <2>3 DEF More
    <3>2. room \in Nat
      <4> DEFINE m == (want - q.avail + Inc - 1) % Word
                 d == m \div Inc
      <4>1. Inc \in Nat /\ Inc > 0 /\ Word \in Nat /\ Word > 0
        BY XmlReaderAssumption
      <4>2. m \in Nat
        BY <1>1, <2>3, <4>1
      <4> HIDE DEF m
      <4>3. d \in Nat
        BY <4>1, <4>2
      <4> HIDE DEF d
      <4>4. d * Inc \in Nat
        BY <4>1, <4>3
      <4> QED
        BY <4>4 DEF d, m
    <3>3. CASE q.backend # "file" \/ ~(room <= Rest(q))
      <4> DEFINE n == q.size - q.at
                 o == [q EXCEPT !.avail = n]
      <4>1. Extend(q, want) = [o EXCEPT !.eof = TRUE]
        BY <3>3, <1>1 DEF Extend, WindowType
      <4> HIDE DEF n
      <4>2. IsAt(o, q, q.at, n)
        BY <1>1, <1>2, AvailChanges DEF n
      <4> HIDE DEF o
      <4>3. IsAt([o EXCEPT !.eof = TRUE], o, o.at, o.avail)
        BY <4>2, EofChanges, Zenon DEF IsAt
      <4>4. IsAt(p, q, q.at, n)
        BY <3>1, <4>1, <4>2, <4>3, Zenon DEF IsAt
      <4> QED
        BY <4>4, <1>1, <1>2 DEF n
    <3>4. CASE q.backend = "file" /\ room <= Rest(q)
      <4>1. Extend(q, want) = [q EXCEPT !.avail = q.avail + room]
        BY <3>4 DEF Extend
      <4> HIDE DEF room
      <4> DEFINE n == q.avail + room
      <4>2. n \in Nat /\ q.at + n <= q.size /\ n >= q.avail
        BY <1>1, <3>2, <3>4 DEF Rest
      <4> HIDE DEF n
      <4>3. IsAt(p, q, q.at, n)
        BY <1>1, <3>1, <4>1, <4>2, AvailChanges DEF n
      <4> QED
        BY <4>2, <4>3
    <3> QED
      BY <3>3, <3>4
  <2> QED
    BY <2>1, <2>2, <2>3
<1> HIDE DEF p
<1>4. PICK n \in Nat : n >= q.avail /\ q.at + n <= q.size /\ IsAt(p, q, q.at, n)
  BY <1>3
<1>5. p \in WindowType /\ p.at = q.at /\ p.avail = n /\ p.size = q.size
  BY <1>4 DEF IsAt
<1>6. IsWindow(p)
  BY <1>4, <1>5 DEF IsWindow
<1> QED
  BY <1>4, <1>5, <1>6 DEF p

(* forget() moves the client over a part of the window. *)
LEMMA DropMoves ==
  ASSUME NEW q, IsWindow(q), NEW n \in Nat, n <= q.avail
  PROVE  /\ IsWindow(Drop(q, n))
         /\ Drop(q, n).at = q.at + n /\ Drop(q, n).size = q.size
         /\ Drop(q, n).avail = q.avail - n
<1> DEFINE at   == q.at + n
           rest == q.avail - n
           o    == [q EXCEPT !.at = at]
           p    == [o EXCEPT !.avail = rest]
<1>1. /\ q \in WindowType /\ q.at \in Nat /\ q.avail \in Nat /\ q.size \in Nat
      /\ q.at + q.avail <= q.size
  BY DEF IsWindow, WindowType
<1>2. Drop(q, n) = p
  BY <1>1 DEF Drop, WindowType
<1>3. at \in Nat /\ rest \in Nat /\ at + rest <= q.size
  BY <1>1
<1> HIDE DEF at, rest
<1>4. IsAt(o, q, at, q.avail)
  BY <1>1, <1>3, AtChanges
<1> HIDE DEF o
<1>5. IsAt(p, o, o.at, rest)
  BY <1>3, <1>4, AvailChanges DEF IsAt
<1> HIDE DEF p
<1>6. IsAt(p, q, at, rest)
  BY <1>4, <1>5 DEF IsAt
<1> QED
  BY <1>2, <1>3, <1>6 DEF IsAt, IsWindow, at, rest

(* A new window *)
LEMMA NewIsWindow ==
  ASSUME NEW b \in Backends, NEW n \in Nat
  PROVE  IsWindow(New(b, n)) /\ New(b, n).at = 0 /\ New(b, n).size = n
BY DEF New, IsWindow, WindowType

(***************************************************************************)
(* Tags in a file                                                          *)
(***************************************************************************)
TagPlace == [open : Nat, close : Nat]

(* A tag begins behind the one before it, and is not empty. *)
InOrder ==
  /\ tags \in Seq(TagPlace)
  /\ \A n \in 1 .. Len(tags) :
       tags[n].open + 2 <= tags[n].close /\ TextFrom(n - 1) <= tags[n].open

(* The least element of a set *)
LEMMA MinIs ==
  ASSUME NEW S \in SUBSET Int, NEW a \in S, \A b \in S : a <= b
  PROVE  Min(S) = a
<1> DEFINE P(n) == n \in S /\ \A b \in S : n <= b
<1>1. Min(S) = CHOOSE n : P(n)
  BY Zenon DEF Min
<1>2. P(a)
  OBVIOUS
<1>3. \A n : P(n) => n = a
  OBVIOUS
<1> HIDE DEF P
<1> QED
  BY <1>1, <1>2, <1>3

(* The tags are one behind the other, and so are the texts between them. *)
LEMMA TagsGrow ==
  ASSUME InOrder
  PROVE  /\ Len(tags) \in Nat
         /\ \A n \in 0 .. Len(tags) : TextFrom(n) \in Nat
         /\ \A n \in 1 .. Len(tags) :
              /\ tags[n].open \in Nat /\ tags[n].close \in Nat
              /\ tags[n].open + 2 <= tags[n].close
              /\ TextFrom(n) = tags[n].close + 1
              /\ TextFrom(n - 1) <= tags[n].open
         /\ \A m, n \in 0 .. Len(tags) : m <= n => TextFrom(m) <= TextFrom(n)
<1> DEFINE N == Len(tags)
<1>1. N \in Nat
  BY DEF InOrder
<1>2. \A n \in 1 .. N : /\ tags[n].open \in Nat /\ tags[n].close \in Nat
                       /\ TextFrom(n) = tags[n].close + 1
                       /\ tags[n].open + 2 <= tags[n].close
                       /\ TextFrom(n - 1) <= tags[n].open
  <2> SUFFICES ASSUME NEW n \in 1 .. N
               PROVE  /\ tags[n].open \in Nat /\ tags[n].close \in Nat
                      /\ TextFrom(n) = tags[n].close + 1
                      /\ tags[n].open + 2 <= tags[n].close
                      /\ TextFrom(n - 1) <= tags[n].open
    OBVIOUS
  <2>1. tags[n] \in TagPlace
    BY DEF InOrder
  <2>2. TextFrom(n) = tags[n].close + 1
    BY DEF TextFrom
  <2>3. tags[n].open \in Nat /\ tags[n].close \in Nat
    BY <2>1 DEF TagPlace
  <2>4. tags[n].open + 2 <= tags[n].close /\ TextFrom(n - 1) <= tags[n].open
    BY DEF InOrder
  <2> QED
    BY <2>2, <2>3, <2>4
<1>3. TextFrom(0) = 0
  BY DEF TextFrom
<1> HIDE DEF N
<1>4. \A n \in 0 .. N : TextFrom(n) \in Nat
  <2> SUFFICES ASSUME NEW n \in 0 .. N PROVE TextFrom(n) \in Nat
    OBVIOUS
  <2>1. n = 0 \/ n \in 1 .. N
    BY <1>1
  <2> QED
    BY <1>2, <1>3, <2>1
<1> DEFINE S == {d \in Nat : \A m \in 0 .. N :
                   m + d <= N => TextFrom(m) <= TextFrom(m + d)}
<1>5. 0 \in S
  BY <1>1, <1>4
<1>6. ASSUME NEW d \in Nat, d \in S PROVE d + 1 \in S
  <2> SUFFICES ASSUME NEW m \in 0 .. N, m + (d + 1) <= N
               PROVE  TextFrom(m) <= TextFrom(m + (d + 1))
    OBVIOUS
  <2> DEFINE n == m + (d + 1)
  <2>1. n \in 1 .. N /\ n - 1 \in 0 .. N /\ n - 1 = m + d /\ m + d <= N
    BY <1>1
  <2>2. TextFrom(m) <= TextFrom(m + d)
    BY <1>6, <2>1
  <2> HIDE DEF n
  <2>3. TextFrom(n - 1) <= TextFrom(n)
    BY <1>2, <1>4, <2>1
  <2>4. TextFrom(m) <= TextFrom(n)
    BY <1>4, <2>1, <2>2, <2>3
  <2> QED
    BY <2>4 DEF n
<1> HIDE DEF S
<1>7. \A d \in Nat : d \in S
  BY <1>5, <1>6, Induction
<1>8. \A m, n \in 0 .. N : m <= n => TextFrom(m) <= TextFrom(n)
  <2> SUFFICES ASSUME NEW m \in 0 .. N, NEW n \in 0 .. N, m <= n
               PROVE  TextFrom(m) <= TextFrom(n)
    OBVIOUS
  <2>1. n - m \in Nat /\ m + (n - m) = n /\ m + (n - m) <= N
    BY <1>1
  <2>2. n - m \in S
    BY <1>7, <2>1
  <2> QED
    BY <2>1, <2>2 DEF S
<1> QED
  BY <1>1, <1>2, <1>4, <1>8 DEF N

(* The places of '<' and '>' in a file of this size *)
LeftsOf == {t.open : t \in ToSet(tags)}

RightsOf(size) ==
  {t.close : t \in ToSet(tags)}
    \cup TextFrom(Len(tags)) .. size
    \cup UNION {TextFrom(n) .. (tags[n + 1].open - 1) : n \in 0 .. Len(tags) - 1}

Marked == marks = [lefts |-> LeftsOf, rights |-> RightsOf(w.size)]

(* The first '<' behind a tag and its text is that of the next tag. *)
LEMMA NextLeft ==
  ASSUME InOrder, marks.lefts = LeftsOf,
         NEW n \in 0 .. Len(tags), NEW a \in Nat, NEW b \in Int,
         a = TextFrom(n), marks.lefts \cap (a .. b) # {}
  PROVE  /\ n < Len(tags)
         /\ Min(marks.lefts \cap (a .. b)) = tags[n + 1].open
         /\ tags[n + 1].open >= a /\ tags[n + 1].open <= b
<1> DEFINE S == marks.lefts \cap (a .. b)
           N == Len(tags)
<1>1. N \in Nat
  BY DEF InOrder
<1>2. \A y \in S : y \in a .. b /\ \E m \in 1 .. N : y = tags[m].open
  BY DEF ToSet, InOrder, LeftsOf
<1>3. \A m \in 1 .. N : tags[m].open \in marks.lefts
  BY DEF ToSet, InOrder, LeftsOf
<1> HIDE DEF S, N
<1>4. ASSUME NEW m \in 1 .. N, tags[m].open >= a
      PROVE  /\ n < m /\ n + 1 \in 1 .. N /\ tags[n + 1].open >= a
             /\ tags[n + 1].open <= tags[m].open
  <2> DEFINE to    == tags[m].open
             next  == tags[n + 1].open
             close == tags[n + 1].close
             from  == TextFrom(m - 1)
  <2>1. /\ to \in Nat /\ TextFrom(m) \in Nat /\ TextFrom(m) > to
        /\ from <= to /\ from \in Nat
        /\ m \in 0 .. N /\ m - 1 \in 0 .. N
    <3>1. m \in 0 .. N /\ m - 1 \in 0 .. N
      BY <1>1
    <3> DEFINE end == tags[m].close
    <3>2. /\ to + 2 <= end /\ TextFrom(m) = end + 1
          /\ from <= to /\ to \in Nat /\ end \in Nat
      BY TagsGrow, Zenon DEF N
    <3>3. from \in Nat
      BY <3>1, TagsGrow DEF N
    <3> HIDE DEF to, end, from
    <3> QED
      BY <3>1, <3>2, <3>3
  <2>2. n < m
    <3>1. CASE m <= n
      <4>1. TextFrom(m) <= TextFrom(n)
        BY <3>1, <2>1, TagsGrow DEF N
      <4> QED
        BY <4>1, <2>1, <1>4
    <3> QED
      BY <3>1, <1>1 DEF N
  <2>3. n + 1 \in 1 .. N /\ n + 1 \in 0 .. N /\ (n + 1) - 1 = n
    BY <1>1, <2>2 DEF N
  <2>4. /\ next \in Nat /\ a <= next /\ next <= TextFrom(n + 1)
        /\ TextFrom(n + 1) \in Nat
    <3>1. /\ next \in Nat /\ close \in Nat /\ next + 2 <= close
          /\ TextFrom(n + 1) = close + 1 /\ TextFrom((n + 1) - 1) <= next
      BY <2>3, TagsGrow, Zenon DEF N
    <3> HIDE DEF next, close
    <3> QED
      BY <3>1, <2>3
  <2>5. CASE m = n + 1
    <3>1. to = next /\ to <= next
      BY <2>1, <2>5
    <3> QED
      BY <1>4, <2>2, <2>3, <3>1
  <2>6. CASE m # n + 1
    <3>1. n + 1 <= m - 1
      BY <2>2, <2>3, <2>6
    <3>2. TextFrom(n + 1) <= from
      BY <3>1, <2>1, <2>3, TagsGrow DEF N
    <3> HIDE DEF next, from, to
    <3>3. next >= a /\ next <= to
      BY <2>1, <2>4, <3>2
    <3> QED
      BY <2>2, <2>3, <3>3 DEF next, to
  <2> QED
    BY <2>5, <2>6
<1>5. PICK y \in S : TRUE
  BY DEF S
<1>6. PICK m \in 1 .. N : y = tags[m].open
  BY <1>2
<1>7. /\ n < m /\ n + 1 \in 1 .. N /\ tags[n + 1].open >= a
      /\ tags[n + 1].open <= y /\ y <= b
  BY <1>2, <1>4, <1>5, <1>6
<1>8. tags[n + 1].open \in Nat
  BY <1>7, TagsGrow DEF N
<1>9. tags[n + 1].open \in S
  BY <1>2, <1>3, <1>5, <1>7, <1>8 DEF S
<1>10. \A z \in S : tags[n + 1].open <= z
  BY <1>2, <1>4, SMTT(40)
<1>11. S \in SUBSET Int
  BY DEF S
<1>12. Min(S) = tags[n + 1].open
  BY <1>9, <1>10, <1>11, MinIs
<1>13. tags[n + 1].open <= b
  BY <1>2, <1>5, <1>7, <1>8
<1> QED
  BY <1>1, <1>7, <1>12, <1>13 DEF S, N

(* The first '>' behind the '<' of a tag is the end of that tag. *)
LEMMA NextRight ==
  ASSUME InOrder, NEW size \in Nat, marks.rights = RightsOf(size),
         NEW n \in 0 .. Len(tags), n < Len(tags), NEW a \in Nat, NEW b \in Int,
         a = tags[n + 1].open + 2, marks.rights \cap (a .. b) # {}
  PROVE  /\ Min(marks.rights \cap (a .. b)) = tags[n + 1].close
         /\ tags[n + 1].close <= b
<1> DEFINE S    == marks.rights \cap (a .. b)
           N    == Len(tags)
           from == tags[n + 1].open
           to   == tags[n + 1].close
<1>1. N \in Nat /\ n \in 0 .. N /\ n + 1 \in 1 .. N /\ n + 1 \in 0 .. N
      /\ (n + 1) - 1 = n
  BY TagsGrow
<1>2. \A y \in S : /\ y \in a .. b
                  /\ \/ \E m \in 1 .. N : y = tags[m].close
                     \/ \E m \in 0 .. N - 1 : y \in TextFrom(m) .. (tags[m + 1].open - 1)
                     \/ y \in TextFrom(N) .. size
  <2> SUFFICES ASSUME NEW y \in S
               PROVE  /\ y \in a .. b
                      /\ \/ \E m \in 1 .. N : y = tags[m].close
                         \/ \E m \in 0 .. N - 1 :
                              y \in TextFrom(m) .. (tags[m + 1].open - 1)
                         \/ y \in TextFrom(N) .. size
    BY Zenon
  <2> DEFINE text(m) == TextFrom(m) .. (tags[m + 1].open - 1)
             last    == TextFrom(N) .. size
             closes  == {t.close : t \in ToSet(tags)}
             texts   == UNION {text(m) : m \in 0 .. N - 1}
  <2>1. y \in a .. b /\ y \in RightsOf(size)
    BY Zenon
  <2> HIDE DEF text, last
  <2>2. RightsOf(size) = closes \cup last \cup texts
    BY Zenon DEF RightsOf, text, last
  <2> HIDE DEF closes, texts
  <2>3. CASE y \in closes
    <3>1. \E m \in 1 .. N : y = tags[m].close
      BY <2>3 DEF ToSet, InOrder, closes
    <3> QED
      BY <2>1, <3>1, Zenon
  <2>4. CASE y \in texts
    <3>1. \E m \in 0 .. N - 1 : y \in text(m)
      BY <2>4, Zenon DEF texts
    <3> QED
      BY <2>1, <3>1, Zenon DEF text
  <2>5. CASE y \in last
    BY <2>1, <2>5, Zenon DEF last
  <2> QED
    BY <2>1, <2>2, <2>3, <2>4, <2>5
<1>3. \A m \in 1 .. N : tags[m].close \in marks.rights
  BY SMTT(40) DEF ToSet, InOrder, RightsOf
<1>4. /\ from \in Nat /\ to \in Nat /\ from + 2 <= to
      /\ TextFrom(n + 1) = to + 1 /\ TextFrom((n + 1) - 1) <= from
  BY <1>1, TagsGrow, Zenon DEF N
<1>5. /\ TextFrom(n) \in Nat /\ TextFrom(n) <= from /\ a = from + 2
  BY <1>1, <1>4, TagsGrow
<1> HIDE DEF S, N, from, to
<1>6. ASSUME NEW m \in 0 .. N
      PROVE  /\ m <= n => TextFrom(m) <= from
             /\ m > n => TextFrom(m) > to
             /\ TextFrom(m) \in Nat
  <2>1. TextFrom(m) \in Nat
    BY TagsGrow DEF N
  <2>2. CASE m <= n
    <3>1. TextFrom(m) <= TextFrom(n)
      BY <1>1, <2>2, TagsGrow DEF N
    <3> DEFINE c == TextFrom(m)
               d == TextFrom(n)
    <3>2. c \in Nat /\ c <= d /\ d \in Nat /\ d <= from
      BY <2>1, <3>1, <1>5
    <3> HIDE DEF c, d
    <3>3. c <= from
      BY <3>2, <1>4
    <3> QED
      BY <2>1, <2>2, <3>3, <1>1 DEF c
  <2>3. CASE n + 1 <= m
    <3>1. TextFrom(n + 1) <= TextFrom(m)
      BY <1>1, <2>3, TagsGrow DEF N
    <3> QED
      BY <2>1, <2>3, <3>1, <1>1, <1>4
  <2> QED
    BY <1>1, <2>2, <2>3
<1>7. ASSUME NEW y \in S PROVE to <= y
  <2>1. y \in Nat /\ y >= from + 2
    BY <1>2, <1>5
  <2>2. CASE \E m \in 1 .. N : y = tags[m].close
    <3>1. PICK m \in 1 .. N : y = tags[m].close
      BY <2>2
    <3>2. TextFrom(m) = y + 1 /\ m \in 0 .. N
      BY <1>1, <3>1, TagsGrow DEF N
    <3> DEFINE c == TextFrom(m)
    <3>3. /\ m <= n => c <= from
          /\ m > n => c > to
      BY <1>6, <3>2
    <3>4. c = y + 1
      BY <3>2
    <3> HIDE DEF c
    <3> QED
      BY <1>1, <1>4, <2>1, <3>2, <3>3, <3>4
  <2>3. CASE \E m \in 0 .. N - 1 : y \in TextFrom(m) .. (tags[m + 1].open - 1)
    <3>1. PICK m \in 0 .. N - 1 : y \in TextFrom(m) .. (tags[m + 1].open - 1)
      BY <2>3
    <3> DEFINE next == tags[m + 1].open
               end  == tags[m + 1].close
    <3>2. m \in 0 .. N /\ m + 1 \in 0 .. N /\ m + 1 \in 1 .. N
      BY <1>1
    <3>3. next \in Nat /\ end \in Nat /\ next + 2 <= end /\ TextFrom(m + 1) = end + 1
      BY <3>2, TagsGrow, Zenon DEF N
    <3>4. y >= TextFrom(m) /\ y < next
      BY <1>6, <2>1, <3>1, <3>2, <3>3, SMTT(40)
    <3>5. CASE m = n
      <4>1. next = from
        BY <3>5 DEF from
      <4> HIDE DEF next
      <4> QED
        BY <4>1, <2>1, <3>4, <1>4
    <3>6. CASE m < n
      <4>1. TextFrom(m + 1) <= from
        BY <1>1, <1>6, <3>2, <3>6
      <4> HIDE DEF next, end
      <4> QED
        BY <4>1, <2>1, <3>3, <3>4, <1>4
    <3>7. CASE m > n
      <4>1. TextFrom(m) > to /\ TextFrom(m) \in Nat
        BY <1>6, <3>2, <3>7
      <4> QED
        BY <4>1, <2>1, <3>4, <1>4
    <3> QED
      BY <1>1, <3>5, <3>6, <3>7
  <2>4. CASE y \in TextFrom(N) .. size
    <3>1. N \in 0 .. N /\ N > n
      BY <1>1
    <3>2. TextFrom(N) > to /\ TextFrom(N) \in Nat
      BY <3>1, <1>6
    <3> QED
      BY <3>2, <2>1, <2>4, <1>4
  <2> QED
    BY <1>2, <2>2, <2>3, <2>4
<1>8. PICK y \in S : TRUE
  BY DEF S
<1>9. to <= y /\ y \in Int /\ y <= b
  BY <1>2, <1>7, <1>8
<1>10. to \in a .. b
  BY <1>4, <1>5, <1>9
<1>11. to \in marks.rights
  BY <1>1, <1>3 DEF to
<1>12. to \in S /\ S \in SUBSET Int
  BY <1>10, <1>11 DEF S
<1>13. Min(S) = to
  BY <1>7, <1>12, MinIs
<1> QED
  BY <1>10, <1>13 DEF S, to

(***************************************************************************)
(* next()                                                                  *)
(***************************************************************************)
Offsets == [first : Nat, second : Nat, low : Nat]

ReaderFacts ==
  /\ InOrder /\ Marked /\ IsWindow(w)
  /\ k \in Offsets /\ old \in Nat /\ nth \in 0 .. Len(tags)
  /\ Tracked

(* The parts of the window and of the offsets are numbers. *)
LEMMA ReaderParts ==
  ASSUME ReaderFacts
  PROVE  /\ w.at \in Nat /\ w.avail \in Nat /\ w.size \in Nat
         /\ w.at + w.avail <= w.size
         /\ k.first \in Nat /\ k.second \in Nat /\ k.low \in Nat
         /\ old \in Nat /\ nth \in 0 .. Len(tags) /\ Len(tags) \in Nat
         /\ TextFrom(nth) \in Nat
         /\ marks.lefts = LeftsOf /\ marks.rights = RightsOf(w.size)
<1>1. InOrder /\ nth \in 0 .. Len(tags)
  BY DEF ReaderFacts
<1>2. TextFrom(nth) \in Nat /\ Len(tags) \in Nat
  BY <1>1, TagsGrow
<1> QED
  BY <1>2 DEF ReaderFacts, IsWindow, WindowType, Offsets, Marked

(* The file stays the same. *)
LEMMA FileStays ==
  ASSUME ReaderFacts, UNCHANGED <<tags, marks>>, w'.size = w.size
  PROVE  InOrder' /\ Marked'
<1>1. \A n : TextFrom(n)' = TextFrom(n)
  BY DEF TextFrom
<1>2. LeftsOf' = LeftsOf /\ RightsOf(w.size)' = RightsOf(w.size)
  BY ZenonT(80) DEF LeftsOf, RightsOf, TextFrom
<1>3. InOrder'
  BY <1>1 DEF ReaderFacts, InOrder
<1>4. Marked'
  BY <1>2, Zenon DEF ReaderFacts, Marked, LeftsOf, RightsOf, TextFrom
<1> QED
  BY <1>3, <1>4

(* The window goes on to where low_ is. *)
LEMMA RefillTracks ==
  ASSUME ReaderFacts, NEW from \in Nat, Refill(from),
         \/ pc = "open" /\ from = k.low
         \/ pc = "close" /\ from = old
  PROVE  ReaderFacts'
<1> DEFINE low == k.low
           q   == Drop(w, low)
<1>1. /\ w.at \in Nat /\ w.avail \in Nat /\ low \in Nat
      /\ k.first \in Nat /\ k.second \in Nat
  BY ReaderParts
<1>2. /\ low <= w.avail /\ low <= k.first /\ low <= k.second /\ low <= from
  BY ReaderParts, SMTT(40) DEF ReaderFacts, Tracked
<1>3. IsWindow(w) /\ ReaderInc \in Nat
  BY XmlReaderAssumption DEF ReaderFacts
<1>4. /\ IsWindow(q) /\ q.at = w.at + low /\ q.size = w.size
      /\ q.avail = w.avail - low
  BY <1>1, <1>2, <1>3, DropMoves
<1>5. w' = More(q, ReaderInc)
  BY Zenon DEF Refill
<1> HIDE DEF q, low
<1>6. /\ IsWindow(w)' /\ w'.at = w.at + low /\ w'.size = w.size
      /\ w'.avail >= w.avail - low
  <2> DEFINE p == More(q, ReaderInc)
  <2>1. IsWindow(p) /\ p.at = q.at /\ p.size = q.size /\ p.avail >= q.avail
    BY <1>3, <1>4, MoreKeeps, Zenon
  <2> HIDE DEF p
  <2>2. w' = p
    BY <1>5 DEF p
  <2>3. IsWindow(w')
    BY <2>1, <2>2
  <2>4. IsWindow(w)'
    BY <2>3 DEF IsWindow
  <2> QED
    BY <1>4, <2>1, <2>2, <2>4
<1>7. /\ k' = [first |-> k.first - low, second |-> k.second - low, low |-> 0]
      /\ old' = from - low
      /\ UNCHANGED <<tags, marks, nth, pc>>
  BY DEF Refill, low
<1>8. InOrder' /\ Marked'
  BY <1>6, <1>7, FileStays
<1>9. /\ k' \in Offsets /\ k'.first = k.first - low
      /\ k'.second = k.second - low /\ k'.low = 0
  BY <1>1, <1>2, <1>7 DEF Offsets
<1>10. old' \in Nat /\ nth' \in 0 .. Len(tags')
  BY <1>1, <1>2, <1>7 DEF ReaderFacts
<1>11. w'.at + w'.avail <= w'.size /\ w'.at \in Nat /\ w'.avail \in Nat
  BY <1>6 DEF IsWindow, WindowType
<1>12. TextFrom(nth)' = TextFrom(nth) /\ tags' = tags /\ nth' = nth /\ pc' = pc
  BY <1>7 DEF TextFrom
<1>13. Tracked'
  <2>1. CASE pc = "open"
    <3>1. /\ w.at + k.second = TextFrom(nth)
          /\ low <= k.first /\ low <= k.second /\ k.second <= w.avail
      BY <2>1, <1>2 DEF ReaderFacts, Tracked
    <3>2. /\ w'.at + k'.second = TextFrom(nth)
          /\ k'.low <= k'.first /\ k'.low <= k'.second /\ k'.second <= w'.avail
      BY <3>1, <1>1, <1>6, <1>9, <1>11
    <3> QED
      BY <3>2, <2>1, <1>11, <1>12 DEF Tracked
  <2>2. CASE pc = "close"
    <3> DEFINE open == tags[nth + 1].open
    <3>1. /\ nth < Len(tags) /\ w.at + old = TextFrom(nth)
          /\ w.at + k.first = open + 1 /\ k.second = k.first + 1
          /\ low <= old /\ old < k.first /\ old <= w.avail
      BY <2>2, <1>2 DEF ReaderFacts, Tracked, low
    <3>2. old' = old - low /\ old \in Nat
      BY <2>2, <1>7 DEF ReaderFacts
    <3>3. /\ nth' < Len(tags)' /\ w'.at + old' = TextFrom(nth)'
          /\ w'.at + k'.first = tags'[nth' + 1].open + 1
          /\ k'.second = k'.first + 1
          /\ k'.low <= old' /\ old' < k'.first /\ old' <= w'.avail
      <4>1. tags'[nth' + 1].open = open /\ nth' < Len(tags)'
        BY <3>1, <1>12
      <4> HIDE DEF open
      <4>2. w'.at + k'.first = w.at + k.first
        BY <1>1, <1>6, <1>9
      <4>3. w'.at + old' = w.at + old
        BY <1>1, <1>6, <3>2
      <4>4. k'.second = k'.first + 1
        BY <3>1, <1>1, <1>9
      <4>5. k'.low <= old' /\ old' < k'.first /\ old' <= w'.avail
        <5> DEFINE f == k.first
                   a == w.avail
                   b == w'.avail
        <5>1. /\ low \in Nat /\ old \in Nat /\ f \in Nat /\ a \in Nat /\ b \in Nat
              /\ low <= old /\ old < f /\ old <= a /\ b >= a - low
          BY <3>1, <3>2, <1>1, <1>6, <1>11
        <5>2. k'.low = 0 /\ k'.first = f - low /\ old' = old - low
          BY <3>2, <1>9
        <5> HIDE DEF f, a, b
        <5>3. 0 <= old - low /\ old - low < f - low /\ old - low <= b
          BY <5>1
        <5> QED
          BY <5>2, <5>3 DEF b
      <4>6. w'.at + old' = TextFrom(nth)'
        BY <3>1, <4>3, <1>12, Zenon
      <4>7. w'.at + k'.first = tags'[nth' + 1].open + 1
        BY <3>1, <4>1, <4>2, Zenon
      <4> QED
        BY <4>1, <4>4, <4>5, <4>6, <4>7, Zenon
    <3> QED
      BY <3>3, <2>2, <1>11, <1>12 DEF Tracked
  <2> QED
    BY <2>1, <2>2
<1> QED
  BY <1>6, <1>8, <1>9, <1>10, <1>13 DEF ReaderFacts

(* Two of the offsets are set. *)
SetOpen(q, f, n) == [q EXCEPT !.first = f, !.second = n]

SetClose(q, l, n) == [q EXCEPT !.low = l, !.second = n]

OffsetsAre(q, f, n, l) ==
  q \in Offsets /\ q.first = f /\ q.second = n /\ q.low = l

(* The third stays. *)
LEMMA OffsetsChange ==
  ASSUME NEW q \in Offsets, NEW a \in Nat, NEW n \in Nat
  PROVE  /\ OffsetsAre(SetOpen(q, a, n), a, n, q.low)
         /\ OffsetsAre(SetClose(q, a, n), q.first, n, a)
<1> DEFINE o == [q EXCEPT !.first = a]
           c == [q EXCEPT !.low = a]
<1>1. OffsetsAre(o, a, q.second, q.low) /\ OffsetsAre(c, q.first, q.second, a)
  BY DEF OffsetsAre, Offsets
<1>2. SetOpen(q, a, n) = [o EXCEPT !.second = n]
  BY Zenon DEF SetOpen
<1>3. SetClose(q, a, n) = [c EXCEPT !.second = n]
  BY Zenon DEF SetClose
<1> HIDE DEF o, c
<1>4. OffsetsAre([o EXCEPT !.second = n], a, n, q.low)
  BY <1>1 DEF OffsetsAre, Offsets
<1>5. OffsetsAre([c EXCEPT !.second = n], q.first, n, a)
  BY <1>1 DEF OffsetsAre, Offsets
<1> QED
  BY <1>2, <1>3, <1>4, <1>5, Zenon

(* A '<' is found: it is that of the next tag. *)
LEMMA OpenFoundTracks ==
  ASSUME ReaderFacts, OpenFound
  PROVE  ReaderFacts'
<1> DEFINE a    == w.at + k.second
           b    == w.at + w.avail - 1
           open == tags[nth + 1].open
<1>1. /\ w.at \in Nat /\ w.avail \in Nat /\ w.size \in Nat /\ k.low \in Nat
      /\ k.second \in Nat /\ nth \in 0 .. Len(tags) /\ Len(tags) \in Nat
      /\ marks.lefts = LeftsOf /\ InOrder
  BY ReaderParts DEF ReaderFacts
<1>2. /\ a = TextFrom(nth) /\ k.low <= k.second /\ k.second <= w.avail
      /\ w.at + w.avail <= w.size /\ pc = "open"
  BY DEF OpenFound, ReaderFacts, Tracked
<1>3. Lefts = marks.lefts \cap (a .. b) /\ Lefts # {}
  BY Zenon DEF OpenFound, Lefts, InWindow
<1>4. a \in Nat /\ b \in Int
  BY <1>1
<1> HIDE DEF a, b, open
<1>5. nth < Len(tags) /\ Min(Lefts) = open /\ open >= a /\ open <= b
  BY <1>1, <1>2, <1>3, <1>4, NextLeft, Zenon DEF open
<1>6. open \in Nat
  <2>1. nth + 1 \in 1 .. Len(tags)
    BY <1>1, <1>5
  <2> QED
    BY <2>1, <1>1, TagsGrow DEF open
<1> DEFINE first == open - w.at + 1
<1>7. /\ k' = SetOpen(k, first, first + 1)
      /\ old' = k.second /\ pc' = "close"
      /\ w' = w /\ tags' = tags /\ marks' = marks /\ nth' = nth
  BY <1>5, Zenon DEF OpenFound, SetOpen
<1>8. first \in Nat /\ k.second < first /\ w.at + first = open + 1
  BY <1>1, <1>4, <1>5, <1>6, SMTT(40) DEF a
<1> HIDE DEF first
<1>9. k' \in Offsets /\ k'.first = first /\ k'.second = first + 1 /\ k'.low = k.low
  <2>1. k \in Offsets /\ first + 1 \in Nat
    BY <1>8 DEF ReaderFacts
  <2>2. OffsetsAre(SetOpen(k, first, first + 1), first, first + 1, k.low)
    BY <1>8, <2>1, OffsetsChange
  <2> QED
    BY <1>7, <2>2 DEF OffsetsAre
<1>10. InOrder' /\ Marked'
  BY <1>7, FileStays
<1>11. IsWindow(w)'
  BY <1>7 DEF ReaderFacts, IsWindow
<1>12. TextFrom(nth)' = TextFrom(nth) /\ tags'[nth' + 1].open = open
  BY <1>7 DEF TextFrom, open
<1>13. Tracked'
  <2>1. w'.at + old' = TextFrom(nth)'
    BY <1>2, <1>7, <1>12 DEF a
  <2>2. w'.at + k'.first = tags'[nth' + 1].open + 1
    BY <1>7, <1>8, <1>9, <1>12, Zenon
  <2>3. k'.low <= old' /\ old' < k'.first /\ old' <= w'.avail /\ k'.second = k'.first + 1
    BY <1>2, <1>7, <1>8, <1>9
  <2>4. nth' < Len(tags') /\ w'.at + w'.avail <= w'.size /\ pc' = "close"
    BY <1>2, <1>5, <1>7
  <2> QED
    BY <2>1, <2>2, <2>3, <2>4 DEF Tracked
<1> QED
  BY <1>1, <1>7, <1>9, <1>10, <1>11, <1>13 DEF ReaderFacts

(* A '>' is found: it is that of the same tag, and both of them and the    *)
(* text in front are in the window.                                        *)
LEMMA CloseFoundTracks ==
  ASSUME ReaderFacts, CloseFound
  PROVE  ReaderFacts'
<1> DEFINE a     == w.at + k.second
           b     == w.at + w.avail - 1
           open  == tags[nth + 1].open
           close == tags[nth + 1].close
<1>1. /\ w.at \in Nat /\ w.avail \in Nat /\ w.size \in Nat /\ k.first \in Nat
      /\ k.second \in Nat /\ nth \in 0 .. Len(tags) /\ Len(tags) \in Nat
      /\ marks.rights = RightsOf(w.size) /\ InOrder /\ old \in Nat
  BY ReaderParts DEF ReaderFacts
<1>2. /\ nth < Len(tags) /\ w.at + old = TextFrom(nth)
      /\ w.at + k.first = open + 1 /\ k.second = k.first + 1
      /\ old < k.first /\ w.at + w.avail <= w.size /\ pc = "close"
  BY DEF CloseFound, ReaderFacts, Tracked
<1>3. Rights = marks.rights \cap (a .. b) /\ Rights # {}
  BY Zenon DEF CloseFound, Rights, InWindow
<1>4. nth + 1 \in 1 .. Len(tags)
  BY <1>1, <1>2
<1>5. /\ open \in Nat /\ close \in Nat /\ open + 2 <= close
      /\ TextFrom(nth + 1) = close + 1
  BY <1>1, <1>4, TagsGrow, Zenon
<1> HIDE DEF open, close
<1>6. a \in Nat /\ b \in Int /\ a = open + 2
  <2> DEFINE at == w.at
             f  == k.first
  <2>1. a = at + (f + 1) /\ at + f = open + 1 /\ f \in Nat /\ at \in Nat
    BY <1>1, <1>2
  <2>2. b \in Int
    BY <1>1
  <2> HIDE DEF a, at, f
  <2> QED
    BY <2>1, <2>2, <1>5
<1> HIDE DEF a, b
<1>7. Min(Rights) = close /\ close <= b
  BY <1>1, <1>2, <1>3, <1>6, NextRight, Zenon DEF open, close
<1> DEFINE second == close - w.at + 1
<1>8. /\ k' = SetClose(k, old, second)
      /\ nth' = nth + 1 /\ pc' = "tag"
      /\ w' = w /\ tags' = tags /\ marks' = marks /\ old' = old
  BY <1>7, Zenon DEF CloseFound, SetClose
<1>9. second \in Nat /\ w.at + second - 1 = close /\ second <= w.avail
  <2> DEFINE at    == w.at
             avail == w.avail
  <2>1. /\ at \in Nat /\ avail \in Nat /\ close \in Nat
        /\ close <= at + avail - 1
    BY <1>1, <1>5, <1>7 DEF b
  <2>2. close >= at
    <3>1. a >= at
      BY <1>1 DEF a
    <3> QED
      BY <3>1, <2>1, <1>5, <1>6
  <2> HIDE DEF at, avail
  <2>3. close - at + 1 \in Nat /\ at + (close - at + 1) - 1 = close
        /\ close - at + 1 <= avail
    BY <2>1, <2>2
  <2> QED
    BY <2>3 DEF at, avail
<1> HIDE DEF second
<1>10. k' \in Offsets /\ k'.first = k.first /\ k'.second = second /\ k'.low = old
  <2>1. k \in Offsets /\ old \in Nat
    BY DEF ReaderFacts
  <2>2. OffsetsAre(SetClose(k, old, second), k.first, second, old)
    BY <1>9, <2>1, OffsetsChange
  <2> QED
    BY <1>8, <2>2 DEF OffsetsAre
<1>11. InOrder' /\ Marked'
  BY <1>8, FileStays
<1>12. IsWindow(w)'
  BY <1>8 DEF ReaderFacts, IsWindow
<1>13. /\ nth' \in 0 .. Len(tags') /\ nth' > 0
       /\ nth' - 1 = nth
  BY <1>1, <1>2, <1>8
<1>14. TextFrom(nth - 1)' = TextFrom(nth) /\ tags'[nth'] = tags[nth + 1]
  <2>1. nth' - 1 = nth
    BY <1>13
  <2> QED
    BY <2>1, <1>8 DEF TextFrom
<1>15. TagTrue'
  <2>1. w'.at + k'.first = tags'[nth'].open + 1
    BY <1>2, <1>8, <1>10, <1>14 DEF open
  <2>2. w'.at + k'.second - 1 = tags'[nth'].close
    BY <1>8, <1>9, <1>10, <1>14 DEF close
  <2>3. w'.at + k'.low = TextFrom(nth - 1)'
    BY <1>2, <1>8, <1>10, <1>14
  <2>4. w'.at + k'.first - 1 = tags'[nth'].open
    <3>1. w.at + k.first - 1 = open
      <4> DEFINE at == w.at
                 f  == k.first
      <4>1. at + f = open + 1 /\ f \in Nat /\ at \in Nat /\ open \in Nat
        BY <1>1, <1>2, <1>5
      <4> HIDE DEF at, f
      <4>2. at + f - 1 = open
        BY <4>1
      <4> QED
        BY <4>2 DEF at, f
    <3> QED
      BY <3>1, <1>8, <1>10, <1>14 DEF open
  <2>5. k'.low <= k'.first - 1 /\ k'.second <= w'.avail
    BY <1>1, <1>2, <1>8, <1>9, <1>10
  <2> QED
    BY <2>1, <2>2, <2>3, <2>4, <2>5, Zenon DEF TagTrue, Tag, Value
<1>16. Tracked'
  BY <1>2, <1>8, <1>13, <1>15, Zenon DEF Tracked
<1> QED
  BY <1>1, <1>8, <1>10, <1>11, <1>12, <1>13, <1>16 DEF ReaderFacts

(* Whatever the client does between two calls, the reader waits, or is     *)
(* never called again.                                                     *)
LEMMA PauseTracks ==
  ASSUME ReaderFacts, UNCHANGED <<w, tags, marks, k, old, nth>>,
         \/ pc = "tag" /\ pc' = "open"
         \/ pc' \in {"none", "failed", "done"}
         \/ pc' = pc
  PROVE  ReaderFacts'
<1>1. InOrder' /\ Marked'
  BY FileStays
<1>2. /\ w.at \in Nat /\ w.avail \in Nat
      /\ k.first \in Nat /\ k.second \in Nat /\ k.low \in Nat
      /\ InOrder /\ nth \in 0 .. Len(tags)
  BY ReaderParts DEF ReaderFacts
<1>3. \A n : TextFrom(n)' = TextFrom(n)
  BY DEF TextFrom
<1>4. w.at + w.avail <= w.size
  BY DEF ReaderFacts, Tracked
<1>5. Tracked'
  <2>1. CASE pc = "tag" /\ pc' = "open"
    <3> DEFINE open  == tags[nth].open
               close == tags[nth].close
    <3>1. nth > 0 /\ TagTrue
      BY <2>1 DEF ReaderFacts, Tracked
    <3>2. nth \in 1 .. Len(tags)
      BY <1>2, <3>1
    <3>3. /\ open \in Nat /\ close \in Nat /\ TextFrom(nth) = close + 1
      BY <1>2, <3>2, TagsGrow
    <3>4. /\ w.at + k.second - 1 = close
          /\ k.low <= k.first - 1 /\ k.second <= w.avail
          /\ w.at + k.first - 1 = open
          /\ w.at + k.first = open + 1
      BY <2>1, <3>1 DEF TagTrue, Tag, Value
    <3>5. k.first <= k.second
      <4>1. open + 2 <= close
        BY <1>2, <3>2, TagsGrow
      <4> HIDE DEF open, close
      <4> QED
        BY <4>1, <1>2, <3>3, <3>4, SMTT(40)
    <3>6. k.low <= k.first /\ k.low <= k.second /\ w.at + k.second = TextFrom(nth)
      <4> DEFINE at == w.at
                 s  == k.second
                 f  == k.first
                 l  == k.low
      <4>1. /\ at \in Nat /\ s \in Nat /\ f \in Nat /\ l \in Nat
            /\ at + s - 1 = close /\ l <= f - 1 /\ f <= s
            /\ TextFrom(nth) = close + 1 /\ close \in Nat
        BY <1>2, <3>3, <3>4, <3>5
      <4> HIDE DEF open, close, at, s, f, l
      <4>2. l <= f /\ l <= s /\ at + s = TextFrom(nth)
        BY <4>1
      <4> QED
        BY <4>2 DEF at, s, f, l
    <3> QED
      BY <2>1, <1>3, <1>4, <3>4, <3>6 DEF Tracked
  <2>2. CASE pc' \in {"none", "failed", "done"}
    BY <2>2, <1>4 DEF Tracked
  <2>3. CASE pc' = pc
    BY <2>3, <1>3 DEF ReaderFacts, Tracked, TagTrue, Tag, Value
  <2> QED
    BY <2>1, <2>2, <2>3
<1> QED
  BY <1>1, <1>5 DEF ReaderFacts, IsWindow

(***************************************************************************)
(* Documents in a file                                                     *)
(***************************************************************************)
(* The text and the width of a token are numbers. *)
LEMMA TokenParts ==
  ASSUME NEW t \in TokenType
  PROVE  t.text \in Nat /\ t.width \in Nat /\ t.width > 0
BY DEF TokenType

(* The tags of a document follow each other in the file. *)
LEMMA TagsInOrder ==
  ASSUME NEW d \in Seq(TokenType), tags = TagsOf(d)
  PROVE  /\ InOrder /\ Len(tags) = Len(d)
         /\ \A n \in 1 .. Len(d) : tags[n].open - TextFrom(n - 1) = d[n].text
<1> DEFINE N       == Len(d)
           size(n) == d[n].text + d[n].width + 2
           step    == [n \in 1 .. N |-> [y \in Int |-> y + size(n)]]
           Def(f)  == f = [n \in 0 .. N |->
                            IF n = 0 THEN -1
                            ELSE f[n - 1] + d[n].text + d[n].width + 2]
           close   == CHOOSE g : Def(g)
           open(n) == close[n] - d[n].width - 1
<1>1. N \in Nat /\ \A n \in 1 .. N : d[n] \in TokenType
  OBVIOUS
<1>2. \A n \in 1 .. N : d[n].text \in Nat /\ d[n].width \in Nat /\ d[n].width > 0
  BY <1>1, TokenParts
<1>3. step \in [1 .. N -> [Int -> Int]]
  BY <1>2
<1>4. ASSUME NEW n \in 1 .. N, NEW y \in Int
      PROVE  step[n][y] = y + d[n].text + d[n].width + 2
  BY <1>2
<1>5. tags = [n \in 1 .. N |-> [open |-> open(n), close |-> close[n]]]
  BY Zenon DEF TagsOf
<1> HIDE DEF N, step
<1>6. PICK f \in [0 .. N -> Int] : Steps(f, N, -1, step)
  <2>1. \A a \in Int : \E f \in [0 .. N -> Int] : Steps(f, N, a, step)
    BY <1>1, <1>3, Recursion
  <2>2. -1 \in Int
    OBVIOUS
  <2> QED
    BY <2>1, <2>2, Zenon
<1>7. Def(f)
  <2>1. ASSUME NEW n \in 1 .. N
        PROVE  f[n] = f[n - 1] + d[n].text + d[n].width + 2
    <3>1. n - 1 \in 0 .. N /\ f[n - 1] \in Int
      BY <1>1
    <3> QED
      BY <1>4, <1>6, <3>1 DEF Steps
  <2>2. f[0] = -1
    BY <1>6, Zenon DEF Steps
  <2>3. ASSUME NEW n \in 0 .. N
        PROVE  f[n] = IF n = 0 THEN -1
                      ELSE f[n - 1] + d[n].text + d[n].width + 2
    <3>1. CASE n = 0
      BY <2>2, <3>1, Zenon
    <3>2. CASE n # 0
      <4>1. n \in 1 .. N
        BY <1>1, <3>2
      <4> QED
        BY <2>1, <3>2, <4>1, Zenon
    <3> QED
      BY <3>1, <3>2
  <2>4. f = [n \in 0 .. N |-> f[n]]
    BY <1>6
  <2> QED
    BY <2>3, <2>4, Zenon
<1> HIDE DEF Def
<1>8. Def(close)
  BY <1>7, Zenon
<1> HIDE DEF close
<1>9. ASSUME NEW n \in 0 .. N
      PROVE  close[n] = IF n = 0 THEN -1
                        ELSE close[n - 1] + d[n].text + d[n].width + 2
  BY <1>8, Zenon DEF Def
<1> DEFINE S == {n \in Nat : n <= N => close[n] \in Int /\ close[n] >= -1}
<1>10. 0 \in S
  BY <1>1, <1>9
<1>11. ASSUME NEW n \in Nat, n \in S PROVE n + 1 \in S
  <2> SUFFICES ASSUME n + 1 <= N
               PROVE  close[n + 1] \in Int /\ close[n + 1] >= -1
    OBVIOUS
  <2> DEFINE c == close[n]
             t == d[n + 1].text
             u == d[n + 1].width
  <2>1. n + 1 \in 1 .. N /\ n + 1 \in 0 .. N /\ c \in Int /\ c >= -1
    BY <1>1, <1>11
  <2>2. close[n + 1] = c + t + u + 2
    BY <1>9, <2>1
  <2>3. t \in Nat /\ u \in Nat
    BY <1>2, <2>1
  <2> HIDE DEF c, t, u
  <2> QED
    BY <2>1, <2>2, <2>3
<1> HIDE DEF S
<1>12. \A n \in Nat : n \in S
  BY <1>10, <1>11, Induction
<1>13. ASSUME NEW n \in 0 .. N PROVE close[n] \in Int /\ close[n] >= -1
  <2>1. n \in Nat /\ n <= N /\ n \in S
    BY <1>1, <1>12
  <2> QED
    BY <2>1 DEF S
<1>14. ASSUME NEW n \in 1 .. N
       PROVE  /\ open(n) \in Nat /\ close[n] \in Nat
              /\ open(n) + 2 <= close[n] /\ close[n - 1] + 1 <= open(n)
              /\ open(n) - (close[n - 1] + 1) = d[n].text
  <2> DEFINE c == close[n - 1]
             b == close[n]
             t == d[n].text
             u == d[n].width
  <2>1. n \in 0 .. N /\ n - 1 \in 0 .. N /\ n # 0
    BY <1>1
  <2>2. b = c + t + u + 2 /\ c \in Int /\ c >= -1
    BY <1>9, <1>13, <2>1
  <2>3. t \in Nat /\ u \in Nat /\ u > 0
    BY <1>2
  <2> HIDE DEF c, t, u, b
  <2>4. /\ b - u - 1 \in Nat /\ b \in Nat /\ b - u - 1 + 2 <= b /\ c + 1 <= b - u - 1
        /\ b - u - 1 - (c + 1) = t
    BY <2>2, <2>3
  <2> QED
    BY <2>4 DEF c, u, b, t
<1> HIDE DEF open
<1>15. tags \in Seq(TagPlace) /\ Len(tags) = N
  <2>1. \A n \in 1 .. N : [open |-> open(n), close |-> close[n]] \in TagPlace
    BY <1>14 DEF TagPlace
  <2> QED
    BY <1>1, <1>5, <2>1
<1>16. \A n \in 1 .. N : tags[n].open = open(n) /\ tags[n].close = close[n]
  BY <1>5
<1>17. ASSUME NEW n \in 1 .. N PROVE TextFrom(n - 1) = close[n - 1] + 1
  <2>1. CASE n = 1
    <3>1. close[0] = -1
      BY <1>1, <1>9
    <3>2. n - 1 = 0
      BY <2>1
    <3> QED
      BY <3>1, <3>2 DEF TextFrom
  <2>2. CASE n # 1
    <3>1. n - 1 \in 1 .. N
      BY <1>1, <2>2
    <3> QED
      BY <3>1, <1>16 DEF TextFrom
  <2> QED
    BY <2>1, <2>2
<1>18. \A n \in 1 .. Len(tags) :
         tags[n].open + 2 <= tags[n].close /\ TextFrom(n - 1) <= tags[n].open
  BY <1>14, <1>15, <1>16, <1>17
<1>19. \A n \in 1 .. N : tags[n].open - TextFrom(n - 1) = d[n].text
  BY <1>14, <1>16, <1>17
<1> QED
  BY <1>15, <1>18, <1>19 DEF InOrder, N

(* A document with an end tag too many is one of tokens, too. *)
LEMMA WithStrayTyped ==
  ASSUME NEW d \in Seq(TokenType), NEW e \in WithStray(d)
  PROVE  e \in Seq(TokenType) /\ Len(e) > 0
<1> DEFINE t == Token("end", 0, 2)
<1>1. t \in TokenType
  BY DEF Token, TokenType, TokenKinds
<1> HIDE DEF t
<1>2. PICK n \in 1 .. Len(d) + 1 :
        e = SubSeq(d, 1, n - 1) \o <<t>> \o SubSeq(d, n, Len(d))
  BY Zenon DEF WithStray, InsertAt, t
<1> DEFINE a == SubSeq(d, 1, n - 1)
           b == SubSeq(d, n, Len(d))
<1>3. a \in Seq(TokenType) /\ b \in Seq(TokenType)
  OBVIOUS
<1> HIDE DEF a, b
<1>4. e = a \o <<t>> \o b
  BY <1>2 DEF a, b
<1>5. a \o <<t>> \in Seq(TokenType) /\ Len(a \o <<t>>) = Len(a) + 1
  BY <1>1, <1>3
<1> QED
  BY <1>3, <1>4, <1>5

(* A file is cut off behind a natural number of characters. *)
LEMMA CutsNat ==
  ASSUME InOrder, NEW busy \in BOOLEAN, NEW n \in Cuts(tags, Gap(busy))
  PROVE  n \in Nat
<1>1. Gap(busy) \in Nat
  BY DEF Gap
<1>2. \A t \in ToSet(tags) : t.close \in Nat
  <2>1. \A t \in ToSet(tags) : t \in TagPlace
    BY DEF InOrder, ToSet
  <2> QED
    BY <2>1 DEF TagPlace
<1>3. n = 0 \/ \E t \in ToSet(tags), i \in {0, 1 + Gap(busy)} : n = t.close + i
  BY DEF Cuts
<1> QED
  BY <1>1, <1>2, <1>3

(***************************************************************************)
(* The tokens of a document                                                *)
(***************************************************************************)
(* A token of kind kind *)
LEMMA TokenTyped ==
  ASSUME NEW kind \in TokenKinds, NEW text \in Nat, NEW width \in Nat \ {0}
  PROVE  Token(kind, text, width) \in TokenType
BY DEF Token, TokenType

(* The start tag of a node *)
LEMMA StartTyped ==
  ASSUME NEW f \in AllForests, NEW i \in 1 .. Len(f), NEW inner \in Nat,
         NEW kind \in {"start", "empty"}, NEW gap \in Nat
  PROVE  StartOf(f[i], inner, kind, gap) \in TokenType
<1> DEFINE v     == f[i]
           u     == UnitOf(v, inner)
           width == IF kind = "empty" THEN 2 ELSE 1
           lsize == IF v.extra > 0 THEN u.tl - 2 ELSE 0
           t     == Token(kind, gap, width)
<1>1. v.extra \in Nat /\ v.length \in Nat /\ v.form \in Forms
  BY ForestTyped
<1>2. u \in Unit
  BY UnitOfTyped DEF EncodedUnit
<1>3. lsize \in Nat
  <2>1. u.tl \in Nat /\ u.tl >= 2
    BY UnitOfTyped DEF EncodedUnit, Unit
  <2> HIDE DEF u, v
  <2> QED
    BY <2>1
<1>4. t \in TokenType
  BY TokenTyped DEF TokenKinds
<1>5. StartOf(v, inner, kind, gap) =
        [t EXCEPT !.shape = u.shape, !.indefinite = u.indefinite, !.lsize = lsize]
  BY Zenon DEF StartOf
<1>6. u.shape \in {"primitive", "constructed"} /\ u.indefinite \in BOOLEAN
  BY <1>2, SMTT(40) DEF Unit
<1> HIDE DEF v, u, lsize, t
<1>7. \A e \in BOOLEAN, s \in {"primitive", "constructed"} :
        [t EXCEPT !.shape = s, !.indefinite = e, !.lsize = lsize] \in TokenType
  BY <1>3, <1>4 DEF TokenType
<1>8. StartOf(v, inner, kind, gap) \in TokenType
  BY <1>5, <1>6, <1>7
<1> QED
  BY <1>8 DEF v

(* The end tag of a node *)
LEMMA EndTyped ==
  ASSUME NEW f \in AllForests, NEW i \in 1 .. Len(f), NEW gap \in Nat
  PROVE  EndOf(f[i], gap) \in TokenType
<1> DEFINE n == IF f[i].form = "primitive" THEN f[i].length ELSE gap
<1>1. n \in Nat
  BY ForestTyped
<1>2. EndOf(f[i], gap) = Token("end", n, 2)
  BY Zenon DEF EndOf
<1> HIDE DEF n
<1> QED
  BY <1>1, <1>2, TokenTyped DEF TokenKinds

(* Every document is a sequence of tokens. *)
LEMMA DocumentTyped ==
  ASSUME NEW f \in AllForests, NEW busy \in BOOLEAN
  PROVE  Document(f, busy) \in Seq(TokenType)
<1> DEFINE N        == Len(f)
           gap      == Gap(busy)
           inner    == Inner(f)
           NoEnd(i) == busy /\ Below(f, i) = {} /\ f[i].length = 0
           end(i, n) == LET m == i + 1 - n
                        IN  IF LastOf(f, m) = i /\ ~NoEnd(m)
                            THEN <<EndOf(f[m], gap)>> ELSE << >>
           ends(i)  == FlattenSeq([n \in 1 .. i |-> end(i, n)])
           node(i)  == <<StartOf(f[i], inner[i],
                                 IF NoEnd(i) THEN "empty" ELSE "start", gap)>>
                         \o ends(i)
           comment  == IF busy THEN <<Token("comment", gap, 3)>> ELSE << >>
           decl     == IF busy THEN <<Token("decl", 0, 3)>> ELSE << >>
           nodes    == [i \in 1 .. N |-> comment \o node(i)]
<1>1. N \in Nat /\ gap \in Nat /\ inner \in [1 .. N -> Nat]
  BY ForestTyped, InnerTyped DEF Gap
<1>2. Document(f, busy) = decl \o FlattenSeq(nodes)
  BY Zenon DEF Document
<1>3. comment \in Seq(TokenType) /\ decl \in Seq(TokenType)
  <2>1. 3 \in Nat \ {0} /\ 0 \in Nat /\ gap \in Nat
        /\ "comment" \in TokenKinds /\ "decl" \in TokenKinds
    BY <1>1 DEF TokenKinds
  <2>2. /\ Token("comment", gap, 3) \in TokenType
        /\ Token("decl", 0, 3) \in TokenType
    BY <2>1, TokenTyped
  <2> QED
    BY <2>2
<1>4. ASSUME NEW i \in 1 .. N PROVE node(i) \in Seq(TokenType)
  <2>1. ASSUME NEW n \in 1 .. i PROVE end(i, n) \in Seq(TokenType)
    <3>1. i + 1 - n \in 1 .. Len(f)
      BY <1>1
    <3>2. EndOf(f[i + 1 - n], gap) \in TokenType
      BY <1>1, <3>1, EndTyped
    <3> HIDE DEF NoEnd, gap
    <3> QED
      BY <3>2
  <2> DEFINE all == [n \in 1 .. i |-> end(i, n)]
  <2> HIDE DEF end
  <2>2. all \in Seq(Seq(TokenType))
    BY <1>1, <2>1
  <2>3. ends(i) \in Seq(TokenType)
    <3> HIDE DEF all
    <3>1. FlattenSeq(all) \in Seq(TokenType)
      BY <2>2, FlattenTyped
    <3> QED
      BY <3>1 DEF all
  <2> DEFINE kind == IF NoEnd(i) THEN "empty" ELSE "start"
  <2>4. kind \in {"start", "empty"} /\ inner[i] \in Nat
    BY <1>1
  <2> HIDE DEF ends, kind, gap, inner
  <2>5. StartOf(f[i], inner[i], kind, gap) \in TokenType
    BY <1>1, <2>4, StartTyped DEF N
  <2> QED
    BY <2>3, <2>5 DEF kind
<1> HIDE DEF node, comment, decl
<1>5. nodes \in Seq(Seq(TokenType))
  BY <1>1, <1>3, <1>4
<1> HIDE DEF nodes
<1>6. FlattenSeq(nodes) \in Seq(TokenType)
  BY <1>5, FlattenTyped
<1> QED
  BY <1>2, <1>3, <1>6

(***************************************************************************)
(* The tags come out                                                       *)
(***************************************************************************)
(* The reader is created in front of a file. *)
LEMMA InitFacts ==
  ASSUME Init
  PROVE  ReaderFacts /\ doc \in Seq(TokenType) /\ Len(tags) = Len(doc)
<1>1. PICK busy \in BOOLEAN :
        \/ /\ doc = Document(forest, busy) /\ tags = TagsOf(doc)
           /\ \E n \in Cuts(tags, Gap(busy)) : SourceIs(n)
        \/ /\ doc \in WithStray(Document(forest, busy))
           /\ tags = TagsOf(doc) /\ SourceIs(Last(tags).close + 1)
  BY DEF Init
<1>2. Document(forest, busy) \in Seq(TokenType)
  <2>1. ASSUME NEW e \in BOOLEAN PROVE Document(forest, e) \in Seq(TokenType)
    BY InputForest, DocumentTyped DEF Init
  <2> QED
    BY <2>1
<1>3. doc \in Seq(TokenType) /\ tags = TagsOf(doc)
  BY <1>1, <1>2, WithStrayTyped
<1>4. InOrder /\ Len(tags) = Len(doc)
  BY <1>3, TagsInOrder
<1>5. \E n \in Nat : SourceIs(n)
  <2>1. CASE \E n \in Cuts(tags, Gap(busy)) : SourceIs(n)
    BY <2>1, <1>4, CutsNat
  <2>2. CASE /\ doc \in WithStray(Document(forest, busy))
             /\ SourceIs(Last(tags).close + 1)
    <3>1. Len(doc) > 0
      BY <2>2, <1>2, WithStrayTyped
    <3>2. Len(tags) \in 1 .. Len(tags)
      BY <3>1, <1>4, TagsGrow
    <3>3. Last(tags).close \in Nat
      BY <3>2, <1>4, TagsGrow DEF Last
    <3>4. Last(tags).close + 1 \in Nat
      BY <3>3
    <3> QED
      BY <2>2, <3>4
  <2> QED
    BY <1>1, <2>1, <2>2
<1>6. PICK n \in Nat, b \in Backends : w = New(b, n)
  BY <1>5 DEF SourceIs
<1>7. IsWindow(w) /\ w.at = 0
  BY <1>6, NewIsWindow
<1>8. Marked
  BY Zenon DEF Init, ReaderInit, Marked, LeftsOf, RightsOf
<1>9. /\ k \in Offsets /\ k.first = 0 /\ k.second = 0 /\ k.low = 0
      /\ old = 0 /\ nth = 0 /\ pc = "open"
  BY DEF Init, ReaderInit, Offsets
<1>10. nth \in 0 .. Len(tags) /\ TextFrom(nth) = 0
  BY <1>4, <1>9, TagsGrow DEF TextFrom
<1>11. w.at + w.avail <= w.size /\ w.avail \in Nat
  BY <1>7 DEF IsWindow, WindowType
<1>12. Tracked
  BY <1>7, <1>9, <1>10, <1>11 DEF Tracked
<1> QED
  BY <1>3, <1>4, <1>7, <1>8, <1>9, <1>10, <1>12 DEF ReaderFacts

(* Every step of the reader *)
LEMMA StepFacts ==
  ASSUME ReaderFacts, Step \/ (Ended /\ UNCHANGED vars)
  PROVE  ReaderFacts'
<1>1. CASE OpenFound
  BY <1>1, OpenFoundTracks
<1>2. CASE OpenRefill
  BY <1>2, ReaderParts, RefillTracks DEF OpenRefill
<1>3. CASE OpenEnd
  BY <1>3, PauseTracks DEF OpenEnd
<1>4. CASE CloseFound
  BY <1>4, CloseFoundTracks
<1>5. CASE CloseRefill
  BY <1>5, ReaderParts, RefillTracks DEF CloseRefill
<1>6. CASE CloseEnd
  BY <1>6, PauseTracks DEF CloseEnd
<1>7. ASSUME NEW t, Declaration(t) \/ Comment(t) \/ StartTag(t) \/ EndTag(t)
      PROVE  ReaderFacts'
  <2>1. pc = "tag" /\ (Continue \/ Throw)
    BY <1>7, Zenon DEF Declaration, Comment, StartTag, EndTag, Got
  <2> QED
    BY <2>1, PauseTracks DEF Continue, Throw
<1>8. CASE Finish
  BY <1>8, PauseTracks DEF Finish
<1>9. CASE UNCHANGED vars
  BY <1>9, PauseTracks DEF vars, readerVars
<1> QED
  BY <1>1, <1>2, <1>3, <1>4, <1>5, <1>6, <1>7, <1>8, <1>9
     DEF Step, ReaderNext

(* The tags of a document come out one by one, each with the text in front *)
(* of it, whatever the window does meanwhile (xml.cc:48-80).               *)
THEOREM TagsTrue == Spec => []TagTrue
<1>1. Init => ReaderFacts
  BY InitFacts
<1>2. ReaderFacts /\ [Step \/ (Ended /\ UNCHANGED vars)]_vars => ReaderFacts'
  <2> SUFFICES ASSUME ReaderFacts, [Step \/ (Ended /\ UNCHANGED vars)]_vars
               PROVE  ReaderFacts'
    OBVIOUS
  <2>1. CASE UNCHANGED vars
    BY <2>1, PauseTracks DEF vars, readerVars
  <2> QED
    BY <2>1, StepFacts
<1>3. ReaderFacts => TagTrue
  BY Zenon DEF ReaderFacts, Tracked, TagTrue
<1> QED
  BY <1>1, <1>2, <1>3, PTL DEF Spec

(***************************************************************************)
(* The converter                                                           *)
(***************************************************************************)
(* A token gives the header of a tag. *)
LEMMA TlvTyped ==
  ASSUME NEW t \in TokenType
  PROVE  TlvOf(t) \in Unit /\ TlvOf(t).shape = t.shape
<1> DEFINE a == t.lsize
           b == t.indefinite
           n == IF a > 0 THEN 2 + a ELSE IF b THEN 2 ELSE 0
<1>1. a \in Nat /\ b \in BOOLEAN /\ t.shape \in {"primitive", "constructed"}
  BY DEF TokenType
<1>2. TlvOf(t) = [shape |-> t.shape, eoc |-> FALSE, indefinite |-> b /\ a = 0,
                  tl |-> n, length |-> 0]
  BY Zenon DEF TlvOf
<1>3. n \in Nat /\ (b /\ a = 0) \in BOOLEAN
  BY <1>1
<1> HIDE DEF n
<1> QED
  BY <1>1, <1>2, <1>3 DEF Unit

(* write_start() leaves the writers right, and the tag open. *)
LEMMA WriteStartSound ==
  ASSUME NEW q, Sound(q), NEW tlv \in Unit
  PROVE  /\ Sound(WriteStart(q, tlv))
         /\ WriteStart(q, tlv).tlvs = Append(q.tlvs, tlv)
         /\ WriteStart(q, tlv).tlvs # << >>
<1>1. /\ Sound(WriteStart(q, tlv))
      /\ WriteStart(q, tlv).tlvs = Append(q.tlvs, tlv)
  <2>1. CASE tlv.shape = "constructed"
    BY <2>1, OpenTagSound, Zenon DEF WriteStart
  <2>2. CASE tlv.shape # "constructed"
    BY <2>2, PrimitiveOpens, Zenon DEF WriteStart
  <2> QED
    BY <2>1, <2>2
<1>2. q.tlvs \in Seq(Unit)
  BY SoundParts
<1>3. Append(q.tlvs, tlv) # << >>
  BY <1>2
<1> QED
  BY <1>1, <1>3

(* write_end() leaves them right. *)
LEMMA WriteEndSound ==
  ASSUME NEW q, Sound(q), q.tlvs # << >>, NEW n \in Nat
  PROVE  Sound(WriteEnd(q, n))
<1> DEFINE last == Last(q.tlvs)
           o    == SetTl(last, MinimalTl(n))
           tlv  == SetLength(o, n)
<1>1. last \in Unit
  BY SoundParts, FrontAndLast
<1>2. o \in Unit /\ tlv \in Unit
  <2>1. MinimalTl(n) \in Nat
    BY MinimalTlNat
  <2> HIDE DEF last
  <2>2. o \in Unit
    BY <1>1, <2>1, HeaderChanges
  <2> HIDE DEF o
  <2> QED
    BY <2>2, HeaderChanges
<1>3. tlv.shape = last.shape
  <2> HIDE DEF last
  <2> DEFINE m == MinimalTl(n)
  <2> HIDE DEF m
  <2>1. SetTl(last, m).shape = last.shape
    BY <1>1 DEF SetTl, Unit
  <2>2. tlv.shape = o.shape
    <3> HIDE DEF o
    <3> QED
      BY <1>2 DEF SetLength, Unit
  <2> QED
    BY <2>1, <2>2 DEF m
<1>4. WriteEnd(q, n) =
        IF tlv.shape = "constructed" THEN CloseTag(q)
        ELSE [q EXCEPT !.tlvs = Front(@), !.writers = WriteTo(@, q.top, tlv)]
  BY Zenon DEF WriteEnd, SetTl, SetLength
<1> HIDE DEF tlv
<1>5. CASE last.shape = "constructed"
  BY <1>3, <1>4, <1>5, CloseTagSound
<1>6. CASE last.shape # "constructed"
  <2> DEFINE r == [q EXCEPT !.tlvs = Front(@), !.writers = WriteTo(@, q.top, tlv)]
  <2>1. Sound(r)
    BY <1>2, <1>6, PrimitiveEnds
  <2>2. WriteEnd(q, n) = r
    BY <1>3, <1>4, <1>6
  <2> HIDE DEF r
  <2> QED
    BY <2>1, <2>2
<1> QED
  BY <1>5, <1>6

PcType == {"open", "close", "tag", "none", "failed", "done"}

(* The inductive invariant, with the document that the tags come from *)
Facts ==
  /\ ReaderFacts /\ doc \in Seq(TokenType) /\ Len(tags) = Len(doc)
  /\ pc \in PcType /\ Sound(x)

(* A tag of a document is converted, or refused. *)
LEMMA TagConverted ==
  ASSUME Facts, NEW t,
         Declaration(t) \/ Comment(t) \/ StartTag(t) \/ EndTag(t)
  PROVE  Sound(x)' /\ pc' \in PcType /\ UNCHANGED <<doc, tags>>
<1>1. pc = "tag" /\ t = doc[nth] /\ (Continue \/ Throw)
  BY Zenon DEF Declaration, Comment, StartTag, EndTag, Got
<1>2. pc' \in PcType /\ UNCHANGED <<doc, tags>>
  BY <1>1 DEF Continue, Throw, PcType
<1>3. nth \in 1 .. Len(doc)
  BY <1>1, ReaderParts DEF Facts, ReaderFacts, Tracked
<1>4. t \in TokenType
  BY <1>1, <1>3 DEF Facts
<1>5. Sound(x)
  BY DEF Facts
<1>6. CASE x' = x
  BY <1>2, <1>5, <1>6 DEF Sound
<1>7. CASE StartTag(t)
  <2> DEFINE start == WriteStart(x, TlvOf(t))
  <2>1. Sound(start) /\ start.tlvs # << >>
    BY <1>4, <1>5, TlvTyped, WriteStartSound, Zenon
  <2>2. x' = IF t.kind = "empty" THEN WriteEnd(start, 0) ELSE start
    BY <1>7, Zenon DEF StartTag
  <2> HIDE DEF start
  <2>3. 0 \in Nat
    OBVIOUS
  <2>4. Sound(WriteEnd(start, 0))
    BY <2>1, <2>3, WriteEndSound, Zenon
  <2>5. Sound(x')
    BY <2>1, <2>2, <2>4
  <2> QED
    BY <1>2, <2>5 DEF Sound
<1>8. CASE EndTag(t) /\ x' # x
  <2> DEFINE n == Value[2] - Value[1]
  <2>1. x.tlvs # << >> /\ x' = WriteEnd(x, n)
    BY <1>8, Zenon DEF EndTag, Throw
  <2>2. n \in Nat
    <3>1. k.low <= k.first - 1
      BY <1>1 DEF Facts, ReaderFacts, Tracked, TagTrue
    <3>2. k.low \in Nat /\ k.first \in Nat /\ w.at \in Nat
      BY ReaderParts DEF Facts
    <3>3. n = (w.at + k.first - 1) - (w.at + k.low)
      BY DEF Value
    <3> HIDE DEF n
    <3> QED
      BY <3>1, <3>2, <3>3
  <2> HIDE DEF n
  <2>3. Sound(x')
    BY <1>5, <2>1, <2>2, WriteEndSound
  <2> QED
    BY <1>2, <2>3 DEF Sound
<1>9. x' = x \/ StartTag(t) \/ (EndTag(t) /\ x' # x)
  BY Zenon DEF Declaration, Comment, Throw
<1> QED
  BY <1>2, <1>6, <1>7, <1>8, <1>9

(* Every step of the converter *)
LEMMA StepSound ==
  ASSUME Facts, Step \/ (Ended /\ UNCHANGED vars)
  PROVE  Facts'
<1>1. ReaderFacts'
  BY StepFacts DEF Facts
<1>2. UNCHANGED <<doc, tags>> /\ pc' \in PcType /\ Sound(x)'
  <2>1. CASE ReaderNext /\ UNCHANGED <<forest, doc, x>>
    <3>1. UNCHANGED tags /\ pc' \in PcType
      BY <2>1 DEF ReaderNext, OpenFound, OpenRefill, OpenEnd, CloseFound,
                  CloseRefill, CloseEnd, Refill, PcType
    <3> QED
      BY <2>1, <3>1 DEF Facts, Sound
  <2>2. ASSUME NEW t, Declaration(t) \/ Comment(t) \/ StartTag(t) \/ EndTag(t)
        PROVE  UNCHANGED <<doc, tags>> /\ pc' \in PcType /\ Sound(x)'
    BY <2>2, TagConverted
  <2>3. CASE Finish
    BY <2>3 DEF Finish, PcType, Facts, Sound
  <2>4. CASE UNCHANGED vars
    BY <2>4 DEF vars, readerVars, Facts, Sound
  <2> QED
    BY <2>1, <2>2, <2>3, <2>4 DEF Step
<1> QED
  BY <1>1, <1>2 DEF Facts

(* What is open has a writer, its positions count what is in it, and the   *)
(* offsets of the reader are around the next tag: in every state, for      *)
(* every forest, document and source (xml2ber.cc:200-330, xml.cc:48-80).   *)
THEOREM ConverterSound == Spec => []IInv
<1>1. Init => Facts
  <2> SUFFICES ASSUME Init PROVE Facts
    OBVIOUS
  <2>1. ReaderFacts /\ doc \in Seq(TokenType) /\ Len(tags) = Len(doc)
    BY InitFacts
  <2>2. x = NewWriters /\ pc = "open"
    BY DEF Init, ReaderInit
  <2> QED
    BY <2>1, <2>2, NewSound DEF Facts, PcType
<1>2. Facts /\ [Step \/ (Ended /\ UNCHANGED vars)]_vars => Facts'
  <2> SUFFICES ASSUME Facts, [Step \/ (Ended /\ UNCHANGED vars)]_vars
               PROVE  Facts'
    OBVIOUS
  <2>1. CASE UNCHANGED vars
    <3>1. ReaderFacts'
      BY <2>1, PauseTracks DEF vars, readerVars, Facts
    <3> QED
      BY <2>1, <3>1 DEF vars, readerVars, Facts, Sound
  <2> QED
    BY <2>1, StepSound
<1>3. Facts => IInv
  <2> SUFFICES ASSUME Facts PROVE IInv
    OBVIOUS
  <2>1. /\ k \in [first : Nat, second : Nat, low : Nat] /\ old \in Nat
        /\ nth \in 0 .. Len(tags) /\ Tracked
    BY Zenon DEF Facts, ReaderFacts, Offsets
  <2>2. x \in WritersType /\ WritersMatch(x)
    BY Zenon DEF Facts, Sound
  <2> QED
    BY <2>1, <2>2, Zenon DEF IInv, Inv, TypeOK, Facts, PcType
<1> QED
  BY <1>1, <1>2, <1>3, PTL DEF Spec

(***************************************************************************)
(* Unbalanced documents                                                    *)
(***************************************************************************)
(* eof() is true only if the window has got to the end; without a backend  *)
(* it is there from the beginning.                                         *)
AllShown(q) == q.eof \/ q.backend = "none" => q.at + q.avail = q.size

(* forget() *)
LEMMA DropEnds ==
  ASSUME NEW q, IsWindow(q), AllShown(q), NEW n \in Nat, n <= q.avail
  PROVE  AllShown(Drop(q, n))
<1> DEFINE p == Drop(q, n)
<1>1. p = [q EXCEPT !.at = @ + n, !.avail = @ - n]
  BY Zenon DEF Drop
<1>2. p.eof = q.eof /\ p.backend = q.backend
  BY <1>1 DEF IsWindow, WindowType
<1>3. /\ p.at = q.at + n /\ p.avail = q.avail - n /\ p.size = q.size
      /\ q.at \in Nat /\ q.avail \in Nat /\ q.size \in Nat
  BY DropMoves DEF IsWindow, WindowType
<1> HIDE DEF p
<1>4. AllShown(p)
  BY <1>2, <1>3 DEF AllShown
<1> QED
  BY <1>4 DEF p

(* next() *)
LEMMA MoreEnds ==
  ASSUME NEW q, IsWindow(q), AllShown(q), NEW want \in Nat
  PROVE  AllShown(More(q, want))
<1> DEFINE rest == q.size - q.at
           room == (((want - q.avail + Inc - 1) % Word) \div Inc) * Inc
<1>1. /\ q \in WindowType /\ q.at \in Nat /\ q.avail \in Nat /\ q.size \in Nat
  BY DEF IsWindow, WindowType
<1>2. CASE q.backend = "none"
  <2>1. More(q, want) = [q EXCEPT !.eof = TRUE]
    BY <1>2, Zenon DEF More
  <2> QED
    BY <1>1, <1>2, <2>1 DEF AllShown, WindowType
<1>3. CASE q.backend # "none" /\ ~(q.avail < want /\ ~q.eof)
  <2>1. More(q, want) = q
    BY <1>3, Zenon DEF More
  <2> QED
    BY <2>1
<1>4. CASE q.backend # "none" /\ q.avail < want /\ ~q.eof
  <2>1. More(q, want) = Extend(q, want)
    BY <1>4, Zenon DEF More
  <2>2. \/ Extend(q, want) = [q EXCEPT !.avail = rest, !.eof = TRUE]
        \/ Extend(q, want) = [q EXCEPT !.avail = @ + room]
    BY Zenon DEF Extend
  <2> HIDE DEF room
  <2>3. ASSUME NEW p, p = [q EXCEPT !.avail = rest, !.eof = TRUE] PROVE AllShown(p)
    <3>1. p.at = q.at /\ p.avail = rest /\ p.size = q.size
      BY <1>1, <2>3 DEF WindowType
    <3> QED
      BY <1>1, <3>1 DEF AllShown
  <2>4. ASSUME NEW p, p = [q EXCEPT !.avail = @ + room] PROVE AllShown(p)
    <3>1. p.eof = q.eof /\ p.backend = q.backend
      BY <1>1, <2>4 DEF WindowType
    <3> QED
      BY <1>4, <3>1 DEF AllShown
  <2> QED
    BY <2>1, <2>2, <2>3, <2>4
<1> QED
  BY <1>2, <1>3, <1>4

(* What was read of a file is there, and a tag that was not found is not.  *)
EndFacts ==
  /\ AllShown(w)
  /\ TextFrom(nth) <= w.size
  /\ pc = "close" => tags[nth + 1].open < w.size
  /\ pc = "none" => nth = Len(tags) \/ tags[nth + 1].open >= w.size

(* The window goes on. *)
LEMMA RefillEnds ==
  ASSUME ReaderFacts, EndFacts, NEW from \in Nat, Refill(from), pc \in {"open", "close"}
  PROVE  EndFacts'
<1>1. IsWindow(w) /\ AllShown(w) /\ k.low \in Nat /\ ReaderInc \in Nat
  BY ReaderParts, XmlReaderAssumption DEF ReaderFacts, EndFacts
<1>2. k.low <= w.avail
  BY ReaderParts, SMTT(40) DEF ReaderFacts, Tracked
<1> DEFINE q == Drop(w, k.low)
           p == More(q, ReaderInc)
<1>3. IsWindow(q) /\ AllShown(q) /\ q.size = w.size
  BY <1>1, <1>2, DropMoves, DropEnds
<1> HIDE DEF q
<1>4. AllShown(p) /\ p.size = w.size
  BY <1>1, <1>3, MoreEnds, MoreKeeps
<1>5. w' = p /\ UNCHANGED <<tags, nth, pc>>
  BY Zenon DEF Refill, p, q
<1> HIDE DEF p
<1>6. TextFrom(nth)' = TextFrom(nth) /\ w'.size = w.size /\ AllShown(w)'
  BY <1>4, <1>5 DEF TextFrom, AllShown
<1> QED
  BY <1>5, <1>6 DEF EndFacts

(* A '<' is found. *)
LEMMA OpenFoundEnds ==
  ASSUME ReaderFacts, EndFacts, OpenFound
  PROVE  EndFacts'
<1> DEFINE a == w.at + k.second
           b == w.at + w.avail - 1
           o == tags[nth + 1].open
<1>1. /\ w.at \in Nat /\ w.avail \in Nat /\ w.size \in Nat /\ k.second \in Nat
      /\ nth \in 0 .. Len(tags) /\ Len(tags) \in Nat
      /\ marks.lefts = LeftsOf /\ InOrder
  BY ReaderParts DEF ReaderFacts
<1>2. a = TextFrom(nth) /\ w.at + w.avail <= w.size
  <2>1. pc = "open" /\ Tracked
    BY Zenon DEF OpenFound, ReaderFacts
  <2>2. /\ w.at + w.avail <= w.size
        /\ pc = "open" => w.at + k.second = TextFrom(nth)
    BY <2>1 DEF Tracked
  <2> QED
    BY <2>1, <2>2
<1>3. marks.lefts \cap (a .. b) # {}
  BY Zenon DEF OpenFound, Lefts, InWindow
<1>4. a \in Nat /\ b \in Int /\ b < w.size
  <2> DEFINE at   == w.at
             sec  == k.second
             more == w.avail
             size == w.size
  <2>1. /\ at \in Nat /\ sec \in Nat /\ more \in Nat /\ size \in Nat
        /\ at + more <= size /\ a = at + sec /\ b = at + more - 1
    BY <1>1, <1>2
  <2> HIDE DEF at, sec, more, size, a, b
  <2>2. a \in Nat /\ b \in Int /\ b < size
    BY <2>1
  <2> QED
    BY <2>2 DEF size
<1> HIDE DEF a, b, o
<1>5. nth < Len(tags) /\ o <= b
  BY <1>1, <1>2, <1>3, <1>4, NextLeft, Zenon DEF o
<1>6. o \in Nat
  <2>1. nth + 1 \in 1 .. Len(tags)
    BY <1>1, <1>5
  <2> QED
    BY <2>1, <1>1, TagsGrow DEF o
<1>7. o < w.size
  BY <1>1, <1>4, <1>5, <1>6
<1>8. w' = w /\ tags' = tags /\ nth' = nth /\ pc' = "close"
  BY DEF OpenFound
<1> QED
  BY <1>7, <1>8 DEF EndFacts, AllShown, TextFrom, o

(* No '<' is found up to the end. *)
LEMMA OpenEndEnds ==
  ASSUME ReaderFacts, EndFacts, OpenEnd
  PROVE  EndFacts'
<1> DEFINE a == w.at + k.second
           b == w.at + w.avail - 1
           o == tags[nth + 1].open
<1>1. /\ w.at \in Nat /\ w.avail \in Nat /\ w.size \in Nat /\ k.second \in Nat
      /\ nth \in 0 .. Len(tags) /\ Len(tags) \in Nat
      /\ marks.lefts = LeftsOf /\ InOrder
  BY ReaderParts DEF ReaderFacts
<1>2. a = TextFrom(nth) /\ w.at + w.avail = w.size
  BY DEF OpenEnd, ReaderFacts, Tracked, EndFacts, AllShown
<1>3. marks.lefts \cap (a .. b) = {}
  BY Zenon DEF OpenEnd, Lefts, InWindow
<1>4. a \in Nat /\ b = w.size - 1
  BY <1>1, <1>2
<1> HIDE DEF a, b, o
<1>5. ASSUME nth # Len(tags) PROVE o >= w.size
  <2>1. nth + 1 \in 1 .. Len(tags) /\ (nth + 1) - 1 = nth
    BY <1>1, <1>5
  <2>2. o \in marks.lefts
    BY <1>1, <2>1 DEF LeftsOf, ToSet, InOrder, o
  <2>3. o \in Nat /\ a <= o
    <3>1. TextFrom((nth + 1) - 1) <= tags[nth + 1].open /\ tags[nth + 1].open \in Nat
      BY <1>1, <2>1, TagsGrow
    <3> QED
      BY <3>1, <2>1, <1>2 DEF o
  <2>4. o \notin a .. b
    BY <1>3, <2>2
  <2> QED
    BY <1>1, <1>4, <2>3, <2>4
<1>6. w' = w /\ tags' = tags /\ nth' = nth /\ pc' = "none"
  BY DEF OpenEnd
<1> QED
  BY <1>5, <1>6 DEF EndFacts, AllShown, TextFrom, o

(* A '>' is found. *)
LEMMA CloseFoundEnds ==
  ASSUME ReaderFacts, EndFacts, CloseFound
  PROVE  EndFacts'
<1>1. ReaderFacts'
  BY CloseFoundTracks
<1>2. /\ w' = w /\ tags' = tags /\ nth' = nth + 1 /\ pc' = "tag"
      /\ nth \in Nat
  BY ReaderParts DEF CloseFound
<1> DEFINE s == k'.second
           c == tags'[nth'].close
<1>3. nth' > 0 /\ w'.at + s - 1 = c /\ s <= w'.avail
  BY <1>1, <1>2 DEF ReaderFacts, Tracked, TagTrue, Tag
<1>4. /\ w'.at \in Nat /\ w'.avail \in Nat /\ w'.size \in Nat /\ s \in Nat
      /\ w'.at + w'.avail <= w'.size /\ nth' \in 0 .. Len(tags')
  BY <1>1 DEF ReaderFacts, IsWindow, WindowType, Offsets
<1>5. TextFrom(nth)' = c + 1
  BY <1>2 DEF TextFrom
<1> HIDE DEF s, c
<1>6. TextFrom(nth)' <= w'.size
  BY <1>3, <1>4, <1>5
<1> QED
  BY <1>2, <1>6 DEF EndFacts, AllShown

(* The reader waits. *)
LEMMA PauseEnds ==
  ASSUME EndFacts, UNCHANGED <<w, tags, nth>>,
         pc' \in {"open", "failed", "done"} \/ pc' = pc
  PROVE  EndFacts'
<1>1. TextFrom(nth)' = TextFrom(nth)
  BY DEF TextFrom
<1> QED
  BY <1>1 DEF EndFacts, AllShown

(***************************************************************************)
(* Tags that are open                                                      *)
(***************************************************************************)
Among(n, kind) == {m \in 1 .. n : doc[m].kind = kind}

(* Tags are counted. *)
LEMMA AmongCounted ==
  ASSUME NEW kind
  PROVE  /\ Cardinality(Among(0, kind)) = 0
         /\ \A n \in Nat :
              /\ Cardinality(Among(n, kind)) \in Nat
              /\ Cardinality(Among(n + 1, kind)) =
                   Cardinality(Among(n, kind)) + (IF doc[n + 1].kind = kind THEN 1 ELSE 0)
<1>1. Cardinality(Among(0, kind)) = 0
  <2>1. Among(0, kind) = {}
    BY DEF Among
  <2> QED
    BY <2>1, FS_EmptySet
<1>2. ASSUME NEW n \in Nat
      PROVE  /\ Cardinality(Among(n, kind)) \in Nat
             /\ Cardinality(Among(n + 1, kind)) =
                  Cardinality(Among(n, kind)) + (IF doc[n + 1].kind = kind THEN 1 ELSE 0)
  <2> DEFINE A == Among(n, kind)
  <2>1. IsFiniteSet(A)
    <3>1. IsFiniteSet(1 .. n)
      BY FS_Interval
    <3>2. A \subseteq 1 .. n
      BY DEF Among
    <3> QED
      BY <3>1, <3>2, FS_Subset
  <2>2. Cardinality(A) \in Nat
    BY <2>1, FS_CardinalityType
  <2>3. CASE doc[n + 1].kind = kind
    <3>1. Among(n + 1, kind) = A \cup {n + 1} /\ n + 1 \notin A
      BY <2>3 DEF Among
    <3>2. Cardinality(A \cup {n + 1}) = Cardinality(A) + 1
      BY <2>1, <3>1, FS_AddElement
    <3> QED
      BY <2>2, <2>3, <3>1, <3>2
  <2>4. CASE doc[n + 1].kind # kind
    <3>1. Among(n + 1, kind) = A
      BY <2>4 DEF Among
    <3> QED
      BY <2>2, <2>4, <3>1
  <2> QED
    BY <2>2, <2>3, <2>4
<1> QED
  BY <1>1, <1>2

(* A start tag is one more, an end tag one less. *)
LEMMA OpenCounted ==
  /\ OpenAfter(0) = 0
  /\ \A n \in Nat :
       /\ OpenAfter(n) \in Int
       /\ doc[n + 1].kind = "start" => OpenAfter(n + 1) = OpenAfter(n) + 1
       /\ doc[n + 1].kind = "end" => OpenAfter(n + 1) = OpenAfter(n) - 1
       /\ doc[n + 1].kind \notin {"start", "end"} => OpenAfter(n + 1) = OpenAfter(n)
<1> DEFINE s(n) == Cardinality(Among(n, "start"))
           e(n) == Cardinality(Among(n, "end"))
<1>1. \A n : OpenAfter(n) = s(n) - e(n)
  BY DEF OpenAfter, Among
<1>2. /\ s(0) = 0 /\ e(0) = 0
      /\ \A n \in Nat :
           /\ s(n) \in Nat /\ e(n) \in Nat
           /\ s(n + 1) = s(n) + (IF doc[n + 1].kind = "start" THEN 1 ELSE 0)
           /\ e(n + 1) = e(n) + (IF doc[n + 1].kind = "end" THEN 1 ELSE 0)
  BY AmongCounted
<1> HIDE DEF s, e
<1> QED
  BY <1>1, <1>2

(* The tags that end before the file does *)
ReadTags == {n \in 1 .. Len(tags) : tags[n].close < w.size}

LEMMA ReadIs ==
  ASSUME ReaderFacts, NEW m \in 0 .. Len(tags), TextFrom(m) <= w.size
  PROVE  /\ Cardinality(ReadTags) \in Nat /\ m <= Cardinality(ReadTags)
         /\ m = Len(tags) \/ tags[m + 1].close >= w.size =>
              /\ Cardinality(ReadTags) = m
              /\ \A n \in 1 .. Len(tags) : n > m => tags[n].close >= w.size
<1>1. InOrder /\ w.size \in Nat /\ Len(tags) \in Nat /\ m \in Nat /\ m <= Len(tags)
  BY ReaderParts DEF ReaderFacts
<1>2. /\ \A n \in 0 .. Len(tags) : TextFrom(n) \in Nat
      /\ \A n \in 1 .. Len(tags) : tags[n].close \in Nat /\ TextFrom(n) = tags[n].close + 1
      /\ \A n, l \in 0 .. Len(tags) : n <= l => TextFrom(n) <= TextFrom(l)
  BY <1>1, TagsGrow
<1>3. ASSUME NEW n \in 1 .. m PROVE n \in ReadTags
  <2>1. n \in 1 .. Len(tags) /\ n \in 0 .. Len(tags) /\ n <= m
    BY <1>1
  <2>2. TextFrom(n) <= TextFrom(m) /\ TextFrom(n) = tags[n].close + 1
    BY <1>2, <2>1
  <2>3. tags[n].close < w.size
    BY <1>1, <1>2, <2>1, <2>2
  <2> QED
    BY <2>1, <2>3 DEF ReadTags
<1>4. IsFiniteSet(ReadTags)
  <2>1. IsFiniteSet(1 .. Len(tags))
    BY <1>1, FS_Interval
  <2>2. ReadTags \subseteq 1 .. Len(tags)
    BY DEF ReadTags
  <2> QED
    BY <2>1, <2>2, FS_Subset
<1>5. Cardinality(1 .. m) = m
  BY <1>1, FS_Interval
<1>6. Cardinality(ReadTags) \in Nat /\ m <= Cardinality(ReadTags)
  <2>1. 1 .. m \subseteq ReadTags
    BY <1>3
  <2>2. Cardinality(1 .. m) <= Cardinality(ReadTags)
    BY <1>4, <2>1, FS_Subset
  <2> QED
    BY <1>4, <1>5, <2>2, FS_CardinalityType
<1>7. ASSUME m = Len(tags) \/ tags[m + 1].close >= w.size
      PROVE  /\ Cardinality(ReadTags) = m
             /\ \A n \in 1 .. Len(tags) : n > m => tags[n].close >= w.size
  <2>1. ASSUME NEW n \in 1 .. Len(tags), n > m PROVE tags[n].close >= w.size
    <3>1. m + 1 \in 1 .. Len(tags) /\ m + 1 \in 0 .. Len(tags)
          /\ n \in 0 .. Len(tags) /\ m + 1 <= n /\ m # Len(tags)
      BY <1>1, <2>1
    <3>2. TextFrom(m + 1) <= TextFrom(n)
      BY <1>2, <3>1
    <3>3. /\ TextFrom(m + 1) = tags[m + 1].close + 1 /\ TextFrom(n) = tags[n].close + 1
          /\ tags[m + 1].close \in Nat /\ tags[n].close \in Nat
      BY <1>2, <3>1
    <3>4. tags[m + 1].close >= w.size
      BY <1>7, <3>1
    <3> QED
      BY <1>1, <3>2, <3>3, <3>4
  <2>2. ReadTags = 1 .. m
    <3>1. ASSUME NEW n \in ReadTags PROVE n \in 1 .. m
      <4>1. n \in 1 .. Len(tags) /\ tags[n].close < w.size /\ tags[n].close \in Nat
        BY <1>2 DEF ReadTags
      <4>2. ~(n > m)
        BY <1>1, <2>1, <4>1
      <4> QED
        BY <1>1, <4>1, <4>2
    <3> QED
      BY <1>3, <3>1
  <2> QED
    BY <1>5, <2>1, <2>2
<1> QED
  BY <1>6, <1>7

(* The file and the document stay the same. *)
LEMMA NestStays ==
  ASSUME UNCHANGED <<doc, tags>>, w'.size = w.size
  PROVE  (WellNested' <=> WellNested) /\ \A n : OpenAfter(n)' = OpenAfter(n)
<1>1. \A n : OpenAfter(n)' = OpenAfter(n)
  BY DEF OpenAfter
<1>2. ReadTags' = ReadTags
  BY DEF ReadTags
<1>3. WellNested <=>
        /\ \A n \in 0 .. Cardinality(ReadTags) : OpenAfter(n) >= 0
        /\ OpenAfter(Cardinality(ReadTags)) = 0
        /\ \A n \in 1 .. Len(tags) : ~(tags[n].open < w.size /\ w.size <= tags[n].close)
        /\ \A n \in 2 .. Cardinality(ReadTags) : doc[n].kind # "decl"
  BY Zenon DEF WellNested, ReadTags
<1>4. WellNested' <=>
        /\ \A n \in 0 .. Cardinality(ReadTags') : OpenAfter(n)' >= 0
        /\ OpenAfter(Cardinality(ReadTags))' = 0
        /\ \A n \in 1 .. Len(tags') : ~(tags'[n].open < w'.size /\ w'.size <= tags'[n].close)
        /\ \A n \in 2 .. Cardinality(ReadTags') : doc'[n].kind # "decl"
  BY Zenon DEF WellNested, ReadTags
<1>5. OpenAfter(Cardinality(ReadTags))' = OpenAfter(Cardinality(ReadTags))
  BY <1>2 DEF OpenAfter
<1> QED
  BY <1>1, <1>2, <1>3, <1>4, <1>5

(* What makes a document one that is not well-nested, or is *)
LEMMA NestIs ==
  ASSUME ReaderFacts, TextFrom(nth) <= w.size
  PROVE  /\ OpenAfter(nth) < 0 => ~WellNested
         /\ nth > 1 /\ doc[nth].kind = "decl" => ~WellNested
         /\ nth < Len(tags) /\ tags[nth + 1].open < w.size
              /\ tags[nth + 1].close >= w.size => ~WellNested
         /\ /\ nth = Len(tags) \/ tags[nth + 1].open >= w.size
            /\ \A n \in 0 .. nth : OpenAfter(n) >= 0
            /\ \A n \in 2 .. nth : doc[n].kind # "decl"
            => (WellNested <=> OpenAfter(nth) = 0)
<1> DEFINE r == Cardinality(ReadTags)
<1>1. nth \in 0 .. Len(tags) /\ Len(tags) \in Nat /\ w.size \in Nat /\ InOrder
  BY ReaderParts DEF ReaderFacts
<1>2. WellNested <=>
        /\ \A n \in 0 .. r : OpenAfter(n) >= 0
        /\ OpenAfter(r) = 0
        /\ \A n \in 1 .. Len(tags) : ~(tags[n].open < w.size /\ w.size <= tags[n].close)
        /\ \A n \in 2 .. r : doc[n].kind # "decl"
  BY Zenon DEF WellNested, ReadTags
<1>3. /\ r \in Nat /\ nth <= r
      /\ nth = Len(tags) \/ tags[nth + 1].close >= w.size =>
           r = nth /\ \A n \in 1 .. Len(tags) : n > nth => tags[n].close >= w.size
  BY <1>1, ReadIs
<1> HIDE DEF r
<1>4. \A n \in 1 .. Len(tags) :
        /\ tags[n].open \in Nat /\ tags[n].close \in Nat /\ tags[n].open + 2 <= tags[n].close
        /\ TextFrom(n) = tags[n].close + 1
  BY <1>1, TagsGrow
<1>5. OpenAfter(nth) \in Int
  BY <1>1, OpenCounted
<1>6. ASSUME OpenAfter(nth) < 0 PROVE ~WellNested
  <2>1. nth \in 0 .. r
    BY <1>1, <1>3
  <2> QED
    BY <1>2, <1>5, <1>6, <2>1
<1>7. ASSUME nth > 1, doc[nth].kind = "decl" PROVE ~WellNested
  <2>1. nth \in 2 .. r
    BY <1>1, <1>3, <1>7
  <2> QED
    BY <1>2, <1>7, <2>1
<1>8. ASSUME nth < Len(tags), tags[nth + 1].open < w.size, tags[nth + 1].close >= w.size
      PROVE  ~WellNested
  <2>1. nth + 1 \in 1 .. Len(tags)
    BY <1>1, <1>8
  <2> QED
    BY <1>1, <1>2, <1>4, <1>8, <2>1
<1>9. ASSUME nth = Len(tags) \/ tags[nth + 1].open >= w.size,
             \A n \in 0 .. nth : OpenAfter(n) >= 0,
             \A n \in 2 .. nth : doc[n].kind # "decl"
      PROVE  WellNested <=> OpenAfter(nth) = 0
  <2>1. nth = Len(tags) \/ tags[nth + 1].close >= w.size
    <3> SUFFICES ASSUME nth # Len(tags) PROVE tags[nth + 1].close >= w.size
      OBVIOUS
    <3>1. nth + 1 \in 1 .. Len(tags)
      BY <1>1
    <3> QED
      BY <1>1, <1>4, <1>9, <3>1
  <2>2. r = nth
    BY <1>3, <2>1
  <2>3. ASSUME NEW n \in 1 .. Len(tags)
        PROVE  ~(tags[n].open < w.size /\ w.size <= tags[n].close)
    <3>1. CASE n > nth
      <4>1. nth # Len(tags) /\ nth + 1 \in 1 .. Len(tags) /\ nth + 1 <= n
            /\ (nth + 1) - 1 = nth /\ n - 1 \in 0 .. Len(tags) /\ nth <= n - 1
        BY <1>1, <3>1
      <4>2. tags[nth + 1].open >= w.size
        BY <1>9, <4>1
      <4>3. tags[n].open >= tags[nth + 1].open
        <5>1. CASE n = nth + 1
          BY <1>4, <4>1, <5>1
        <5>2. CASE n # nth + 1
          <6>1. nth + 1 <= n - 1 /\ nth + 1 \in 0 .. Len(tags)
            BY <1>1, <4>1, <5>2
          <6>2. TextFrom(nth + 1) <= TextFrom(n - 1) /\ TextFrom(n - 1) <= tags[n].open
            BY <1>1, <4>1, <6>1, TagsGrow
          <6>3. TextFrom(nth + 1) = tags[nth + 1].close + 1
            BY <1>4, <4>1
          <6>4. TextFrom(n - 1) \in Nat
            BY <1>1, <4>1, TagsGrow
          <6>5. tags[nth + 1].open <= tags[nth + 1].close
                /\ tags[nth + 1].open \in Nat /\ tags[nth + 1].close \in Nat
                /\ tags[n].open \in Nat
            BY <1>4, <4>1
          <6> DEFINE a == tags[nth + 1].open
                     b == tags[nth + 1].close
                     c == TextFrom(n - 1)
                     d == tags[n].open
          <6>6. /\ a \in Nat /\ b \in Nat /\ c \in Nat /\ d \in Nat
                /\ a <= b /\ b + 1 <= c /\ c <= d
            BY <6>2, <6>3, <6>4, <6>5
          <6> HIDE DEF a, b, c, d
          <6>7. d >= a
            BY <6>6
          <6> QED
            BY <6>7 DEF a, d
        <5> QED
          BY <5>1, <5>2
      <4> QED
        BY <1>1, <1>4, <4>1, <4>2, <4>3
    <3>2. CASE ~(n > nth)
      <4>1. n \in 0 .. Len(tags) /\ n <= nth
        BY <1>1, <3>2
      <4>2. TextFrom(n) <= TextFrom(nth) /\ TextFrom(nth) \in Nat
        BY <1>1, <4>1, TagsGrow
      <4> QED
        BY <1>1, <1>4, <4>2
    <3> QED
      BY <3>1, <3>2
  <2> QED
    BY <1>2, <1>9, <2>2, <2>3
<1> QED
  BY <1>6, <1>7, <1>8, <1>9

(* In front of a file *)
LEMMA InitEnds ==
  ASSUME Init
  PROVE  EndFacts
<1>1. ReaderFacts
  BY InitFacts
<1>2. \E n : SourceIs(n)
  BY Zenon DEF Init
<1>3. PICK n : \E b \in Backends : w = New(b, n)
  BY <1>2, Zenon DEF SourceIs
<1> PICK b \in Backends : w = New(b, n)
  BY <1>3
<1>4. w.at = 0 /\ w.avail = (IF b = "none" THEN n ELSE 0) /\ w.size = n
      /\ w.eof = FALSE /\ w.backend = b
  BY DEF New
<1>5. w.size \in Nat /\ nth = 0 /\ pc = "open"
  BY <1>1, ReaderParts DEF Init, ReaderInit
<1>6. AllShown(w)
  BY <1>4, <1>5 DEF AllShown
<1>7. TextFrom(nth) <= w.size
  BY <1>5 DEF TextFrom
<1> QED
  BY <1>5, <1>6, <1>7 DEF EndFacts

(* The reader's steps *)
LEMMA StepEnds ==
  ASSUME ReaderFacts, EndFacts, Step \/ UNCHANGED vars
  PROVE  EndFacts'
<1>1. CASE OpenFound
  BY <1>1, OpenFoundEnds
<1>2. CASE OpenRefill
  BY <1>2, ReaderParts, RefillEnds DEF OpenRefill
<1>3. CASE OpenEnd
  BY <1>3, OpenEndEnds
<1>4. CASE CloseFound
  BY <1>4, CloseFoundEnds
<1>5. CASE CloseRefill
  BY <1>5, ReaderParts, RefillEnds DEF CloseRefill
<1>6. CASE CloseEnd
  BY <1>6, PauseEnds DEF CloseEnd
<1>7. ASSUME NEW t, Declaration(t) \/ Comment(t) \/ StartTag(t) \/ EndTag(t)
      PROVE  EndFacts'
  <2>1. Continue \/ Throw
    BY <1>7, Zenon DEF Declaration, Comment, StartTag, EndTag
  <2> QED
    BY <2>1, PauseEnds DEF Continue, Throw
<1>8. CASE Finish
  BY <1>8, PauseEnds DEF Finish
<1>9. CASE UNCHANGED vars
  BY <1>9, PauseEnds DEF vars, readerVars
<1> QED
  BY <1>1, <1>2, <1>3, <1>4, <1>5, <1>6, <1>7, <1>8, <1>9
     DEF Step, ReaderNext

(* The file ends within a tag. *)
LEMMA EndsWithin ==
  ASSUME ReaderFacts, EndFacts, CloseEnd
  PROVE  ~WellNested
<1> DEFINE a == w.at + k.second
           b == w.at + w.avail - 1
           o == tags[nth + 1].open
           c == tags[nth + 1].close
<1>1. /\ w.at \in Nat /\ w.avail \in Nat /\ w.size \in Nat
      /\ k.first \in Nat /\ k.second \in Nat
      /\ nth \in 0 .. Len(tags) /\ Len(tags) \in Nat
      /\ marks.rights = RightsOf(w.size) /\ InOrder
  BY ReaderParts DEF ReaderFacts
<1>2. /\ nth < Len(tags) /\ w.at + k.first = o + 1 /\ k.second = k.first + 1
      /\ w.at + w.avail = w.size /\ o < w.size
  BY DEF CloseEnd, ReaderFacts, Tracked, EndFacts, AllShown
<1>3. marks.rights \cap (a .. b) = {}
  BY Zenon DEF CloseEnd, Rights, InWindow
<1>4. nth + 1 \in 1 .. Len(tags)
  BY <1>1, <1>2
<1>5. o \in Nat /\ c \in Nat /\ o + 2 <= c
  BY <1>1, <1>4, TagsGrow
<1>6. c \in marks.rights
  BY <1>1, <1>4 DEF ToSet, InOrder, RightsOf
<1>7. c \notin a .. b
  BY <1>3, <1>6, Zenon
<1>8. a = o + 2 /\ b = w.size - 1
  <2> DEFINE at == w.at
             f  == k.first
             s  == k.second
  <2>1. at \in Nat /\ f \in Nat /\ s \in Nat /\ at + f = o + 1 /\ s = f + 1
    BY <1>1, <1>2
  <2> HIDE DEF o
  <2>2. a = at + s /\ o \in Nat
    BY <1>5
  <2> HIDE DEF at, f, s, a
  <2>3. a = o + 2
    BY <2>1, <2>2
  <2>4. b = w.size - 1
    <3>1. w.at + w.avail = w.size
      BY <1>2
    <3> QED
      BY <1>1, <3>1
  <2> QED
    BY <2>3, <2>4
<1> HIDE DEF a, b, o, c
<1>9. c >= w.size
  BY <1>1, <1>5, <1>7, <1>8
<1>10. TextFrom(nth) <= w.size
  BY DEF EndFacts
<1> QED
  BY <1>2, <1>9, <1>10, NestIs DEF o, c

(* A tag that ends is not open any more. *)
LEMMA EndPops ==
  ASSUME NEW q, Sound(q), q.tlvs # << >>, NEW n \in Nat
  PROVE  WriteEnd(q, n).tlvs = Front(q.tlvs)
<1> DEFINE tlv == SetLength(SetTl(Last(q.tlvs), MinimalTl(n)), n)
           s == Front(q.tlvs)
<1>1. q = State(q.tlvs, q.writers, q.top)
  BY SoundParts
<1>2. WriteEnd(q, n) =
        IF tlv.shape = "constructed" THEN CloseTag(q)
        ELSE SetWriters(SetTlvs(q, s), WriteTo(q.writers, q.top, tlv))
  BY <1>1 DEF WriteEnd, SetTl, SetLength, SetTlvs, SetWriters, State
<1> HIDE DEF tlv
<1>3. CloseTag(q).tlvs = s
  BY <1>1 DEF CloseTag, State
<1> HIDE DEF s
<1>4. \A vs : SetWriters(SetTlvs(q, s), vs).tlvs = s
  BY <1>1, StateChanges
<1>5. WriteEnd(q, n).tlvs = s
  BY <1>2, <1>3, <1>4
<1> QED
  BY <1>5 DEF s

(* A tag of the writers is open for each element that is. *)
Handled == IF pc = "tag" THEN nth - 1 ELSE nth

Balanced(n, tlvs) ==
  /\ Len(tlvs) = OpenAfter(n)
  /\ \A m \in 0 .. n : OpenAfter(m) >= 0
  /\ \A m \in 2 .. n : doc[m].kind # "decl"

NestFacts ==
  /\ pc # "failed" => Balanced(Handled, x.tlvs)
  /\ RefusesUnbalanced

(* The document stays the same. *)
LEMMA NestedStays ==
  ASSUME UNCHANGED doc, NEW n, NEW s, Balanced(n, s), Handled' = n, x'.tlvs = s
  PROVE  Balanced(Handled, x.tlvs)'
<1>1. \A m : OpenAfter(m)' = OpenAfter(m)
  BY DEF OpenAfter
<1> QED
  BY <1>1 DEF Balanced

(* One more tag *)
LEMMA NestedGrows ==
  ASSUME NEW n \in Nat, NEW s, Balanced(n, s), NEW r, Len(r) \in Nat,
         doc[n + 1].kind = "decl" => n = 0,
         \/ doc[n + 1].kind = "start" /\ Len(r) = Len(s) + 1
         \/ doc[n + 1].kind = "end" /\ Len(r) = Len(s) - 1
         \/ doc[n + 1].kind \notin {"start", "end"} /\ Len(r) = Len(s)
  PROVE  Balanced(n + 1, r)
<1>1. /\ Len(s) = OpenAfter(n)
      /\ \A m \in 0 .. n : OpenAfter(m) >= 0
      /\ \A m \in 2 .. n : doc[m].kind # "decl"
  BY DEF Balanced
<1>2. Len(r) = OpenAfter(n + 1)
  BY <1>1, OpenCounted
<1>3. ASSUME NEW m \in 0 .. n + 1 PROVE OpenAfter(m) >= 0
  <2>1. m \in 0 .. n \/ m = n + 1
    OBVIOUS
  <2> QED
    BY <1>1, <1>2, <2>1
<1>4. ASSUME NEW m \in 2 .. n + 1 PROVE doc[m].kind # "decl"
  <2>1. m \in 2 .. n \/ (m = n + 1 /\ n # 0)
    OBVIOUS
  <2> QED
    BY <1>1, <2>1
<1> QED
  BY <1>2, <1>3, <1>4 DEF Balanced

(* A tag that opens or ends is one more or less. *)
LEMMA TagCounts ==
  ASSUME Facts, NEW t,
         Declaration(t) \/ Comment(t) \/ StartTag(t) \/ EndTag(t), Continue
  PROVE  /\ Len(x'.tlvs) \in Nat
         /\ t.kind = "decl" => nth = 1
         /\ \/ t.kind = "start" /\ Len(x'.tlvs) = Len(x.tlvs) + 1
            \/ t.kind = "end" /\ Len(x'.tlvs) = Len(x.tlvs) - 1
            \/ t.kind \notin {"start", "end"} /\ Len(x'.tlvs) = Len(x.tlvs)
<1>1. pc = "tag" /\ t = doc[nth] /\ pc' = "open"
  BY Zenon DEF Declaration, Comment, StartTag, EndTag, Got, Continue
<1>2. nth \in 1 .. Len(doc)
  BY <1>1, ReaderParts DEF Facts, ReaderFacts, Tracked
<1>3. t \in TokenType
  BY <1>1, <1>2 DEF Facts
<1>4. Sound(x) /\ x.tlvs \in Seq(Unit) /\ TlvOf(t) \in Unit
  BY <1>3, TlvTyped, SoundParts DEF Facts
<1>5. Len(x.tlvs) \in Nat
  BY <1>4
<1>6. CASE Declaration(t)
  BY <1>1, <1>5, <1>6 DEF Declaration, Throw
<1>7. CASE Comment(t)
  BY <1>1, <1>5, <1>7 DEF Comment
<1>8. CASE StartTag(t)
  <2> DEFINE start == WriteStart(x, TlvOf(t))
             s     == Append(x.tlvs, TlvOf(t))
  <2>1. Sound(start) /\ start.tlvs = s /\ start.tlvs # << >>
    BY <1>4, WriteStartSound, Zenon
  <2>2. /\ t.kind \in {"start", "empty"}
        /\ x' = IF t.kind = "empty" THEN WriteEnd(start, 0) ELSE start
    BY <1>8, Zenon DEF StartTag
  <2> HIDE DEF start
  <2>3. WriteEnd(start, 0).tlvs = Front(s)
    <3>1. 0 \in Nat
      OBVIOUS
    <3> QED
      BY <2>1, <3>1, EndPops
  <2>4. Len(s) = Len(x.tlvs) + 1 /\ Len(Front(s)) = Len(x.tlvs)
    BY <1>4 DEF Front
  <2> HIDE DEF s
  <2> QED
    BY <1>5, <2>1, <2>2, <2>3, <2>4
<1>9. CASE EndTag(t)
  <2> DEFINE n == Value[2] - Value[1]
  <2>1. t.kind = "end" /\ x.tlvs # << >> /\ x' = WriteEnd(x, n)
    BY <1>1, <1>9 DEF EndTag, Throw
  <2>2. n \in Nat
    <3>1. k.low <= k.first - 1
      BY <1>1 DEF Facts, ReaderFacts, Tracked, TagTrue
    <3>2. k.low \in Nat /\ k.first \in Nat /\ w.at \in Nat
      BY ReaderParts DEF Facts
    <3>3. n = (w.at + k.first - 1) - (w.at + k.low)
      BY DEF Value
    <3> HIDE DEF n
    <3> QED
      BY <3>1, <3>2, <3>3
  <2> HIDE DEF n
  <2>3. x'.tlvs = Front(x.tlvs)
    BY <1>4, <2>1, <2>2, EndPops
  <2>4. Len(Front(x.tlvs)) = Len(x.tlvs) - 1 /\ Len(x.tlvs) - 1 \in Nat
    BY <1>4, <2>1 DEF Front
  <2> QED
    BY <2>1, <2>3, <2>4
<1> QED
  BY <1>6, <1>7, <1>8, <1>9

(* A tag is handled. *)
LEMMA TagNests ==
  ASSUME Facts, EndFacts, NestFacts, NEW t,
         Declaration(t) \/ Comment(t) \/ StartTag(t) \/ EndTag(t)
  PROVE  NestFacts'
<1>1. pc = "tag" /\ t = doc[nth] /\ (Continue \/ Throw)
  BY Zenon DEF Declaration, Comment, StartTag, EndTag, Got
<1>2. nth \in Nat /\ nth - 1 \in Nat /\ (nth - 1) + 1 = nth
  BY <1>1, ReaderParts DEF Facts, ReaderFacts, Tracked
<1>3. Balanced(nth - 1, x.tlvs)
  BY <1>1 DEF NestFacts, Handled
<1>4. UNCHANGED <<w, tags, doc, nth>>
  BY <1>1 DEF Continue, Throw
<1>5. CASE Continue
  <2>1. Balanced(nth, x'.tlvs)
    <3> DEFINE n == nth - 1
               r == x'.tlvs
    <3>1. /\ Len(r) \in Nat /\ t.kind = "decl" => nth = 1
          /\ \/ t.kind = "start" /\ Len(r) = Len(x.tlvs) + 1
             \/ t.kind = "end" /\ Len(r) = Len(x.tlvs) - 1
             \/ t.kind \notin {"start", "end"} /\ Len(r) = Len(x.tlvs)
      BY <1>5, TagCounts
    <3>2. n \in Nat /\ n + 1 = nth /\ doc[n + 1] = t /\ (nth = 1 => n = 0)
      BY <1>1, <1>2
    <3>3. Balanced(n, x.tlvs)
      BY <1>3
    <3> HIDE DEF n, r
    <3>4. /\ Len(r) \in Nat /\ doc[n + 1].kind = "decl" => n = 0
          /\ \/ doc[n + 1].kind = "start" /\ Len(r) = Len(x.tlvs) + 1
             \/ doc[n + 1].kind = "end" /\ Len(r) = Len(x.tlvs) - 1
             \/ doc[n + 1].kind \notin {"start", "end"} /\ Len(r) = Len(x.tlvs)
      BY <3>1, <3>2, Zenon
    <3>5. Balanced(n + 1, r)
      BY <3>2, <3>3, <3>4, NestedGrows
    <3> QED
      BY <3>2, <3>5 DEF r
  <2>2. pc' = "open" /\ Handled' = nth
    BY <1>4, <1>5 DEF Continue, Handled
  <2>3. Balanced(Handled, x.tlvs)'
    BY <1>4, <2>1, <2>2, NestedStays
  <2> QED
    BY <2>2, <2>3 DEF NestFacts, RefusesUnbalanced, Ended
<1>6. CASE Throw
  <2>1. pc' = "failed" /\ w'.size = w.size
    BY <1>6 DEF Throw
  <2>2. ReaderFacts /\ TextFrom(nth) <= w.size
    BY DEF Facts, EndFacts
  <2>3. (t.kind = "decl" /\ nth # 1) \/ (t.kind = "end" /\ x.tlvs = << >>)
    BY <1>6, <2>1 DEF Declaration, Comment, StartTag, EndTag, Continue
  <2>4. ~WellNested
    <3>1. CASE t.kind = "decl" /\ nth # 1
      <4>1. nth > 1 /\ doc[nth].kind = "decl"
        BY <1>1, <1>2, <3>1
      <4> QED
        BY <2>2, <4>1, NestIs
    <3>2. CASE t.kind = "end" /\ x.tlvs = << >>
      <4>1. OpenAfter(nth - 1) = 0
        BY <1>3, <3>2 DEF Balanced
      <4>2. OpenAfter((nth - 1) + 1) = OpenAfter(nth - 1) - 1
        BY <1>1, <1>2, <3>2, OpenCounted
      <4>3. OpenAfter(nth) < 0
        BY <1>2, <4>1, <4>2
      <4> QED
        BY <2>2, <4>3, NestIs
    <3> QED
      BY <2>3, <3>1, <3>2
  <2>5. ~WellNested'
    BY <1>4, <2>1, <2>4, NestStays
  <2> QED
    BY <2>1, <2>5 DEF NestFacts, RefusesUnbalanced
<1> QED
  BY <1>1, <1>5, <1>6

(* The document has ended. *)
LEMMA FinishNests ==
  ASSUME Facts, EndFacts, NestFacts, Finish
  PROVE  NestFacts'
<1>1. /\ pc = "none" /\ UNCHANGED <<w, tags, doc, nth, x>> /\ w'.size = w.size
      /\ pc' = IF x.top # 1 \/ x.tlvs # << >> THEN "failed" ELSE "done"
  BY DEF Finish
<1>2. Balanced(nth, x.tlvs)
  BY <1>1 DEF NestFacts, Handled
<1>3. ReaderFacts /\ TextFrom(nth) <= w.size
      /\ (nth = Len(tags) \/ tags[nth + 1].open >= w.size)
  BY <1>1 DEF Facts, EndFacts
<1>4. WellNested <=> OpenAfter(nth) = 0
  BY <1>2, <1>3, NestIs DEF Balanced
<1>5. Sound(x) /\ x.tlvs \in Seq(Unit)
  BY SoundParts DEF Facts
<1>6. x.tlvs = << >> <=> OpenAfter(nth) = 0
  BY <1>2, <1>5 DEF Balanced
<1>7. ASSUME x.tlvs = << >> PROVE x.top = 1
  <2>1. Definite(x.tlvs) = {}
    BY <1>7 DEF Definite
  <2>2. x.top = 1 + Cardinality({})
    BY <1>5, <2>1, SoundParts
  <2> QED
    BY <2>2, FS_EmptySet
<1>8. pc' = "done" <=> WellNested
  BY <1>1, <1>4, <1>6, <1>7
<1>9. WellNested' <=> WellNested
  BY <1>1, NestStays
<1>10. Balanced(Handled, x.tlvs)'
  <2>1. Handled' = nth
    BY <1>1 DEF Handled
  <2> QED
    BY <1>1, <1>2, <2>1, NestedStays
<1> QED
  BY <1>8, <1>9, <1>10 DEF NestFacts, RefusesUnbalanced

(* Every step of the converter *)
LEMMA StepNests ==
  ASSUME Facts, EndFacts, NestFacts, Step \/ UNCHANGED vars
  PROVE  NestFacts'
<1>1. ASSUME UNCHANGED <<tags, doc, x>>, w'.size = w.size,
             Handled' = Handled, pc # "failed", ~Ended'
      PROVE  NestFacts'
  <2>1. Balanced(Handled, x.tlvs)'
    BY <1>1, NestedStays DEF NestFacts
  <2> QED
    BY <1>1, <2>1 DEF NestFacts, RefusesUnbalanced
<1>2. CASE ReaderNext /\ UNCHANGED <<forest, doc, x>>
  <2>1. UNCHANGED <<tags, doc, x>> /\ nth \in Nat
    BY <1>2, ReaderParts
       DEF ReaderNext, OpenFound, OpenRefill, OpenEnd, CloseFound,
           CloseRefill, CloseEnd, Refill, Facts
  <2>2. w'.size = w.size
    <3>1. CASE w' = w
      BY <3>1
    <3>2. CASE w' = More(Drop(w, k.low), ReaderInc) /\ pc \in {"open", "close"}
      <4>1. IsWindow(w) /\ k.low \in Nat /\ ReaderInc \in Nat
        BY ReaderParts, XmlReaderAssumption DEF Facts, ReaderFacts
      <4>2. k.low <= w.avail
        BY <3>2, ReaderParts, SMTT(40) DEF Facts, ReaderFacts, Tracked
      <4>3. IsWindow(Drop(w, k.low)) /\ Drop(w, k.low).size = w.size
        BY <4>1, <4>2, DropMoves
      <4>4. More(Drop(w, k.low), ReaderInc).size = w.size
        BY <4>1, <4>3, MoreKeeps
      <4> QED
        BY <3>2, <4>4
    <3>3. \/ w' = w
          \/ w' = More(Drop(w, k.low), ReaderInc) /\ pc \in {"open", "close"}
      BY <1>2 DEF ReaderNext, OpenFound, OpenRefill, OpenEnd, CloseFound,
                  CloseRefill, CloseEnd, Refill
    <3> QED
      BY <3>1, <3>2, <3>3
  <2>3. CASE CloseEnd
    <3>1. pc' = "failed" /\ ~WellNested
      BY <2>3, EndsWithin DEF CloseEnd, Facts
    <3> QED
      BY <2>1, <2>2, <3>1, NestStays DEF NestFacts, RefusesUnbalanced
  <2>4. CASE ~CloseEnd
    <3>1. ~Ended' /\ pc # "failed" /\ Handled' = Handled
      BY <1>2, <2>1, <2>4
         DEF ReaderNext, OpenFound, OpenRefill, OpenEnd, CloseFound,
             CloseRefill, Refill, Handled, Ended
    <3> QED
      BY <1>1, <2>1, <2>2, <3>1
  <2> QED
    BY <2>3, <2>4
<1>3. ASSUME NEW t, Declaration(t) \/ Comment(t) \/ StartTag(t) \/ EndTag(t)
      PROVE  NestFacts'
  BY <1>3, TagNests
<1>4. CASE Finish
  BY <1>4, FinishNests
<1>5. CASE UNCHANGED vars
  <2>1. UNCHANGED <<w, tags, doc, x, nth, pc>>
    BY <1>5 DEF vars, readerVars
  <2>2. WellNested' <=> WellNested
    BY <2>1, NestStays
  <2>3. Handled' = Handled
    BY <2>1 DEF Handled
  <2>4. pc' # "failed" => Balanced(Handled, x.tlvs)'
    BY <2>1, <2>3, NestedStays DEF NestFacts
  <2> QED
    BY <2>1, <2>2, <2>4 DEF NestFacts, RefusesUnbalanced, Ended
<1> QED
  BY <1>2, <1>3, <1>4, <1>5 DEF Step

(* A document is converted if its tags are balanced, none of them is cut   *)
(* off, and no declaration is behind another tag; and only then: the end   *)
(* tags that find no open one, the open ones at the end and the file that  *)
(* ends within a tag are refused, for every forest, document and source    *)
(* (xml2ber.cc:102-114, 158, 291, xml.cc:70).                              *)
THEOREM DocumentsRefused == Spec => []RefusesUnbalanced
<1> DEFINE AllFacts == Facts /\ EndFacts /\ NestFacts
<1>1. Init => AllFacts
  <2> SUFFICES ASSUME Init PROVE AllFacts
    OBVIOUS
  <2>1. ReaderFacts /\ doc \in Seq(TokenType) /\ Len(tags) = Len(doc)
    BY InitFacts
  <2>2. x = NewWriters /\ pc = "open" /\ nth = 0
    BY DEF Init, ReaderInit
  <2>3. Facts
    BY <2>1, <2>2, NewSound DEF Facts, PcType
  <2>4. EndFacts
    BY InitEnds
  <2>5. x.tlvs = << >> /\ Handled = 0
    BY <2>2 DEF NewWriters, Handled
  <2>6. Balanced(0, << >>)
    <3>1. OpenAfter(0) = 0
      BY OpenCounted
    <3>2. \A m \in 0 .. 0 : m = 0
      OBVIOUS
    <3>3. 2 .. 0 = {}
      OBVIOUS
    <3> QED
      BY <3>1, <3>2, <3>3 DEF Balanced
  <2>7. NestFacts
    BY <2>2, <2>5, <2>6 DEF NestFacts, RefusesUnbalanced, Ended
  <2> QED
    BY <2>3, <2>4, <2>7
<1>2. AllFacts /\ [Step \/ (Ended /\ UNCHANGED vars)]_vars => AllFacts'
  <2> SUFFICES ASSUME AllFacts, [Step \/ (Ended /\ UNCHANGED vars)]_vars
               PROVE  AllFacts'
    OBVIOUS
  <2>1. Facts'
    <3>1. CASE Step \/ (Ended /\ UNCHANGED vars)
      BY <3>1, StepSound
    <3>2. CASE UNCHANGED vars
      <4>1. UNCHANGED <<w, tags, marks, k, old, doc, x, nth, pc>>
        BY <3>2 DEF vars, readerVars
      <4>2. ReaderFacts'
        BY <4>1, PauseTracks DEF Facts
      <4> QED
        BY <4>1, <4>2 DEF Facts, Sound
    <3> QED
      BY <3>1, <3>2
  <2>2. EndFacts' /\ NestFacts'
    BY StepEnds, StepNests DEF Facts
  <2> QED
    BY <2>1, <2>2
<1>3. AllFacts => RefusesUnbalanced
  BY DEF NestFacts
<1> QED
  BY <1>1, <1>2, <1>3, PTL DEF Spec

(***************************************************************************)
(* A walk through a document                                               *)
(***************************************************************************)
CommentOf(busy) == IF busy THEN <<Token("comment", Gap(busy), 3)>> ELSE << >>

DeclOf(busy) == IF busy THEN <<Token("decl", 0, 3)>> ELSE << >>

(* Node i has no end tag. *)
NoEndTag(f, busy, i) == busy /\ Below(f, i) = {} /\ f[i].length = 0

(* The end tag of node m comes behind node i. *)
EndsBehind(f, busy, m, i) == LastOf(f, m) = i /\ ~NoEndTag(f, busy, m)

EndTags(f, busy, i) ==
  [n \in 1 .. i |->
     LET m == i + 1 - n
     IN  IF EndsBehind(f, busy, m, i) THEN <<EndOf(f[m], Gap(busy))>> ELSE << >>]

StartToken(f, busy, i) ==
  StartOf(f[i], Inner(f)[i], IF NoEndTag(f, busy, i) THEN "empty" ELSE "start", Gap(busy))

NodeTags(f, busy) ==
  [i \in 1 .. Len(f) |->
     CommentOf(busy) \o (<<StartToken(f, busy, i)>> \o FlattenSeq(EndTags(f, busy, i)))]

(* pos[i][b]: the tags of document d up to the start tag of node i and the *)
(* end tags behind it of the nodes from b on                               *)
DocWalk(f, busy, d, pos) ==
  /\ \A i \in 0 .. Len(f) : \A b \in 1 .. (i + 1) : pos[i][b] \in 0 .. Len(d)
  /\ pos[0][1] = Gap(busy)
  /\ busy => Len(d) > 0 /\ d[1] = Token("decl", 0, 3)
  /\ \A i \in 1 .. Len(f) : \A b \in 1 .. i :
       IF EndsBehind(f, busy, b, i)
       THEN pos[i][b] = pos[i][b + 1] + 1 /\ d[pos[i][b]] = EndOf(f[b], Gap(busy))
       ELSE pos[i][b] = pos[i][b + 1]
  /\ \A i \in 1 .. Len(f) :
       /\ pos[i][i + 1] = pos[i - 1][1] + Gap(busy) + 1
       /\ busy => d[pos[i - 1][1] + 1] = Token("comment", Gap(busy), 3)
       /\ d[pos[i][i + 1]] = StartToken(f, busy, i)
  /\ pos[Len(f)][1] = Len(d)

(* What Document() is made of *)
LEMMA DocumentIs ==
  ASSUME NEW f, NEW busy
  PROVE  Document(f, busy) = DeclOf(busy) \o FlattenSeq(NodeTags(f, busy))
BY Zenon DEF Document, DeclOf, NodeTags, CommentOf, StartToken, EndTags, EndsBehind, NoEndTag

LEMMA PiecesTyped ==
  ASSUME NEW f \in AllForests, NEW busy \in BOOLEAN
  PROVE  /\ CommentOf(busy) \in Seq(TokenType) /\ DeclOf(busy) \in Seq(TokenType)
         /\ Len(CommentOf(busy)) = Gap(busy) /\ Len(DeclOf(busy)) = Gap(busy)
         /\ Gap(busy) \in Nat
         /\ busy => /\ CommentOf(busy)[1] = Token("comment", Gap(busy), 3)
                    /\ DeclOf(busy)[1] = Token("decl", 0, 3) /\ Gap(busy) = 1
         /\ \A i \in 1 .. Len(f) :
              /\ StartToken(f, busy, i) \in TokenType
              /\ EndTags(f, busy, i) \in Seq(Seq(TokenType))
              /\ Len(EndTags(f, busy, i)) = i
              /\ FlattenSeq(EndTags(f, busy, i)) \in Seq(TokenType)
         /\ NodeTags(f, busy) \in Seq(Seq(TokenType))
         /\ Len(NodeTags(f, busy)) = Len(f)
<1> DEFINE N   == Len(f)
           gap == Gap(busy)
<1>1. N \in Nat /\ gap \in Nat /\ Inner(f) \in [1 .. N -> Nat]
  BY ForestTyped, InnerTyped DEF Gap
<1>2. Token("comment", gap, 3) \in TokenType /\ Token("decl", 0, 3) \in TokenType
  <2>1. 3 \in Nat \ {0} /\ 0 \in Nat /\ gap \in Nat
        /\ "comment" \in TokenKinds /\ "decl" \in TokenKinds
    BY <1>1 DEF TokenKinds
  <2> QED
    BY <2>1, TokenTyped
<1>3. /\ CommentOf(busy) \in Seq(TokenType) /\ DeclOf(busy) \in Seq(TokenType)
      /\ Len(CommentOf(busy)) = gap /\ Len(DeclOf(busy)) = gap
      /\ busy => /\ CommentOf(busy)[1] = Token("comment", gap, 3)
                 /\ DeclOf(busy)[1] = Token("decl", 0, 3) /\ gap = 1
  BY <1>2 DEF CommentOf, DeclOf, Gap
<1> HIDE DEF gap
<1>4. ASSUME NEW i \in 1 .. N
      PROVE  /\ StartToken(f, busy, i) \in TokenType
             /\ EndTags(f, busy, i) \in Seq(Seq(TokenType))
             /\ Len(EndTags(f, busy, i)) = i
             /\ FlattenSeq(EndTags(f, busy, i)) \in Seq(TokenType)
  <2> DEFINE end(n) == IF EndsBehind(f, busy, i + 1 - n, i)
                       THEN <<EndOf(f[i + 1 - n], gap)>> ELSE << >>
             all == [n \in 1 .. i |-> end(n)]
  <2>1. ASSUME NEW n \in 1 .. i PROVE end(n) \in Seq(TokenType)
    <3>1. i + 1 - n \in 1 .. Len(f)
      BY <1>1
    <3>2. EndOf(f[i + 1 - n], gap) \in TokenType
      BY <1>1, <3>1, EndTyped
    <3> QED
      BY <3>2
  <2>2. EndTags(f, busy, i) = all
    BY DEF EndTags, gap
  <2> HIDE DEF end
  <2>3. all \in Seq(Seq(TokenType)) /\ Len(all) = i
    BY <1>1, <2>1
  <2> HIDE DEF all
  <2>4. FlattenSeq(all) \in Seq(TokenType)
    BY <2>3, FlattenTyped
  <2> DEFINE kind  == IF NoEndTag(f, busy, i) THEN "empty" ELSE "start"
             inner == Inner(f)[i]
  <2>5. kind \in {"start", "empty"} /\ inner \in Nat
    BY <1>1
  <2>6. StartToken(f, busy, i) = StartOf(f[i], inner, kind, gap)
    BY Zenon DEF StartToken, gap
  <2> HIDE DEF kind, inner
  <2>7. StartOf(f[i], inner, kind, gap) \in TokenType
    BY <1>1, <2>5, StartTyped DEF N
  <2> QED
    BY <2>2, <2>3, <2>4, <2>6, <2>7
<1>5. ASSUME NEW i \in 1 .. N
      PROVE  CommentOf(busy) \o (<<StartToken(f, busy, i)>> \o FlattenSeq(EndTags(f, busy, i)))
               \in Seq(TokenType)
  BY <1>3, <1>4
<1>6. NodeTags(f, busy) \in Seq(Seq(TokenType)) /\ Len(NodeTags(f, busy)) = N
  BY <1>1, <1>5 DEF NodeTags
<1> QED
  BY <1>1, <1>3, <1>4, <1>6 DEF gap, N

(* What is flattened first is the beginning of all. *)
LEMMA FlatPrefix ==
  ASSUME NEW T, NEW s \in Seq(Seq(T)), NEW g \in [0 .. Len(s) -> Seq(T)], Flat(g, s),
         NEW n \in 0 .. Len(s)
  PROVE  IsPrefix(g[n], FlattenSeq(s))
<1> DEFINE N == Len(s)
           S == {m \in Nat : m <= N => IsPrefix(g[N - m], g[N])}
<1>1. N \in Nat /\ \A m \in 0 .. N : g[m] \in Seq(T)
  OBVIOUS
<1>2. \A m \in 1 .. N : g[m] = g[m - 1] \o s[m] /\ s[m] \in Seq(T)
  <2>1. \A m \in 1 .. N : s[m] \in Seq(T)
    OBVIOUS
  <2>2. \A m \in 1 .. N : g[m] = g[m - 1] \o s[m]
    BY Zenon DEF Flat
  <2> QED
    BY <2>1, <2>2
<1>3. FlattenSeq(s) = g[N]
  BY DEF Flat
<1> HIDE DEF N
<1>4. 0 \in S
  <2>1. g[N] \in Seq(T)
    BY <1>1
  <2>2. IsPrefix(g[N], g[N])
    BY <2>1, PrefixIs
  <2>3. N - 0 = N
    BY <1>1
  <2> QED
    BY <2>2, <2>3
<1>5. ASSUME NEW m \in Nat, m \in S PROVE m + 1 \in S
  <2> SUFFICES ASSUME m + 1 <= N PROVE IsPrefix(g[N - (m + 1)], g[N])
    OBVIOUS
  <2> DEFINE a == N - (m + 1)
             e == N - m
  <2>1. a \in 0 .. N /\ e \in 1 .. N /\ e - 1 = a /\ e \in 0 .. N
    BY <1>1
  <2>2. IsPrefix(g[e], g[N])
    BY <1>1, <1>5
  <2> HIDE DEF a, e
  <2>3. g[a] \in Seq(T) /\ g[e] \in Seq(T) /\ g[N] \in Seq(T) /\ s[e] \in Seq(T)
        /\ g[e] = g[a] \o s[e]
    <3>1. N \in 0 .. N
      BY <1>1
    <3> QED
      BY <1>1, <1>2, <2>1, <3>1
  <2>4. IsPrefix(g[a], g[e])
    BY <2>3, PrefixFacts
  <2>5. IsPrefix(g[a], g[N])
    BY <2>2, <2>3, <2>4, PrefixFacts
  <2> QED
    BY <2>5 DEF a
<1> HIDE DEF S
<1>6. \A m \in Nat : m \in S
  BY <1>4, <1>5, Induction
<1>7. N - n \in Nat /\ N - n <= N /\ N - (N - n) = n
  BY <1>1 DEF N
<1>8. IsPrefix(g[n], g[N])
  BY <1>6, <1>7 DEF S
<1> QED
  BY <1>3, <1>8

(* The last element of a beginning *)
LEMMA PrefixLast ==
  ASSUME NEW T, NEW s \in Seq(T), NEW e \in T, NEW t \in Seq(T),
         IsPrefix(s \o <<e>>, t)
  PROVE  /\ Len(s \o <<e>>) = Len(s) + 1 /\ Len(s) + 1 \in 1 .. Len(t)
         /\ t[Len(s) + 1] = e
<1> DEFINE r == s \o <<e>>
<1>1. r \in Seq(T) /\ Len(r) = Len(s) + 1 /\ r[Len(s) + 1] = e /\ Len(s) \in Nat
  OBVIOUS
<1> HIDE DEF r
<1>2. IsPrefix(r, t)
  BY DEF r
<1>3. Len(r) <= Len(t) /\ \A n \in 1 .. Len(r) : r[n] = t[n]
  BY <1>1, <1>2, PrefixIs
<1>4. Len(s) + 1 \in 1 .. Len(r) /\ Len(t) \in Nat
  BY <1>1
<1> QED
  BY <1>1, <1>3, <1>4 DEF r

(* Sequences one behind the other *)
LEMMA ConcatAssociates ==
  ASSUME NEW T, NEW r \in Seq(T), NEW s \in Seq(T), NEW t \in Seq(T)
  PROVE  r \o (s \o t) = (r \o s) \o t /\ r \o << >> = r /\ << >> \o r = r
BY SMTT(60)

LEMMA ConcatTyped ==
  ASSUME NEW T, NEW s \in Seq(T), NEW t \in Seq(T)
  PROVE  s \o t \in Seq(T)
OBVIOUS

(* The walk goes through the whole document. *)
LEMMA DocWalkExists ==
  ASSUME NEW f \in AllForests, NEW busy \in BOOLEAN
  PROVE  \E pos : DocWalk(f, busy, Document(f, busy), pos)
<1> DEFINE N    == Len(f)
           T    == TokenType
           all  == Document(f, busy)
           decl == DeclOf(busy)
           note == CommentOf(busy)
           nt   == NodeTags(f, busy)
           start(i) == StartToken(f, busy, i)
           ends(i)  == EndTags(f, busy, i)
           gap  == Gap(busy)
<1>1. /\ note \in Seq(T) /\ decl \in Seq(T) /\ Len(note) = gap /\ Len(decl) = gap
      /\ gap \in Nat /\ N \in Nat
      /\ busy => /\ note[1] = Token("comment", gap, 3)
                 /\ decl[1] = Token("decl", 0, 3) /\ gap = 1
      /\ \A i \in 1 .. N : /\ start(i) \in T /\ ends(i) \in Seq(Seq(T)) /\ Len(ends(i)) = i
                           /\ FlattenSeq(ends(i)) \in Seq(T)
      /\ nt \in Seq(Seq(T)) /\ Len(nt) = N
  <2>1. N \in Nat
    BY ForestTyped
  <2> QED
    BY <2>1, PiecesTyped, Zenon
<1>2. all = decl \o FlattenSeq(nt) /\ all \in Seq(T)
  BY DocumentIs, DocumentTyped, Zenon
<1>3. \A i \in 1 .. N : nt[i] = note \o (<<start(i)>> \o FlattenSeq(ends(i)))
  BY DEF NodeTags
<1>4. \A i \in 1 .. N : \A b \in 1 .. i :
        ends(i)[i + 1 - b] = IF EndsBehind(f, busy, b, i) THEN <<EndOf(f[b], gap)>>
                                                          ELSE << >>
  <2> SUFFICES ASSUME NEW i \in 1 .. N, NEW b \in 1 .. i
               PROVE  ends(i)[i + 1 - b] =
                        IF EndsBehind(f, busy, b, i) THEN <<EndOf(f[b], gap)>> ELSE << >>
    OBVIOUS
  <2>1. i + 1 - b \in 1 .. i /\ i + 1 - (i + 1 - b) = b
    BY <1>1
  <2> HIDE DEF N, gap
  <2>2. ends(i)[i + 1 - b] =
          IF EndsBehind(f, busy, i + 1 - (i + 1 - b), i)
          THEN <<EndOf(f[i + 1 - (i + 1 - b)], gap)>> ELSE << >>
    BY <2>1 DEF EndTags, gap
  <2> QED
    BY <2>1, <2>2
<1> HIDE DEF N, T, all, decl, note, nt, start, ends, gap
<1>0. N \in Nat /\ gap \in Nat
  BY <1>1
<1>5. PICK g \in [0 .. N -> Seq(T)] : Flat(g, nt)
  BY <1>1, FlattenTyped
<1>6. \A i \in 1 .. N : \E e : e \in [0 .. i -> Seq(T)] /\ Flat(e, ends(i))
  BY <1>1, FlattenTyped
<1> DEFINE e == [i \in 1 .. N |-> CHOOSE h : h \in [0 .. i -> Seq(T)] /\ Flat(h, ends(i))]
<1>7. \A i \in 1 .. N : e[i] \in [0 .. i -> Seq(T)] /\ Flat(e[i], ends(i))
  <2> SUFFICES ASSUME NEW i \in 1 .. N
               PROVE  e[i] \in [0 .. i -> Seq(T)] /\ Flat(e[i], ends(i))
    OBVIOUS
  <2> DEFINE P(h) == h \in [0 .. i -> Seq(T)] /\ Flat(h, ends(i))
  <2>1. \E h : P(h)
    BY <1>6
  <2>2. P(CHOOSE h : P(h))
    BY <2>1, Zenon
  <2>3. e[i] = CHOOSE h : P(h)
    BY Zenon
  <2> QED
    BY <2>2, <2>3
<1> HIDE DEF e
<1> DEFINE root(i)    == decl \o g[i - 1]
           headed(i)  == (root(i) \o note) \o <<start(i)>>
           part(i, b) == IF i = 0 THEN decl ELSE headed(i) \o e[i][i + 1 - b]
           pos == [i \in 0 .. N |-> [b \in 1 .. (i + 1) |-> Len(part(i, b))]]
<1>8. g[0] = << >> /\ (\A i \in 1 .. N : g[i] = g[i - 1] \o nt[i]) /\ FlattenSeq(nt) = g[N]
      /\ \A i \in 0 .. N : g[i] \in Seq(T)
  <2>1. \A i \in 0 .. N : g[i] \in Seq(T)
    OBVIOUS
  <2> QED
    BY <1>1, <1>5, <2>1, Zenon DEF Flat
<1>9. ASSUME NEW i \in 1 .. N
      PROVE  /\ e[i][0] = << >> /\ e[i][i] = FlattenSeq(ends(i))
             /\ \A n \in 1 .. i : e[i][n] = e[i][n - 1] \o ends(i)[n]
             /\ \A n \in 0 .. i : e[i][n] \in Seq(T) /\ IsPrefix(e[i][n], e[i][i])
  <2>1. /\ e[i] \in [0 .. i -> Seq(T)] /\ Flat(e[i], ends(i)) /\ Len(ends(i)) = i
        /\ ends(i) \in Seq(Seq(T))
    BY <1>1, <1>7
  <2>2. /\ e[i][0] = << >> /\ e[i][i] = FlattenSeq(ends(i))
        /\ \A n \in 1 .. i : e[i][n] = e[i][n - 1] \o ends(i)[n]
    BY <2>1, Zenon DEF Flat
  <2>3. \A n \in 0 .. i : e[i][n] \in Seq(T)
    BY <2>1
  <2>4. ASSUME NEW n \in 0 .. i PROVE IsPrefix(e[i][n], e[i][i])
    BY <2>1, <2>2, FlatPrefix
  <2> QED
    BY <2>2, <2>3, <2>4
<1>10. ASSUME NEW i \in 0 .. N
       PROVE  /\ decl \o g[i] \in Seq(T) /\ IsPrefix(decl \o g[i], all)
              /\ Len(decl \o g[i]) \in 0 .. Len(all)
  <2>1. IsPrefix(g[i], FlattenSeq(nt)) /\ FlattenSeq(nt) \in Seq(T)
    <3>1. FlattenSeq(nt) = g[N] /\ N \in 0 .. N
      BY <1>1, <1>8
    <3>2. g[N] \in Seq(T)
      BY <1>8, <3>1
    <3> QED
      BY <1>1, <1>5, <3>1, <3>2, FlatPrefix
  <2>2. g[i] \in Seq(T)
    BY <1>8
  <2>3. decl \o g[i] \in Seq(T) /\ IsPrefix(decl \o g[i], all)
    BY <1>1, <1>2, <2>1, <2>2, PrefixBehind
  <2>4. Len(decl \o g[i]) <= Len(all)
    BY <1>2, <2>3, PrefixIs
  <2> QED
    BY <1>2, <2>3, <2>4
<1>11. ASSUME NEW i \in 1 .. N
       PROVE  /\ i - 1 \in 0 .. N /\ root(i) \in Seq(T)
              /\ root(i) \o note \in Seq(T) /\ headed(i) \in Seq(T)
              /\ decl \o g[i] = headed(i) \o e[i][i]
              /\ IsPrefix(root(i) \o note, headed(i))
  <2>1. i - 1 \in 0 .. N /\ i \in 0 .. N /\ i \in 0 .. i
    BY <1>1
  <2>2. /\ root(i) \in Seq(T) /\ note \in Seq(T) /\ start(i) \in T /\ e[i][i] \in Seq(T)
        /\ decl \in Seq(T) /\ g[i - 1] \in Seq(T) /\ <<start(i)>> \in Seq(T)
    <3>1. start(i) \in T
      BY <1>1
    <3>2. <<start(i)>> \in Seq(T)
      BY <3>1
    <3>3. e[i][i] \in Seq(T)
      BY <1>9, <2>1
    <3>4. decl \o g[i - 1] \in Seq(T) /\ g[i - 1] \in Seq(T)
      BY <1>8, <1>10, <2>1
    <3> QED
      BY <1>1, <3>1, <3>2, <3>3, <3>4
  <2>3. g[i] = g[i - 1] \o (note \o (<<start(i)>> \o e[i][i]))
    BY <1>3, <1>8, <1>9
  <2> DEFINE r == g[i - 1]
             s == <<start(i)>>
             z == e[i][i]
  <2>4. decl \o (r \o (note \o (s \o z))) = (((decl \o r) \o note) \o s) \o z
    <3>1. r \in Seq(T) /\ s \in Seq(T) /\ z \in Seq(T) /\ decl \in Seq(T) /\ note \in Seq(T)
      BY <2>2
    <3> HIDE DEF r, s, z
    <3> DEFINE t == s \o z
               o == (decl \o r) \o note
    <3>2. t \in Seq(T) /\ o \in Seq(T)
      BY <3>1
    <3> HIDE DEF t, o
    <3>3. decl \o (r \o (note \o t)) = ((decl \o r) \o note) \o t
      BY <3>1, <3>2, SMTT(60)
    <3>4. o \o (s \o z) = (o \o s) \o z
      BY <3>1, <3>2, SMTT(60)
    <3> QED
      BY <3>3, <3>4 DEF t, o
  <2>5. root(i) \o note \in Seq(T) /\ headed(i) \in Seq(T)
    <3> HIDE DEF root
    <3> QED
      BY <2>2
  <2>6. IsPrefix(root(i) \o note, headed(i))
    <3> HIDE DEF root
    <3> QED
      BY <2>2, <2>5, PrefixFacts
  <2> QED
    BY <2>1, <2>2, <2>3, <2>4, <2>5, <2>6
<1> HIDE DEF root, headed
<1>12. ASSUME NEW i \in 1 .. N, NEW n \in 0 .. i
       PROVE  /\ headed(i) \o e[i][n] \in Seq(T) /\ IsPrefix(headed(i) \o e[i][n], all)
              /\ Len(headed(i) \o e[i][n]) \in 0 .. Len(all)
  <2>1. i \in 0 .. N /\ i \in 0 .. i
    BY <1>1
  <2>2. /\ e[i][n] \in Seq(T) /\ e[i][i] \in Seq(T) /\ IsPrefix(e[i][n], e[i][i])
        /\ headed(i) \in Seq(T)
    BY <1>9, <1>11, <2>1
  <2> DEFINE a == headed(i) \o e[i][n]
             c == headed(i) \o e[i][i]
  <2>3. a \in Seq(T) /\ c \in Seq(T) /\ IsPrefix(a, c)
    BY <2>2, PrefixBehind
  <2>4. IsPrefix(c, all)
    BY <1>10, <1>11, <2>1
  <2> HIDE DEF a, c
  <2>5. IsPrefix(a, all)
    BY <1>2, <2>3, <2>4, PrefixFacts
  <2>6. Len(a) <= Len(all) /\ Len(a) \in Nat /\ Len(all) \in Nat
    <3>1. a \in Seq(T) /\ all \in Seq(T) /\ IsPrefix(a, all)
      BY <1>2, <2>3, <2>5
    <3>2. Len(a) <= Len(all)
      BY <3>1, PrefixIs
    <3> QED
      BY <3>1, <3>2
  <2> QED
    BY <2>3, <2>5, <2>6 DEF a
<1>13. \A i \in 0 .. N : \A b \in 1 .. (i + 1) : pos[i][b] = Len(part(i, b))
  OBVIOUS
<1> HIDE DEF pos
<1>14. pos[0][1] = gap /\ pos[N][1] = Len(all) /\ \A i \in 0 .. N : pos[i][1] = Len(decl \o g[i])
  <2>1. ASSUME NEW i \in 0 .. N PROVE pos[i][1] = Len(decl \o g[i])
    <3>1. 1 \in 1 .. (i + 1)
      BY <1>1
    <3>2. pos[i][1] = Len(part(i, 1))
      BY <1>13, <3>1
    <3>3. CASE i = 0
      <4>1. decl \o g[i] = decl
        BY <1>1, <1>8, <3>3
      <4> QED
        BY <3>2, <3>3, <4>1
    <3>4. CASE i # 0
      <4>1. i \in 1 .. N /\ i + 1 - 1 = i
        BY <1>1, <3>4
      <4>2. part(i, 1) = headed(i) \o e[i][i]
        BY <3>4, <4>1
      <4> QED
        BY <1>11, <3>2, <4>1, <4>2
    <3> QED
      BY <3>3, <3>4
  <2>2. 0 \in 0 .. N /\ N \in 0 .. N
    BY <1>1
  <2>3. decl \o g[0] = decl /\ decl \o g[N] = all
    BY <1>1, <1>2, <1>8
  <2> QED
    BY <1>1, <2>1, <2>2, <2>3
<1>15. ASSUME NEW i \in 1 .. N, NEW b \in 1 .. (i + 1)
       PROVE  pos[i][b] = Len(headed(i) \o e[i][i + 1 - b])
  <2>1. i \in 0 .. N /\ i # 0
    BY <1>1
  <2> QED
    BY <1>13, <2>1
<1> HIDE DEF part
<1>16. ASSUME NEW i \in 0 .. N, NEW b \in 1 .. (i + 1) PROVE pos[i][b] \in 0 .. Len(all)
  <2>1. CASE i = 0
    <3>1. b = 1
      BY <2>1
    <3> QED
      BY <1>10, <1>14, <2>1, <3>1
  <2>2. CASE i # 0
    <3>1. i \in 1 .. N /\ i + 1 - b \in 0 .. i
      BY <1>1, <2>2
    <3> QED
      BY <1>12, <1>15, <3>1
  <2> QED
    BY <2>1, <2>2
<1>17. busy => Len(all) > 0 /\ all[1] = Token("decl", 0, 3)
  <2> SUFFICES ASSUME busy PROVE Len(all) > 0 /\ all[1] = Token("decl", 0, 3)
    OBVIOUS
  <2>1. Len(decl) = 1 /\ decl[1] = Token("decl", 0, 3)
    BY <1>1
  <2>2. FlattenSeq(nt) \in Seq(T)
    BY <1>1, FlattenTyped
  <2>3. decl \in Seq(T)
    BY <1>1
  <2> DEFINE rest == FlattenSeq(nt)
  <2> HIDE DEF rest
  <2>4. Len(decl \o rest) = Len(decl) + Len(rest) /\ (decl \o rest)[1] = decl[1]
        /\ Len(rest) \in Nat
    <3>1. rest \in Seq(T) /\ 1 \in 1 .. Len(decl)
      BY <2>1, <2>2 DEF rest
    <3> QED
      BY <2>3, <3>1, ConcatElements
  <2> QED
    BY <1>2, <2>1, <2>4 DEF rest
<1>18. ASSUME NEW i \in 1 .. N, NEW b \in 1 .. i
       PROVE  IF EndsBehind(f, busy, b, i)
              THEN pos[i][b] = pos[i][b + 1] + 1 /\ all[pos[i][b]] = EndOf(f[b], gap)
              ELSE pos[i][b] = pos[i][b + 1]
  <2> DEFINE n == i + 1 - b
  <2>1. /\ n \in 1 .. i /\ n - 1 \in 0 .. i /\ n \in 0 .. i /\ i + 1 - (b + 1) = n - 1
        /\ b \in 1 .. (i + 1) /\ b + 1 \in 1 .. (i + 1)
    BY <1>0
  <2>2. pos[i][b] = Len(headed(i) \o e[i][n]) /\ pos[i][b + 1] = Len(headed(i) \o e[i][n - 1])
    BY <1>15, <2>1
  <2>3. e[i][n] = e[i][n - 1] \o ends(i)[n]
    BY <1>9, <2>1
  <2>4. ends(i)[n] = IF EndsBehind(f, busy, b, i) THEN <<EndOf(f[b], gap)>> ELSE << >>
    BY <1>4
  <2>5. /\ headed(i) \in Seq(T) /\ e[i][n - 1] \in Seq(T) /\ headed(i) \o e[i][n - 1] \in Seq(T)
        /\ IsPrefix(headed(i) \o e[i][n], all)
    BY <1>9, <1>11, <1>12, <2>1
  <2> DEFINE s == headed(i)
             z == e[i][n - 1]
             y == EndOf(f[b], gap)
  <2>6. y \in T
    <3>1. b \in 1 .. Len(f)
      BY <1>0 DEF N
    <3>2. gap \in Nat
      BY <1>1
    <3> QED
      BY <3>1, <3>2, EndTyped DEF T, y
  <2> HIDE DEF n, s, z, y
  <2>7. CASE EndsBehind(f, busy, b, i)
    <3>1. e[i][n] = z \o <<y>>
      BY <2>3, <2>4, <2>7 DEF z, y
    <3>2. s \o (z \o <<y>>) = (s \o z) \o <<y>>
      <4>1. s \in Seq(T) /\ z \in Seq(T) /\ <<y>> \in Seq(T)
        BY <2>5, <2>6 DEF s, z
      <4> QED
        BY <4>1, ConcatAssociates
    <3>3. IsPrefix((s \o z) \o <<y>>, all) /\ s \o z \in Seq(T)
      BY <2>5, <3>1, <3>2 DEF s, z
    <3> DEFINE r == s \o z
    <3>4. r \in Seq(T) /\ IsPrefix(r \o <<y>>, all)
      BY <3>3
    <3>5. /\ pos[i][b] = Len(r \o <<y>>) /\ pos[i][b + 1] = Len(r)
      BY <2>2, <3>1, <3>2 DEF s, z
    <3> HIDE DEF r
    <3>6. Len(r \o <<y>>) = Len(r) + 1 /\ all[Len(r) + 1] = y
      BY <1>2, <2>6, <3>4, PrefixLast
    <3> QED
      BY <2>7, <3>5, <3>6 DEF y
  <2>8. CASE ~EndsBehind(f, busy, b, i)
    <3>1. e[i][n] = z
      <4>1. e[i][n] = z \o << >>
        BY <2>3, <2>4, <2>8 DEF z
      <4> QED
        BY <2>5, <4>1 DEF z
    <3> QED
      BY <2>2, <2>8, <3>1 DEF z
  <2> QED
    BY <2>7, <2>8
<1>19. ASSUME NEW i \in 1 .. N
       PROVE  /\ pos[i][i + 1] = pos[i - 1][1] + gap + 1
              /\ busy => all[pos[i - 1][1] + 1] = Token("comment", gap, 3)
              /\ all[pos[i][i + 1]] = start(i)
  <2>1. i - 1 \in 0 .. N /\ i + 1 \in 1 .. (i + 1) /\ i + 1 - (i + 1) = 0 /\ 0 \in 0 .. i
    BY <1>0
  <2> DEFINE r == root(i)
             s == r \o note
  <2>2. r \in Seq(T) /\ s \in Seq(T) /\ headed(i) = s \o <<start(i)>> /\ headed(i) \in Seq(T)
        /\ IsPrefix(s, headed(i))
    BY <1>11 DEF headed
  <2>3. pos[i - 1][1] = Len(r)
    BY <1>14, <2>1 DEF root
  <2>4. pos[i][i + 1] = Len(headed(i)) /\ IsPrefix(headed(i), all)
    <3>1. headed(i) \o e[i][0] = headed(i)
      <4>1. e[i][0] = << >> /\ headed(i) \in Seq(T)
        BY <1>9, <2>2
      <4> QED
        BY <4>1, ConcatAssociates
    <3> QED
      BY <1>12, <1>15, <2>1, <3>1
  <2> HIDE DEF s
  <2>5. /\ Len(headed(i)) = Len(s) + 1 /\ all[Len(s) + 1] = start(i)
    <3>1. start(i) \in T
      BY <1>1
    <3>2. s \in Seq(T) /\ all \in Seq(T) /\ IsPrefix(s \o <<start(i)>>, all)
      BY <1>2, <2>2, <2>4
    <3>3. Len(s \o <<start(i)>>) = Len(s) + 1 /\ all[Len(s) + 1] = start(i)
      BY <3>1, <3>2, PrefixLast
    <3> QED
      BY <2>2, <3>3
  <2>6. IsPrefix(s, all)
    BY <1>2, <2>2, <2>4, PrefixFacts
  <2> HIDE DEF r
  <2>7. Len(s) = Len(r) + gap /\ Len(r) \in Nat
    <3>1. r \in Seq(T) /\ note \in Seq(T) /\ Len(note) = gap
      BY <1>1, <2>2
    <3> QED
      BY <3>1, ConcatElements DEF s
  <2>8. busy => all[Len(r) + 1] = Token("comment", gap, 3)
    <3> SUFFICES ASSUME busy PROVE all[Len(r) + 1] = Token("comment", gap, 3)
      OBVIOUS
    <3>1. Len(note) = 1 /\ note[1] = Token("comment", gap, 3) /\ note \in Seq(T)
      BY <1>1
    <3>2. s[Len(r) + 1] = note[1] /\ Len(r) + 1 \in 1 .. Len(s)
      <4>1. r \in Seq(T) /\ 1 \in 1 .. Len(note)
        BY <2>2, <3>1
      <4>2. s[Len(r) + 1] = note[1] /\ Len(s) = Len(r) + Len(note) /\ Len(r) \in Nat
        <5>1. s = r \o note
          BY DEF s
        <5>2. r \in Seq(T) /\ note \in Seq(T)
          BY <3>1, <4>1
        <5> HIDE DEF s
        <5>3. \A n \in 1 .. Len(note) : (r \o note)[Len(r) + n] = note[n]
          BY <5>2, ConcatElements
        <5> QED
          BY <4>1, <5>1, <5>2, <5>3, ConcatElements
      <4> QED
        BY <3>1, <4>2
    <3>3. s \in Seq(T) /\ all \in Seq(T) /\ IsPrefix(s, all)
      BY <1>2, <2>2, <2>6
    <3>4. s[Len(r) + 1] = all[Len(r) + 1]
      BY <3>2, <3>3, PrefixIs
    <3> QED
      BY <3>1, <3>2, <3>4
  <2> QED
    BY <1>1, <2>3, <2>4, <2>5, <2>7, <2>8
<1>20. DocWalk(f, busy, all, pos)
  BY <1>14, <1>16, <1>17, <1>18, <1>19, Zenon DEF DocWalk, N, gap, start
<1> QED
  BY <1>20 DEF all

(* No end tag is missed where there is none to come. *)
LEMMA WalkStays ==
  ASSUME NEW f \in AllForests, NEW busy, NEW d, NEW pos, DocWalk(f, busy, d, pos),
         NEW i \in 1 .. Len(f), NEW b \in 1 .. (i + 1), NEW c \in 1 .. b,
         \A j \in c .. (b - 1) : ~EndsBehind(f, busy, j, i)
  PROVE  pos[i][c] = pos[i][b]
<1> DEFINE S == {n \in Nat : n <= b - c => pos[i][b - n] = pos[i][b]}
<1>1. i \in Nat /\ b \in Nat /\ c \in Nat /\ c <= b /\ b <= i + 1 /\ 1 <= c
  BY NodesTyped
<1>2. 0 \in S
  BY <1>1
<1>3. ASSUME NEW n \in Nat, n \in S PROVE n + 1 \in S
  <2> SUFFICES ASSUME n + 1 <= b - c PROVE pos[i][b - (n + 1)] = pos[i][b]
    OBVIOUS
  <2> DEFINE j == b - (n + 1)
  <2>1. j \in c .. (b - 1) /\ j \in 1 .. i /\ j + 1 = b - n
    BY <1>1
  <2>2. pos[i][b - n] = pos[i][b]
    BY <1>1, <1>3
  <2> HIDE DEF j
  <2>3. ~EndsBehind(f, busy, j, i)
    BY <2>1
  <2>4. pos[i][j] = pos[i][j + 1]
    BY <2>1, <2>3 DEF DocWalk
  <2> QED
    BY <2>1, <2>2, <2>4 DEF j
<1> HIDE DEF S
<1>4. \A n \in Nat : n \in S
  BY <1>2, <1>3, Induction
<1>5. b - c \in Nat /\ b - (b - c) = c /\ b - c <= b - c
  BY <1>1
<1> DEFINE n == b - c
<1>6. n \in S /\ n <= b - c /\ b - n = c
  BY <1>4, <1>5
<1> HIDE DEF n
<1>7. pos[i][b - n] = pos[i][b]
  BY <1>6 DEF S
<1> QED
  BY <1>6, <1>7

(* An element without content ends where it begins, and so does a          *)
(* primitive one.                                                          *)
LEMMA NoEndLast ==
  ASSUME NEW f \in AllForests, NEW busy \in BOOLEAN, NEW j \in 1 .. Len(f)
  PROVE  /\ NoEndTag(f, busy, j) => busy /\ LastOf(f, j) = j /\ f[j].length = 0
         /\ f[j].form = "primitive" => LastOf(f, j) = j
         /\ LastOf(f, j) = j /\ busy /\ f[j].length = 0 => NoEndTag(f, busy, j)
<1>1. NoEndTag(f, busy, j) => busy /\ LastOf(f, j) = j /\ f[j].length = 0
  <2> SUFFICES ASSUME NoEndTag(f, busy, j)
               PROVE  busy /\ LastOf(f, j) = j /\ f[j].length = 0
    OBVIOUS
  <2>1. Below(f, j) = {} /\ busy /\ f[j].length = 0
    BY DEF NoEndTag
  <2>2. LastOf(f, j) = j + Cardinality({})
    BY <2>1 DEF LastOf
  <2> QED
    BY <2>1, <2>2, FS_EmptySet
<1>2. LastOf(f, j) = j => Below(f, j) = {}
  <2> SUFFICES ASSUME LastOf(f, j) = j, Below(f, j) # {} PROVE FALSE
    OBVIOUS
  <2> DEFINE B == Below(f, j)
             n == Cardinality(B)
  <2>1. IsFiniteSet(B)
    <3>1. B \subseteq (j + 1) .. Len(f)
      BY DEF Below
    <3>2. j + 1 \in Int /\ Len(f) \in Int
      BY NodesTyped
    <3>3. IsFiniteSet((j + 1) .. Len(f))
      BY <3>2, FS_Interval
    <3> QED
      BY <3>1, <3>3, FS_Subset
  <2>2. n \in Nat /\ (n = 0 <=> B = {})
    BY <2>1, FS_CardinalityType, FS_EmptySet
  <2>3. j = j + n
    BY DEF LastOf
  <2> HIDE DEF n
  <2> QED
    BY <2>2, <2>3
<1> QED
  BY <1>1, <1>2, PrimitiveLast DEF NoEndTag

(* The end of node i is behind the place b, if it has no end tag or is     *)
(* primitive.                                                              *)
Passed(f, busy, i, b) ==
  i > 0 /\ (f[i].form = "primitive" \/ NoEndTag(f, busy, i)) => b <= i

(* The next tag ends the innermost element if its last node was passed.    *)
LEMMA NextEnds ==
  ASSUME NEW f \in AllForests, NEW busy \in BOOLEAN, NEW d, NEW pos,
         DocWalk(f, busy, d, pos),
         NEW i, NEW b, NEW o, WalkAt(f, i, b, o), Passed(f, busy, i, b),
         ~NoneEnds(f, i, o)
  PROVE  LET n == Last(o)
         IN  /\ n \in 1 .. i /\ n \in 1 .. Len(f) /\ f[n].form # "primitive"
             /\ Passed(f, busy, i, n)
             /\ pos[i][b] \in Nat /\ pos[i][n] = pos[i][b] + 1
             /\ d[pos[i][b] + 1] = EndOf(f[n], Gap(busy))
<1> DEFINE n == Last(o)
<1>1. /\ o # << >> /\ n \in 1 .. i /\ n \in 1 .. Len(f) /\ LastOf(f, n) = i
  BY WalkCloses
<1>2. /\ f[n].form # "primitive" /\ n < b
      /\ \A j \in Open(f, i, b) : j \in Nat /\ j <= n
  BY <1>1, WalkTop
<1>3. i \in 0 .. Len(f) /\ b \in 1 .. (i + 1) /\ Len(f) \in Nat
  BY NodesTyped DEF WalkAt
<1> HIDE DEF n
<1>4. i \in 1 .. Len(f) /\ i \in Nat
  BY <1>1, <1>3
<1>5. ~NoEndTag(f, busy, n) /\ (n = i => ~NoEndTag(f, busy, i) /\ f[i].form # "primitive")
  <2> SUFFICES ASSUME NoEndTag(f, busy, n) PROVE FALSE
    BY <1>2
  <2>1. n = i
    BY <1>1, NoEndLast
  <2>2. b <= i
    BY <1>4, <2>1 DEF Passed
  <2> QED
    BY <1>2, <1>3, <2>1, <2>2
<1>6. ASSUME NEW j \in (n + 1) .. (b - 1) PROVE ~EndsBehind(f, busy, j, i)
  <2> SUFFICES ASSUME LastOf(f, j) = i, ~NoEndTag(f, busy, j) PROVE FALSE
    BY DEF EndsBehind
  <2>1. j \in 1 .. i /\ j < b /\ j > n /\ j \in 1 .. Len(f)
    BY <1>1, <1>3
  <2>2. f[j].form = "primitive"
    <3> SUFFICES ASSUME f[j].form # "primitive" PROVE FALSE
      OBVIOUS
    <3>1. j \in Open(f, i, b)
      BY <2>1 DEF Open
    <3> QED
      BY <1>1, <1>2, <2>1, <3>1
  <2>3. j = i
    BY <2>1, <2>2, NoEndLast
  <2>4. b <= i
    BY <1>4, <2>2, <2>3 DEF Passed
  <2> QED
    BY <1>3, <2>1, <2>3, <2>4
<1>7. n + 1 \in 1 .. b
  BY <1>1, <1>2, <1>3
<1>8. pos[i][n + 1] = pos[i][b]
  BY <1>3, <1>4, <1>6, <1>7, WalkStays
<1>9. EndsBehind(f, busy, n, i)
  BY <1>1, <1>5 DEF EndsBehind
<1>10. pos[i][n] = pos[i][n + 1] + 1 /\ d[pos[i][n]] = EndOf(f[n], Gap(busy))
  BY <1>1, <1>4, <1>9 DEF DocWalk
<1>11. pos[i][b] \in 0 .. Len(d)
  BY <1>3 DEF DocWalk
<1>12. pos[i][b] \in Nat
  BY <1>11
<1>13. Passed(f, busy, i, n)
  BY <1>1, <1>4, <1>5 DEF Passed
<1> QED
  BY <1>1, <1>2, <1>8, <1>10, <1>12, <1>13 DEF n

(* If nothing is to be closed, the place is that behind all end tags.      *)
LEMMA NextStarts ==
  ASSUME NEW f \in AllForests, NEW busy \in BOOLEAN, NEW d, NEW pos,
         DocWalk(f, busy, d, pos),
         NEW i, NEW b, NEW o, WalkAt(f, i, b, o), Passed(f, busy, i, b),
         NoneEnds(f, i, o)
  PROVE  pos[i][b] = pos[i][1]
<1>1. i \in 0 .. Len(f) /\ b \in 1 .. (i + 1) /\ Len(f) \in Nat
  BY NodesTyped DEF WalkAt
<1>2. CASE i = 0
  BY <1>1, <1>2
<1>3. CASE i # 0
  <2>1. i \in 1 .. Len(f)
    BY <1>1, <1>3
  <2>2. ASSUME NEW j \in 1 .. (b - 1) PROVE ~EndsBehind(f, busy, j, i)
    <3> SUFFICES ASSUME LastOf(f, j) = i, ~NoEndTag(f, busy, j) PROVE FALSE
      BY DEF EndsBehind
    <3>1. j \in 1 .. i /\ j < b /\ j \in 1 .. Len(f)
      BY <1>1
    <3>2. f[j].form = "primitive"
      <4> SUFFICES ASSUME f[j].form # "primitive" PROVE FALSE
        OBVIOUS
      <4>1. j \in Open(f, i, b)
        BY <3>1 DEF Open
      <4>2. LastOf(f, j) > i
        BY <4>1, WalkRest
      <4> QED
        BY <1>1, <4>2
    <3>3. j = i
      BY <3>1, <3>2, NoEndLast
    <3>4. b <= i
      BY <2>1, <3>2, <3>3 DEF Passed
    <3> QED
      BY <1>1, <3>1, <3>3, <3>4
  <2>3. 1 \in 1 .. b
    BY <1>1
  <2> QED
    BY <1>1, <2>1, <2>2, <2>3, WalkStays
<1> QED
  BY <1>2, <1>3

(***************************************************************************)
(* What the tags of a document write                                       *)
(***************************************************************************)
(* The octets of a length that is not minimal *)
LongLength(f, m) == IF f[m].extra > 0 THEN HeadOf(f, m).tl - 2 ELSE 0

(* The open tag of node m *)
TlvFor(f, m) ==
  Record(HeadOf(f, m).shape, No, HeadOf(f, m).indefinite /\ LongLength(f, m) = 0,
         IF LongLength(f, m) > 0 THEN 2 + LongLength(f, m)
         ELSE IF HeadOf(f, m).indefinite THEN 2 ELSE 0, 0)

(* A start tag has the header that its element begins with. *)
LEMMA StartIs ==
  ASSUME NEW f \in AllForests, NEW busy \in BOOLEAN, NEW m \in 1 .. Len(f)
  PROVE  LET t == StartToken(f, busy, m)
         IN  /\ t \in TokenType /\ TlvOf(t) = TlvFor(f, m)
             /\ t.kind = IF NoEndTag(f, busy, m) THEN "empty" ELSE "start"
<1> DEFINE kind  == IF NoEndTag(f, busy, m) THEN "empty" ELSE "start"
           gap   == Gap(busy)
           width == IF kind = "empty" THEN 2 ELSE 1
           t     == Token(kind, gap, width)
           u     == HeadOf(f, m)
           n     == LongLength(f, m)
           s     == StartToken(f, busy, m)
<1>1. s = [t EXCEPT !.shape = u.shape, !.indefinite = u.indefinite, !.lsize = n]
  BY Zenon DEF StartToken, StartOf, HeadOf, LongLength
<1>2. t = [kind |-> kind, text |-> gap, width |-> width,
           shape |-> "primitive", indefinite |-> FALSE, lsize |-> 0]
  BY Zenon DEF Token
<1>3. s \in TokenType
  BY PiecesTyped
<1> HIDE DEF kind, gap, width, u, n, s
<1>4. /\ s.shape = u.shape /\ s.indefinite = u.indefinite /\ s.lsize = n
      /\ s.kind = kind
  BY <1>1, <1>2
<1>5. TlvOf(s) = [shape |-> s.shape, eoc |-> FALSE,
                  indefinite |-> s.indefinite /\ s.lsize = 0,
                  tl |-> IF s.lsize > 0 THEN 2 + s.lsize
                         ELSE IF s.indefinite THEN 2 ELSE 0,
                  length |-> 0]
  BY Zenon DEF TlvOf
<1>6. TlvFor(f, m) = Record(u.shape, No, u.indefinite /\ n = 0,
                            IF n > 0 THEN 2 + n ELSE IF u.indefinite THEN 2 ELSE 0, 0)
  BY Zenon DEF TlvFor, u, n
<1>7. TlvOf(s) = TlvFor(f, m)
  BY <1>4, <1>5, <1>6, Zenon DEF Record, No
<1> QED
  BY <1>3, <1>4, <1>7 DEF s, kind

(* It becomes the header of the node when the length is known. *)
LEMMA TlvHead ==
  ASSUME NEW f \in AllForests, NEW m \in 1 .. Len(f)
  PROVE  LET v == TlvFor(f, m)
         IN  /\ f[m].form = "primitive" =>
                  /\ v.shape # "constructed"
                  /\ SetLength(SetTl(v, MinimalTl(f[m].length)), f[m].length)
                       = HeadOf(f, m)
             /\ f[m].form # "primitive" => v.shape = "constructed"
             /\ f[m].form = "indefinite" => v = HeadOf(f, m) /\ v.indefinite
             /\ f[m].form = "definite" =>
                  ~v.indefinite /\ HeadOf(f, m) = HeaderOf(v, Inner(f)[m])
<1> DEFINE v == TlvFor(f, m)
           u == HeadOf(f, m)
           e == f[m].extra
           n == LongLength(f, m)
           inner == Inner(f)[m]
           len == f[m].length
           tl == IF n > 0 THEN 2 + n ELSE IF u.indefinite THEN 2 ELSE 0
<1>1. /\ e \in Nat /\ len \in Nat /\ inner \in Nat
      /\ f[m].form \in {"primitive", "definite", "indefinite"}
      /\ f[m].form = "primitive" => e = 0
      /\ f[m].form = "indefinite" => e = 0
  <2>1. f[m] \in AnyNode
    BY NodesTyped
  <2>2. inner \in Nat
    BY InnerTyped
  <2> QED
    BY <2>1, <2>2 DEF AnyNode
<1>2. n = IF e > 0 THEN u.tl - 2 ELSE 0
  BY DEF LongLength
<1>3. v = Record(u.shape, No, u.indefinite /\ n = 0, tl, 0)
  BY Zenon DEF TlvFor
<1>4. /\ MinimalTl(0) = 2 /\ MinimalTl(len) \in Nat
      /\ MinimalTl(inner) \in Nat /\ MinimalTl(inner) >= 2
  <2>1. MinimalTl(0) = 2
    BY ForestAssumption DEF MinimalTl
  <2> HIDE DEF inner, len
  <2> QED
    BY <1>1, <2>1, MinimalTlNat
<1> HIDE DEF n, inner, e, len
<1>5. CASE f[m].form = "primitive"
  <2>1. u = Record("primitive", No, No, MinimalTl(len) + e, len)
    BY <1>5, HeadIs DEF len, e
  <2> HIDE DEF u
  <2>2. u.shape = "primitive" /\ u.indefinite = No /\ n = 0 /\ e = 0
    BY <1>1, <1>2, <1>5, <2>1, RecordParts
  <2>3. v = Record("primitive", No, No, 0, 0)
    <3>1. tl = 0 /\ ((No /\ n = 0) = No)
      BY <2>2 DEF No
    <3> HIDE DEF tl
    <3> QED
      BY <1>3, <2>2, <3>1
  <2> HIDE DEF v
  <2>4. /\ SetTl(v, MinimalTl(len)) = Record("primitive", No, No, MinimalTl(len), 0)
        /\ v.shape = "primitive"
    BY <2>3, RecordParts
  <2>5. SetLength(SetTl(v, MinimalTl(len)), len)
          = Record("primitive", No, No, MinimalTl(len), len)
    BY <2>4, RecordParts
  <2>6. MinimalTl(len) + e = MinimalTl(len)
    BY <1>4, <2>2
  <2> QED
    BY <1>5, <2>1, <2>4, <2>5, <2>6 DEF u, v, len
<1>6. CASE f[m].form = "indefinite"
  <2>1. u = Record("constructed", No, Yes, MinimalTl(0) + e, 0)
    BY <1>6, HeadIs DEF e
  <2> HIDE DEF u
  <2>2. u.shape = "constructed" /\ u.indefinite = Yes /\ n = 0 /\ e = 0
    BY <1>1, <1>2, <1>6, <2>1, RecordParts
  <2>3. v = Record("constructed", No, Yes, 2, 0)
    <3>1. tl = 2 /\ ((Yes /\ n = 0) = Yes)
      BY <2>2 DEF Yes
    <3> HIDE DEF tl
    <3> QED
      BY <1>3, <2>2, <3>1
  <2> HIDE DEF v
  <2>4. v.shape = "constructed" /\ v.indefinite = Yes
    BY <2>3, RecordParts
  <2>5. MinimalTl(0) + e = 2
    BY <1>4, <2>2
  <2> QED
    BY <1>6, <2>1, <2>3, <2>4, <2>5 DEF u, v, Yes
<1>7. CASE f[m].form = "definite"
  <2> DEFINE b == MinimalTl(inner)
             a == b + e
  <2>1. u = Record("constructed", No, No, a, inner)
    BY <1>7, HeadIs DEF inner, e
  <2>2. b \in Nat /\ b >= 2
    BY <1>4
  <2> HIDE DEF u, b
  <2>3. u.shape = "constructed" /\ u.indefinite = No /\ u.tl = a
    BY <2>1, RecordParts
  <2> DEFINE c == IF e > 0 THEN a ELSE 0
  <2>4. c = tl /\ ((No /\ n = 0) = No)
    BY <1>1, <1>2, <2>2, <2>3 DEF No
  <2>5. v = Record("constructed", No, No, c, 0)
    BY <1>3, <2>3, <2>4
  <2>6. (IF c > b THEN c ELSE b) = a
    BY <1>1, <2>2
  <2> HIDE DEF v, c, a
  <2>7. /\ v.shape = "constructed" /\ v.indefinite = No /\ v.tl = c
        /\ SetLength(v, inner) = Record("constructed", No, No, c, inner)
    BY <2>5, RecordParts
  <2>8. SetLength(v, inner).tl = c
    BY <2>7, RecordParts
  <2>9. SetTl(SetLength(v, inner), a) = u
    BY <2>1, <2>7, RecordParts
  <2>10. HeaderOf(v, inner) = SetTl(SetLength(v, inner), IF v.tl > b THEN v.tl ELSE b)
    BY Zenon DEF HeaderOf, SetTl, SetLength, b
  <2>11. HeaderOf(v, inner) = u
    BY <2>6, <2>7, <2>9, <2>10
  <2> QED
    BY <1>7, <2>7, <2>11 DEF u, v, inner, No
<1> QED
  BY <1>1, <1>5, <1>6, <1>7

(* What write_start() and write_end() do to the writers *)
LEMMA StartWrites ==
  ASSUME NEW y, Sound(y), NEW tlv \in Unit
  PROVE  LET r == WriteStart(y, tlv)
         IN  /\ Sound(r) /\ r.tlvs = Append(y.tlvs, tlv) /\ r.tlvs # << >>
             /\ tlv.shape # "constructed" => r.writers = y.writers /\ r.top = y.top
             /\ tlv.shape = "constructed" /\ tlv.indefinite =>
                  r.writers = WriteTo(y.writers, y.top, tlv) /\ r.top = y.top
             /\ tlv.shape = "constructed" /\ ~tlv.indefinite =>
                  r.writers = WithLevel(y.writers, y.top) /\ r.top = y.top + 1
<1> DEFINE r == WriteStart(y, tlv)
           s == Append(y.tlvs, tlv)
<1>1. Sound(r) /\ r.tlvs = s /\ r.tlvs # << >>
  BY WriteStartSound
<1>2. ASSUME tlv.shape # "constructed" PROVE r.writers = y.writers /\ r.top = y.top
  <2>1. r = SetTlvs(y, s)
    BY <1>2, Zenon DEF WriteStart, SetTlvs
  <2>2. y = State(y.tlvs, y.writers, y.top)
    BY SoundParts
  <2> HIDE DEF r, s
  <2> QED
    BY <2>1, <2>2, StateChanges
<1>3. tlv.shape = "constructed" => r = OpenTag(y, tlv)
  BY Zenon DEF WriteStart
<1> HIDE DEF r
<1>4. tlv.shape = "constructed" =>
        /\ tlv.indefinite =>
             r.writers = WriteTo(y.writers, y.top, tlv) /\ r.top = y.top
        /\ ~(tlv.indefinite) =>
             r.writers = WithLevel(y.writers, y.top) /\ r.top = y.top + 1
  <2>1. /\ tlv.indefinite =>
             /\ OpenTag(y, tlv).writers = WriteTo(y.writers, y.top, tlv)
             /\ OpenTag(y, tlv).top = y.top
        /\ ~(tlv.indefinite) =>
             /\ OpenTag(y, tlv).writers = WithLevel(y.writers, y.top)
             /\ OpenTag(y, tlv).top = y.top + 1
    BY TagOpened
  <2> QED
    BY <1>3, <2>1
<1> QED
  BY <1>1, <1>2, <1>4 DEF r

LEMMA EndWrites ==
  ASSUME NEW y, Sound(y), y.tlvs # << >>, NEW n \in Nat
  PROVE  LET r   == WriteEnd(y, n)
             tlv == Last(y.tlvs)
         IN  /\ Sound(r) /\ r.tlvs = Front(y.tlvs)
             /\ tlv.shape # "constructed" =>
                  /\ r.writers = WriteTo(y.writers, y.top,
                                         SetLength(SetTl(tlv, MinimalTl(n)), n))
                  /\ r.top = y.top
             /\ tlv.shape = "constructed" /\ tlv.indefinite =>
                  r.writers = WriteTo(y.writers, y.top, Eoc) /\ r.top = y.top
             /\ tlv.shape = "constructed" /\ ~tlv.indefinite =>
                  /\ r.writers = Pour(y.writers, y.top,
                                      HeaderOf(tlv, y.writers[y.top].pos))
                  /\ r.top = y.top - 1
<1> DEFINE r   == WriteEnd(y, n)
           tlv == Last(y.tlvs)
           m   == MinimalTl(n)
           new == SetLength(SetTl(tlv, m), n)
           s   == Front(y.tlvs)
           vs  == WriteTo(y.writers, y.top, new)
<1>1. Sound(r) /\ r.tlvs = s
  BY WriteEndSound, EndPops
<1>2. tlv \in Unit /\ m \in Nat
  BY SoundParts, FrontAndLast, MinimalTlNat
<1>3. new.shape = tlv.shape
  <2> HIDE DEF tlv, m
  <2> DEFINE o == SetTl(tlv, m)
  <2>1. o.shape = tlv.shape /\ o \in Unit
    BY <1>2, HeaderChanges DEF SetTl, Unit
  <2> HIDE DEF o
  <2>2. SetLength(o, n).shape = o.shape
    BY <2>1 DEF SetLength, Unit
  <2> QED
    BY <2>1, <2>2 DEF o
<1>4. r = IF new.shape = "constructed" THEN CloseTag(y)
          ELSE [y EXCEPT !.tlvs = s, !.writers = vs]
  <2>1. r = IF new.shape = "constructed" THEN CloseTag(y)
            ELSE [y EXCEPT !.tlvs = Front(@), !.writers = WriteTo(@, y.top, new)]
    BY Zenon DEF WriteEnd, SetTl, SetLength
  <2> HIDE DEF new
  <2> QED
    BY <2>1, Zenon
<1> HIDE DEF r, tlv, new, s, vs, m
<1>5. ASSUME tlv.shape # "constructed" PROVE r.writers = vs /\ r.top = y.top
  <2>1. r = SetWriters(SetTlvs(y, s), vs)
    BY <1>3, <1>4, <1>5 DEF SetTlvs, SetWriters
  <2>2. y = State(y.tlvs, y.writers, y.top)
    BY SoundParts
  <2>3. SetTlvs(y, s) = State(s, y.writers, y.top)
    BY <2>2, StateChanges
  <2> DEFINE o == SetTlvs(y, s)
  <2> HIDE DEF o
  <2>4. o = State(s, y.writers, y.top) /\ r = SetWriters(o, vs)
    BY <2>1, <2>3 DEF o
  <2> QED
    BY <2>4, StateChanges
<1>6. tlv.shape = "constructed" => r = CloseTag(y)
  BY <1>3, <1>4
<1>7. tlv.shape = "constructed" =>
        /\ tlv.indefinite => r.writers = WriteTo(y.writers, y.top, Eoc) /\ r.top = y.top
        /\ ~(tlv.indefinite) =>
             /\ r.writers = Pour(y.writers, y.top, HeaderOf(tlv, y.writers[y.top].pos))
             /\ r.top = y.top - 1
  BY <1>6, TagClosed DEF tlv
<1> QED
  BY <1>1, <1>5, <1>7 DEF r, tlv, new, s, vs, m

(* The converter y with the open tags tlvs has written what a walk passes, *)
(* and its open tags are the nodes that the walk is inside of.             *)
Converting(f, i, b, o, d, q, tlvs, y) ==
  /\ Place(f, i, b, o, d)
  /\ Held(f, i, b, d, q, y.top, y.writers)
  /\ tlvs \in Seq(Unit) /\ Len(tlvs) = Len(o)
  /\ \A n \in 1 .. Len(o) : tlvs[n] = TlvFor(f, o[n])

(* A constructed node opens. *)
LEMMA NodeOpens ==
  ASSUME NEW f \in AllForests, NEW i, NEW b, NEW o, NEW d, NEW q, NEW y, Sound(y),
         Converting(f, i, b, o, d, q, y.tlvs, y), NoneEnds(f, i, o), i < Len(f),
         f[i + 1].form # "primitive", TlvFor(f, i + 1) \in Unit
  PROVE  LET r == WriteStart(y, TlvFor(f, i + 1))
         IN  \E e, p : Converting(f, i + 1, i + 2, Append(o, i + 1), e, p, r.tlvs, r)
<1> DEFINE m   == i + 1
           tlv == TlvFor(f, m)
           r   == WriteStart(y, tlv)
           z   == Append(o, m)
<1>1. /\ Place(f, i, b, o, d) /\ Held(f, i, b, d, q, y.top, y.writers)
      /\ y.tlvs \in Seq(Unit) /\ Len(y.tlvs) = Len(o)
      /\ \A n \in 1 .. Len(o) : (y.tlvs)[n] = TlvFor(f, o[n])
  BY DEF Converting
<1>2. /\ m \in 1 .. Len(f) /\ m + 1 = i + 2 /\ m \in Nat /\ o \in Seq(Nat)
      /\ f[m].form = "indefinite" => Place(f, m, m + 1, z, d)
      /\ f[m].form = "definite" => Place(f, m, m + 1, z, Append(d, m))
  <2>1. i \in Nat /\ o \in Seq(Nat)
    BY <1>1, PlaceTyped
  <2> QED
    BY <1>1, <2>1, PlaceOpens
<1>3. /\ f[m].form # "definite" =>
           Held(f, m, m + 1, d, q, y.top, WriteTo(y.writers, y.top, HeadOf(f, m)))
      /\ f[m].form = "definite" =>
           \E p : Held(f, m, m + 1, Append(d, m), p, y.top + 1, WithLevel(y.writers, y.top))
  BY <1>1, SoundParts, HeldOpens
<1>4. /\ tlv.shape = "constructed"
      /\ f[m].form = "indefinite" => tlv = HeadOf(f, m) /\ tlv.indefinite
      /\ f[m].form = "definite" => ~(tlv.indefinite)
  BY <1>2, TlvHead
<1>5. f[m].form \in {"definite", "indefinite"}
  BY <1>2, HeadIs
<1> HIDE DEF m, tlv
<1>6. tlv \in Unit
  BY DEF tlv, m
<1>7. /\ r.tlvs = Append(y.tlvs, tlv)
      /\ tlv.indefinite => r.writers = WriteTo(y.writers, y.top, tlv) /\ r.top = y.top
      /\ ~(tlv.indefinite) => r.writers = WithLevel(y.writers, y.top) /\ r.top = y.top + 1
  BY <1>4, <1>6, StartWrites
<1> HIDE DEF r
<1>8. /\ r.tlvs \in Seq(Unit) /\ Len(r.tlvs) = Len(z)
      /\ \A n \in 1 .. Len(z) : (r.tlvs)[n] = TlvFor(f, z[n])
  <2> DEFINE s == y.tlvs
             l == Len(o)
  <2>1. /\ s \in Seq(Unit) /\ Len(s) = l /\ l \in Nat
        /\ \A n \in 1 .. l : s[n] = TlvFor(f, o[n])
    BY <1>1, <1>2
  <2>2. /\ Len(z) = l + 1 /\ z[l + 1] = m /\ \A n \in 1 .. l : z[n] = o[n]
    BY <1>2
  <2> HIDE DEF s, l, z
  <2>3. /\ Append(s, tlv) \in Seq(Unit) /\ Len(Append(s, tlv)) = l + 1
        /\ Append(s, tlv)[l + 1] = tlv
        /\ \A n \in 1 .. l : Append(s, tlv)[n] = s[n]
    BY <1>6, <2>1
  <2>4. \A n \in 1 .. l + 1 : Append(s, tlv)[n] = TlvFor(f, z[n])
    <3> SUFFICES ASSUME NEW n \in 1 .. l + 1 PROVE Append(s, tlv)[n] = TlvFor(f, z[n])
      OBVIOUS
    <3>1. n \in 1 .. l \/ n = l + 1
      BY <2>1
    <3> QED
      BY <2>1, <2>2, <2>3, <3>1 DEF tlv
  <2> QED
    BY <1>7, <2>2, <2>3, <2>4 DEF s
<1> HIDE DEF z
<1>9. CASE f[m].form = "indefinite"
  <2>1. Held(f, m, m + 1, d, q, r.top, r.writers)
    BY <1>3, <1>4, <1>7, <1>9
  <2>2. Converting(f, m, m + 1, z, d, q, r.tlvs, r)
    BY <1>2, <1>8, <1>9, <2>1 DEF Converting
  <2> QED
    BY <1>2, <2>2 DEF m, z, r, tlv
<1>10. CASE f[m].form = "definite"
  <2>1. PICK p : Held(f, m, m + 1, Append(d, m), p, r.top, r.writers)
    BY <1>3, <1>4, <1>7, <1>10
  <2>2. Converting(f, m, m + 1, z, Append(d, m), p, r.tlvs, r)
    BY <1>2, <1>8, <1>10, <2>1 DEF Converting
  <2> QED
    BY <1>2, <2>2 DEF m, z, r, tlv
<1> QED
  BY <1>5, <1>9, <1>10

(* The innermost constructed node ends. *)
LEMMA NodeCloses ==
  ASSUME NEW f \in AllForests, NEW i, NEW b, NEW o, NEW d, NEW q, NEW y, Sound(y),
         Converting(f, i, b, o, d, q, y.tlvs, y), ~NoneEnds(f, i, o), NEW n \in Nat
  PROVE  LET r == WriteEnd(y, n)
         IN  /\ y.tlvs # << >>
             /\ \E e, p : Converting(f, i, Last(o), Front(o), e, p, r.tlvs, r)
<1> DEFINE m   == Last(o)
           z   == Front(o)
           tlv == Last(y.tlvs)
           r   == WriteEnd(y, n)
           l   == Len(o)
<1>1. /\ Place(f, i, b, o, d) /\ Held(f, i, b, d, q, y.top, y.writers)
      /\ y.tlvs \in Seq(Unit) /\ Len(y.tlvs) = l
      /\ \A j \in 1 .. l : (y.tlvs)[j] = TlvFor(f, o[j])
  BY DEF Converting
<1>2. /\ o # << >> /\ m \in 1 .. Len(f) /\ f[m].form # "primitive"
      /\ f[m].form = "definite" => Place(f, i, m, z, Front(d))
      /\ f[m].form # "definite" => Place(f, i, m, z, d)
  BY <1>1, PlaceCloses
<1>3. /\ f[m].form = "indefinite" =>
           Held(f, i, m, d, q, y.top, WriteTo(y.writers, y.top, Eoc))
      /\ f[m].form = "definite" =>
           /\ y.writers[y.top].pos = Inner(f)[m]
           /\ Held(f, i, m, Front(d), Front(q), y.top - 1,
                   Pour(y.writers, y.top, HeadOf(f, m)))
  BY <1>1, SoundParts, HeldCloses
<1>4. o \in Seq(Nat) /\ l \in Nat /\ l >= 1
  <2>1. o \in Seq(Nat)
    BY <1>1, PlaceTyped
  <2> QED
    BY <1>2, <2>1
<1>5. /\ m = o[l] /\ Len(z) = l - 1 /\ \A j \in 1 .. l - 1 : z[j] = o[j]
  <2>1. m = o[l]
    BY DEF Last
  <2>2. Len(z) = l - 1 /\ \A j \in 1 .. l - 1 : z[j] = o[j]
    <3> HIDE DEF m, z
    <3>1. z = SubSeq(o, 1, l - 1)
      BY Zenon DEF z, Front
    <3>2. /\ o \in Seq(Nat) /\ 1 \in Nat /\ l - 1 \in Nat /\ 1 <= 1 /\ 1 <= l - 1 + 1
          /\ l - 1 <= Len(o) /\ l - 1 - 1 + 1 = l - 1
          /\ \A j \in 1 .. l - 1 : 1 + j - 1 = j
      BY <1>4
    <3>3. /\ Len(SubSeq(o, 1, l - 1)) = l - 1 - 1 + 1
          /\ \A j \in 1 .. (l - 1 - 1 + 1) : SubSeq(o, 1, l - 1)[j] = o[1 + j - 1]
      BY <3>2, SubSeqElements
    <3> HIDE DEF l
    <3> QED
      BY <3>1, <3>2, <3>3
  <2> QED
    BY <2>1, <2>2
<1>6. y.tlvs # << >> /\ tlv = TlvFor(f, m)
  <2>1. l \in 1 .. l /\ Last(y.tlvs) = (y.tlvs)[l] /\ y.tlvs # << >>
    BY <1>1, <1>4 DEF Last
  <2> QED
    BY <1>1, <1>5, <2>1
<1> HIDE DEF m
<1>7. /\ TlvFor(f, m).shape = "constructed"
      /\ f[m].form = "indefinite" => TlvFor(f, m).indefinite
      /\ f[m].form = "definite" => /\ ~(TlvFor(f, m).indefinite)
                                   /\ HeadOf(f, m) = HeaderOf(TlvFor(f, m), Inner(f)[m])
      /\ f[m].form \in {"definite", "indefinite"}
  BY <1>2, TlvHead, HeadIs
<1> HIDE DEF tlv
<1>8. /\ r.tlvs = Front(y.tlvs)
      /\ tlv.shape = "constructed" /\ tlv.indefinite =>
           r.writers = WriteTo(y.writers, y.top, Eoc) /\ r.top = y.top
      /\ tlv.shape = "constructed" /\ ~(tlv.indefinite) =>
           /\ r.writers = Pour(y.writers, y.top, HeaderOf(tlv, y.writers[y.top].pos))
           /\ r.top = y.top - 1
  BY <1>6, EndWrites DEF tlv
<1> HIDE DEF r
<1>9. /\ r.tlvs \in Seq(Unit) /\ Len(r.tlvs) = Len(z)
      /\ \A j \in 1 .. Len(z) : (r.tlvs)[j] = TlvFor(f, z[j])
  <2> DEFINE s == y.tlvs
  <2>1. /\ s \in Seq(Unit) /\ Len(s) = l /\ \A j \in 1 .. l : s[j] = TlvFor(f, o[j])
    BY <1>1
  <2> HIDE DEF s, l, z
  <2>2. /\ Front(s) \in Seq(Unit) /\ Len(Front(s)) = l - 1
        /\ \A j \in 1 .. l - 1 : Front(s)[j] = s[j]
    BY <1>4, <2>1 DEF Front
  <2>3. \A j \in 1 .. l - 1 : Front(s)[j] = TlvFor(f, z[j])
    BY <1>4, <1>5, <2>1, <2>2
  <2> QED
    BY <1>5, <1>8, <2>2, <2>3 DEF s
<1> HIDE DEF z
<1>10. CASE f[m].form = "indefinite"
  <2>1. Held(f, i, m, d, q, r.top, r.writers)
    BY <1>3, <1>6, <1>7, <1>8, <1>10
  <2>2. Converting(f, i, m, z, d, q, r.tlvs, r)
    BY <1>2, <1>9, <1>10, <2>1 DEF Converting
  <2> QED
    BY <1>6, <2>2 DEF m, z, r
<1>11. CASE f[m].form = "definite"
  <2>1. Held(f, i, m, Front(d), Front(q), r.top, r.writers)
    BY <1>3, <1>6, <1>7, <1>8, <1>11
  <2>2. Converting(f, i, m, z, Front(d), Front(q), r.tlvs, r)
    BY <1>2, <1>9, <1>11, <2>1 DEF Converting
  <2> QED
    BY <1>6, <2>2 DEF m, z, r
<1> QED
  BY <1>7, <1>10, <1>11

(* A primitive node is written at its end. *)
LEMMA PrimitiveWritten ==
  ASSUME NEW f \in AllForests, NEW i, NEW b, NEW o, NEW d, NEW q, NEW y, Sound(y),
         Converting(f, i, b, o, d, q, Front(y.tlvs), y), NoneEnds(f, i, o), i < Len(f),
         f[i + 1].form = "primitive",
         y.tlvs # << >>, Last(y.tlvs) = TlvFor(f, i + 1)
  PROVE  LET r == WriteEnd(y, f[i + 1].length)
         IN  Converting(f, i + 1, i + 1, o, d, q, r.tlvs, r)
<1> DEFINE m   == i + 1
           len == f[m].length
           tlv == TlvFor(f, m)
           r   == WriteEnd(y, len)
<1>1. /\ Place(f, i, b, o, d) /\ Held(f, i, b, d, q, y.top, y.writers)
      /\ Front(y.tlvs) \in Seq(Unit) /\ Len(Front(y.tlvs)) = Len(o)
      /\ \A n \in 1 .. Len(o) : Front(y.tlvs)[n] = TlvFor(f, o[n])
  BY DEF Converting
<1>2. i \in Nat
  BY <1>1, PlaceTyped
<1>3. /\ m \in 1 .. Len(f) /\ m \in Nat /\ Place(f, m, m + 1, o, d)
  BY <1>1, <1>2, PlaceOpens
<1>4. Held(f, m, m + 1, d, q, y.top, WriteTo(y.writers, y.top, HeadOf(f, m)))
  BY <1>1, SoundParts, HeldOpens
<1>5. /\ tlv.shape # "constructed" /\ len \in Nat
      /\ SetLength(SetTl(tlv, MinimalTl(len)), len) = HeadOf(f, m)
  BY <1>3, TlvHead, ForestTyped
<1> HIDE DEF m, len, tlv
<1>6. /\ r.tlvs = Front(y.tlvs) /\ r.top = y.top
      /\ r.writers = WriteTo(y.writers, y.top, HeadOf(f, m))
  BY <1>5, EndWrites DEF tlv, m
<1> HIDE DEF r
<1>7. Place(f, m, m, o, d)
  <2>1. Open(f, m, m) = Open(f, m, m + 1) /\ f[m].form = "primitive"
    <3>1. f[m].form = "primitive"
      BY DEF m
    <3>2. \A j \in 1 .. m : j < m + 1 /\ (j < m \/ j = m)
      BY <1>3
    <3> QED
      BY <3>1, <3>2 DEF Open
  <2>2. m \in 0 .. Len(f) /\ m \in 1 .. (m + 1)
    BY <1>3, NodesTyped
  <2> QED
    BY <1>3, <2>1, <2>2 DEF Place, WalkAt, OpenDefinites
<1>8. Walked(f, m, m) = Walked(f, m, m + 1)
  <2>1. m \in 0 .. Len(f) /\ m <= m + 1 /\ m + 1 \in Nat /\ \A j \in m .. (m + 1 - 1) : j = m
    BY <1>3, NodesTyped
  <2>2. f[m].form # "indefinite"
    BY DEF m
  <2>3. \A j \in m .. (m + 1 - 1) :
          j <= m => ~(f[j].form = "indefinite" /\ LastOf(f, j) = m)
    BY <2>1, <2>2
  <2> QED
    BY <1>3, <2>1, <2>3, WalkedSame
<1>9. Held(f, m, m, d, q, r.top, r.writers)
  BY <1>4, <1>6, <1>8 DEF Held
<1>10. Converting(f, m, m, o, d, q, r.tlvs, r)
  BY <1>1, <1>6, <1>7, <1>9 DEF Converting
<1> QED
  BY <1>10 DEF m, r, len

(***************************************************************************)
(* Tags of a document, one by one                                          *)
(***************************************************************************)
(* The h tags of a document that were handled, and the converter y, are at *)
(* a place of a walk:                                                      *)
Between(f, busy, pos, h, y) ==
  \E i, b, o, d, q : /\ Converting(f, i, b, o, d, q, y.tlvs, y)
                     /\ Passed(f, busy, i, b)
                     /\ h = pos[i][b]

(* or behind the comment in front of a node,                               *)
Noted(f, busy, pos, h, y) ==
  \E i, b, o, d, q : /\ Converting(f, i, b, o, d, q, y.tlvs, y)
                     /\ NoneEnds(f, i, o) /\ i < Len(f)
                     /\ busy /\ h = pos[i][1] + 1

(* or in a primitive node, of which nothing is written yet,                *)
Within(f, busy, pos, h, y) ==
  \E i, b, o, d, q : /\ Converting(f, i, b, o, d, q, Front(y.tlvs), y)
                     /\ NoneEnds(f, i, o) /\ i < Len(f)
                     /\ f[i + 1].form = "primitive" /\ ~NoEndTag(f, busy, i + 1)
                     /\ y.tlvs # << >> /\ Last(y.tlvs) = TlvFor(f, i + 1)
                     /\ h = pos[i + 1][i + 2]

(* or in front of the declaration.                                         *)
Ahead(busy, h, y) == busy /\ h = 0 /\ y = NewWriters

Converted(f, busy, pos, h, y) ==
  \/ Ahead(busy, h, y)
  \/ Between(f, busy, pos, h, y)
  \/ Noted(f, busy, pos, h, y)
  \/ Within(f, busy, pos, h, y)

(* What an empty element tag or a start tag writes *)
Started(t, y) ==
  IF t.kind = "empty" THEN WriteEnd(WriteStart(y, TlvOf(t)), 0)
                      ELSE WriteStart(y, TlvOf(t))

(* The start tag of a node *)
LEMMA StartConverts ==
  ASSUME NEW f \in AllForests, NEW busy \in BOOLEAN, NEW z, NEW pos,
         DocWalk(f, busy, z, pos),
         NEW i, NEW b, NEW o, NEW d, NEW q, NEW y, Sound(y),
         Converting(f, i, b, o, d, q, y.tlvs, y), NoneEnds(f, i, o), i < Len(f)
  PROVE  LET r == Started(StartToken(f, busy, i + 1), y)
         IN  Between(f, busy, pos, pos[i + 1][i + 2], r)
               \/ Within(f, busy, pos, pos[i + 1][i + 2], r)
<1> DEFINE m == i + 1
           t == StartToken(f, busy, m)
           tlv == TlvFor(f, m)
           start == WriteStart(y, tlv)
           r == Started(t, y)
<1>1. /\ i \in Nat /\ m \in 1 .. Len(f) /\ m \in Nat /\ i + 2 = m + 1 /\ o \in Seq(Nat)
      /\ m \in 1 .. m
  <2>1. Place(f, i, b, o, d)
    BY DEF Converting
  <2>2. i \in Nat /\ o \in Seq(Nat)
    BY <2>1, PlaceTyped
  <2>3. Len(f) \in Nat
    BY NodesTyped
  <2> QED
    BY <2>2, <2>3
<1>2. /\ TlvOf(t) = tlv /\ tlv \in Unit
      /\ t.kind = IF NoEndTag(f, busy, m) THEN "empty" ELSE "start"
  <2>1. /\ TlvOf(t) = tlv /\ t \in TokenType
        /\ t.kind = IF NoEndTag(f, busy, m) THEN "empty" ELSE "start"
    BY <1>1, StartIs
  <2> QED
    BY <2>1, TlvTyped
<1>3. /\ NoEndTag(f, busy, m) => r = WriteEnd(start, 0)
      /\ ~NoEndTag(f, busy, m) => r = start
  <2>1. r = IF t.kind = "empty" THEN WriteEnd(WriteStart(y, TlvOf(t)), 0)
            ELSE WriteStart(y, TlvOf(t))
    BY Zenon DEF Started
  <2> HIDE DEF r, t, tlv
  <2> QED
    BY <1>2, <2>1
<1> HIDE DEF r, t
<1>4. Sound(start) /\ start.tlvs = Append(y.tlvs, tlv) /\ start.tlvs # << >>
  BY <1>2, StartWrites
<1>5. NoEndTag(f, busy, m) => LastOf(f, m) = m /\ f[m].length = 0
                              /\ pos[m][m] = pos[m][m + 1]
  <2> SUFFICES ASSUME NoEndTag(f, busy, m)
               PROVE  LastOf(f, m) = m /\ f[m].length = 0 /\ pos[m][m] = pos[m][m + 1]
    OBVIOUS
  <2>1. ~EndsBehind(f, busy, m, m)
    BY DEF EndsBehind
  <2>2. LastOf(f, m) = m /\ f[m].length = 0
    BY <1>1, NoEndLast
  <2> HIDE DEF m
  <2> QED
    BY <1>1, <2>1, <2>2 DEF DocWalk
<1>6. CASE f[m].form # "primitive"
  <2>1. PICK e, p : Converting(f, m, m + 1, Append(o, m), e, p, start.tlvs, start)
    BY <1>1, <1>2, <1>6, NodeOpens
  <2>2. CASE ~NoEndTag(f, busy, m)
    <3>1. Passed(f, busy, m, m + 1)
      BY <1>6, <2>2 DEF Passed
    <3> HIDE DEF start, m
    <3>2. Between(f, busy, pos, pos[m][m + 1], start)
      BY <2>1, <3>1 DEF Between
    <3> QED
      BY <1>1, <1>3, <2>2, <3>2 DEF r, t, m
  <2>3. CASE NoEndTag(f, busy, m)
    <3> DEFINE s == Append(o, m)
    <3>1. Last(s) = m /\ s # << >>
      BY <1>1 DEF Last
    <3>2. ~NoneEnds(f, m, s)
      BY <1>1, <1>5, <2>3, <3>1 DEF NoneEnds
    <3> HIDE DEF s, start, m
    <3>3. 0 \in Nat
      OBVIOUS
    <3>4. \E j, n : Converting(f, m, Last(s), Front(s), j, n,
                               WriteEnd(start, 0).tlvs, WriteEnd(start, 0))
      BY <1>4, <2>1, <3>2, <3>3, NodeCloses DEF s
    <3>5. PICK j, n : Converting(f, m, m, Front(s), j, n, r.tlvs, r)
      BY <1>3, <2>3, <3>1, <3>4
    <3>6. Passed(f, busy, m, m)
      BY <1>1 DEF Passed
    <3>7. Between(f, busy, pos, pos[m][m + 1], r)
      BY <1>5, <2>3, <3>5, <3>6 DEF Between
    <3> QED
      BY <1>1, <3>7 DEF r, t, m
  <2> QED
    BY <2>2, <2>3
<1>7. CASE f[m].form = "primitive"
  <2>1. tlv.shape # "constructed"
    BY <1>1, <1>7, TlvHead
  <2>2. start.writers = y.writers /\ start.top = y.top
    BY <1>2, <2>1, StartWrites
  <2>3. Front(start.tlvs) = y.tlvs /\ Last(start.tlvs) = tlv
    <3>1. y.tlvs \in Seq(Unit)
      BY DEF Converting
    <3> DEFINE s == y.tlvs
    <3> HIDE DEF s, tlv
    <3>2. s \in Seq(Unit)
      BY <3>1 DEF s
    <3>3. Front(Append(s, tlv)) = s /\ Last(Append(s, tlv)) = tlv
      BY <1>2, <3>2 DEF Front, Last
    <3> QED
      BY <1>4, <3>3 DEF s
  <2> HIDE DEF start
  <2>4. Converting(f, i, b, o, d, q, Front(start.tlvs), start)
    BY <2>2, <2>3 DEF Converting
  <2>5. CASE ~NoEndTag(f, busy, m)
    <3>1. Within(f, busy, pos, pos[i + 1][i + 2], start)
      BY <1>4, <1>7, <2>3, <2>4, <2>5 DEF Within
    <3> QED
      BY <1>3, <2>5, <3>1 DEF r, t
  <2>6. CASE NoEndTag(f, busy, m)
    <3>1. Converting(f, m, m, o, d, q, WriteEnd(start, f[m].length).tlvs,
                     WriteEnd(start, f[m].length))
      BY <1>4, <1>7, <2>3, <2>4, PrimitiveWritten
    <3>2. f[m].length = 0 /\ Passed(f, busy, m, m)
      BY <1>1, <1>5, <2>6 DEF Passed
    <3>3. Converting(f, m, m, o, d, q, r.tlvs, r)
      BY <1>3, <2>6, <3>1, <3>2
    <3> HIDE DEF m
    <3>4. Between(f, busy, pos, pos[m][m + 1], r)
      BY <1>5, <2>6, <3>2, <3>3 DEF Between
    <3> QED
      BY <1>1, <3>4 DEF r, t, m
  <2> QED
    BY <2>5, <2>6
<1> QED
  BY <1>6, <1>7

(* The end tag of a primitive node *)
LEMMA TextConverts ==
  ASSUME NEW f \in AllForests, NEW busy \in BOOLEAN, NEW z, NEW pos,
         DocWalk(f, busy, z, pos), NEW h, NEW y, Sound(y), Within(f, busy, pos, h, y)
  PROVE  LET t == z[h + 1]
         IN  /\ t.kind = "end" /\ y.tlvs # << >>
             /\ Between(f, busy, pos, h + 1, WriteEnd(y, t.text))
<1>1. PICK i, b, o, d, q :
        /\ Converting(f, i, b, o, d, q, Front(y.tlvs), y)
        /\ NoneEnds(f, i, o) /\ i < Len(f)
        /\ f[i + 1].form = "primitive" /\ ~NoEndTag(f, busy, i + 1)
        /\ y.tlvs # << >> /\ Last(y.tlvs) = TlvFor(f, i + 1)
        /\ h = pos[i + 1][i + 2]
  BY Zenon DEF Within
<1> DEFINE m == i + 1
           r == WriteEnd(y, f[m].length)
<1>2. /\ m \in 1 .. Len(f) /\ m \in Nat /\ i + 2 = m + 1 /\ m \in 1 .. m
  <2>1. Place(f, i, b, o, d)
    BY <1>1 DEF Converting
  <2>2. i \in Nat
    BY <2>1, PlaceTyped
  <2>3. Len(f) \in Nat
    BY NodesTyped
  <2> QED
    BY <1>1, <2>2, <2>3
<1>3. Converting(f, m, m, o, d, q, r.tlvs, r)
  BY <1>1, PrimitiveWritten
<1>4. LastOf(f, m) = m
  BY <1>1, <1>2, NoEndLast
<1>5. f[m].form = "primitive" /\ ~NoEndTag(f, busy, m) /\ h = pos[m][m + 1]
  BY <1>1, <1>2
<1> HIDE DEF m
<1>6. EndsBehind(f, busy, m, m)
  BY <1>4, <1>5 DEF EndsBehind
<1>7. pos[m][m] = h + 1 /\ z[pos[m][m]] = EndOf(f[m], Gap(busy))
  BY <1>2, <1>5, <1>6 DEF DocWalk
<1>8. /\ EndOf(f[m], Gap(busy)).kind = "end"
      /\ EndOf(f[m], Gap(busy)).text = f[m].length
  BY <1>5 DEF EndOf, Token
<1>9. z[h + 1].kind = "end" /\ z[h + 1].text = f[m].length
  BY <1>7, <1>8
<1>10. Passed(f, busy, m, m)
  BY <1>2 DEF Passed
<1> HIDE DEF r
<1>11. Between(f, busy, pos, h + 1, r)
  BY <1>3, <1>7, <1>10 DEF Between
<1>12. r = WriteEnd(y, z[h + 1].text)
  BY <1>9, Zenon DEF r
<1> QED
  BY <1>1, <1>9, <1>11, <1>12

(* The next tag behind the walk *)
LEMMA NextConverts ==
  ASSUME NEW f \in AllForests, NEW busy \in BOOLEAN, NEW z, NEW pos,
         DocWalk(f, busy, z, pos), NEW h, h < Len(z),
         NEW y, Sound(y), Between(f, busy, pos, h, y)
  PROVE  LET t == z[h + 1]
         IN  \/ /\ t.kind = "end" /\ y.tlvs # << >>
                /\ \A n \in Nat : Between(f, busy, pos, h + 1, WriteEnd(y, n))
             \/ t.kind = "comment" /\ Noted(f, busy, pos, h + 1, y)
             \/ /\ t.kind \in {"start", "empty"}
                /\ \/ Between(f, busy, pos, h + 1, Started(t, y))
                   \/ Within(f, busy, pos, h + 1, Started(t, y))
<1>1. PICK i, b, o, d, q : /\ Converting(f, i, b, o, d, q, y.tlvs, y)
                           /\ Passed(f, busy, i, b) /\ h = pos[i][b]
  BY Zenon DEF Between
<1>2. Place(f, i, b, o, d) /\ WalkAt(f, i, b, o) /\ i \in Nat /\ i \in 0 .. Len(f)
  <2>1. Place(f, i, b, o, d)
    BY <1>1 DEF Converting
  <2> QED
    BY <2>1, PlaceTyped
<1>3. CASE ~NoneEnds(f, i, o)
  <2> DEFINE m == Last(o)
  <2>1. /\ Passed(f, busy, i, m) /\ pos[i][m] = h + 1
        /\ z[h + 1] = EndOf(f[m], Gap(busy))
    BY <1>1, <1>2, <1>3, NextEnds
  <2>2. z[h + 1].kind = "end"
    BY <2>1 DEF EndOf, Token
  <2>3. y.tlvs # << >>
    <3>1. 0 \in Nat
      OBVIOUS
    <3> QED
      BY <1>1, <1>3, <3>1, NodeCloses
  <2>4. ASSUME NEW n \in Nat PROVE Between(f, busy, pos, h + 1, WriteEnd(y, n))
    <3> DEFINE r == WriteEnd(y, n)
    <3>1. PICK e, p : Converting(f, i, m, Front(o), e, p, r.tlvs, r)
      BY <1>1, <1>3, NodeCloses
    <3> HIDE DEF r, m
    <3>2. Between(f, busy, pos, h + 1, r)
      BY <2>1, <3>1 DEF Between
    <3> QED
      BY <3>2 DEF r
  <2> QED
    BY <2>2, <2>3, <2>4
<1>4. CASE NoneEnds(f, i, o)
  <2>1. h = pos[i][1]
    BY <1>1, <1>2, <1>4, NextStarts
  <2>2. i < Len(f)
    <3> SUFFICES ASSUME i = Len(f) PROVE FALSE
      BY <1>2, NodesTyped
    <3>1. h = Len(z)
      BY <2>1 DEF DocWalk
    <3>2. Len(z) \in Nat
      <4>1. /\ Len(f) \in 0 .. Len(f) /\ 1 \in 1 .. (Len(f) + 1)
        BY NodesTyped
      <4>2. pos[Len(f)][1] \in 0 .. Len(z) /\ pos[Len(f)][1] = Len(z)
        BY <4>1 DEF DocWalk
      <4> QED
        BY <4>2
    <3> QED
      BY <3>1, <3>2
  <2> DEFINE m == i + 1
  <2>3. m \in 1 .. Len(f) /\ i + 2 = m + 1 /\ m - 1 = i
    BY <1>2, <2>2, NodesTyped
  <2>4. CASE busy
    <3>1. z[h + 1] = Token("comment", Gap(busy), 3)
      BY <2>1, <2>3, <2>4 DEF DocWalk
    <3>2. z[h + 1].kind = "comment"
      BY <3>1 DEF Token
    <3>3. Noted(f, busy, pos, h + 1, y)
      BY <1>1, <1>4, <2>1, <2>2, <2>4 DEF Noted
    <3> QED
      BY <3>2, <3>3
  <2>5. CASE ~busy
    <3>1. pos[m][m + 1] = h + 1 /\ z[h + 1] = StartToken(f, busy, m)
      <4>1. Gap(busy) = 0
        BY <2>5 DEF Gap
      <4>2. pos[m][m + 1] = pos[m - 1][1] + Gap(busy) + 1
            /\ z[pos[m][m + 1]] = StartToken(f, busy, m)
        BY <2>3 DEF DocWalk
      <4>3. h \in Nat
        <5>1. i \in 0 .. Len(f) /\ 1 \in 1 .. (i + 1)
          BY <1>2
        <5>2. pos[i][1] \in 0 .. Len(z)
          BY <5>1 DEF DocWalk
        <5> QED
          BY <2>1, <5>2
      <4> QED
        BY <2>1, <2>3, <4>1, <4>2, <4>3
    <3>2. z[h + 1].kind \in {"start", "empty"}
      BY <2>3, <3>1, StartIs
    <3>3. \/ Between(f, busy, pos, pos[i + 1][i + 2], Started(StartToken(f, busy, i + 1), y))
          \/ Within(f, busy, pos, pos[i + 1][i + 2], Started(StartToken(f, busy, i + 1), y))
      BY <1>1, <1>4, <2>2, StartConverts
    <3> QED
      BY <2>3, <3>1, <3>2, <3>3
  <2> QED
    BY <2>4, <2>5
<1> QED
  BY <1>3, <1>4

(* The start tag behind a comment *)
LEMMA NotedConverts ==
  ASSUME NEW f \in AllForests, NEW busy \in BOOLEAN, NEW z, NEW pos,
         DocWalk(f, busy, z, pos), NEW h, NEW y, Sound(y), Noted(f, busy, pos, h, y)
  PROVE  LET t == z[h + 1]
         IN  /\ t.kind \in {"start", "empty"}
             /\ \/ Between(f, busy, pos, h + 1, Started(t, y))
                \/ Within(f, busy, pos, h + 1, Started(t, y))
<1>1. PICK i, b, o, d, q : /\ Converting(f, i, b, o, d, q, y.tlvs, y)
                           /\ NoneEnds(f, i, o) /\ i < Len(f)
                           /\ busy /\ h = pos[i][1] + 1
  BY Zenon DEF Noted
<1>2. i \in Nat /\ i \in 0 .. Len(f)
  <2>1. Place(f, i, b, o, d)
    BY <1>1 DEF Converting
  <2> QED
    BY <2>1, PlaceTyped
<1> DEFINE m == i + 1
<1>3. m \in 1 .. Len(f) /\ i + 2 = m + 1 /\ m - 1 = i
  BY <1>1, <1>2, NodesTyped
<1>4. pos[m][m + 1] = h + 1 /\ z[h + 1] = StartToken(f, busy, m)
  <2>1. Gap(busy) = 1
    BY <1>1 DEF Gap
  <2>2. pos[m][m + 1] = pos[m - 1][1] + Gap(busy) + 1
        /\ z[pos[m][m + 1]] = StartToken(f, busy, m)
    BY <1>3 DEF DocWalk
  <2>3. pos[i][1] \in Nat
    <3>1. i \in 0 .. Len(f) /\ 1 \in 1 .. (i + 1)
      BY <1>2
    <3>2. pos[i][1] \in 0 .. Len(z)
      BY <3>1 DEF DocWalk
    <3> QED
      BY <3>2
  <2> QED
    BY <1>1, <1>3, <2>1, <2>2, <2>3
<1>5. z[h + 1].kind \in {"start", "empty"}
  BY <1>3, <1>4, StartIs
<1>6. \/ Between(f, busy, pos, pos[i + 1][i + 2], Started(StartToken(f, busy, i + 1), y))
      \/ Within(f, busy, pos, pos[i + 1][i + 2], Started(StartToken(f, busy, i + 1), y))
  BY <1>1, StartConverts
<1> QED
  BY <1>3, <1>4, <1>5, <1>6

(* In front of the first node *)
LEMMA WalkStarts ==
  ASSUME NEW f \in AllForests, NEW busy \in BOOLEAN, NEW z, NEW pos,
         DocWalk(f, busy, z, pos)
  PROVE  /\ Between(f, busy, pos, Gap(busy), NewWriters)
         /\ Converted(f, busy, pos, 0, NewWriters)
<1> DEFINE y == NewWriters
<1>1. y.tlvs = << >> /\ y.top = 1 /\ y.writers = <<EmptyWriter>>
  BY DEF NewWriters
<1>2. Place(f, 0, 1, << >>, << >>)
  BY PlaceBegins
<1>3. Held(f, 0, 1, << >>, << >>, y.top, y.writers)
  BY <1>1, HeldBegins
<1>4. /\ y.tlvs \in Seq(Unit) /\ Len(y.tlvs) = 0 /\ Len(<< >>) = 0 /\ 1 .. 0 = {}
  BY <1>1
<1> HIDE DEF y
<1>5. Converting(f, 0, 1, << >>, << >>, << >>, y.tlvs, y)
  BY <1>2, <1>3, <1>4 DEF Converting
<1>6. Passed(f, busy, 0, 1)
  BY DEF Passed
<1>7. pos[0][1] = Gap(busy)
  BY DEF DocWalk
<1>8. Between(f, busy, pos, Gap(busy), y)
  BY <1>5, <1>6, <1>7 DEF Between
<1>9. Converted(f, busy, pos, 0, y)
  BY <1>8 DEF Converted, Ahead, Gap, y
<1> QED
  BY <1>8, <1>9 DEF y

(* Each tag takes the converter to the next place. *)
LEMMA TokenConverts ==
  ASSUME NEW f \in AllForests, NEW busy \in BOOLEAN, NEW z, NEW pos,
         DocWalk(f, busy, z, pos), NEW h, h < Len(z), NEW y, Sound(y),
         Converted(f, busy, pos, h, y), z[h + 1] \in TokenType
  PROVE  LET t == z[h + 1]
         IN  /\ t.kind = "decl" => h = 0 /\ Converted(f, busy, pos, h + 1, y)
             /\ t.kind = "comment" => Converted(f, busy, pos, h + 1, y)
             /\ t.kind \in {"start", "empty"} =>
                  Converted(f, busy, pos, h + 1, Started(t, y))
             /\ t.kind = "end" =>
                  /\ y.tlvs # << >>
                  /\ Converted(f, busy, pos, h + 1, WriteEnd(y, t.text))
<1> DEFINE t == z[h + 1]
<1>1. t.text \in Nat
  BY TokenParts
<1>2. CASE Ahead(busy, h, y)
  <2>1. busy /\ h = 0 /\ y = NewWriters /\ Gap(busy) = 1
    BY <1>2 DEF Ahead, Gap
  <2>2. t = Token("decl", 0, 3)
    BY <2>1 DEF DocWalk
  <2>3. t.kind = "decl"
    BY <2>2 DEF Token
  <2>4. Between(f, busy, pos, h + 1, y)
    <3>1. Between(f, busy, pos, Gap(busy), NewWriters)
      BY WalkStarts
    <3>2. y = NewWriters /\ h = 0 /\ Gap(busy) = 1
      BY <2>1, Zenon
    <3>3. 0 + 1 = 1
      OBVIOUS
    <3> HIDE DEF t
    <3> QED
      BY <3>1, <3>2, <3>3, Zenon
  <2> QED
    BY <2>1, <2>3, <2>4 DEF Converted
<1>3. CASE Between(f, busy, pos, h, y)
  BY <1>1, <1>3, NextConverts DEF Converted
<1>4. CASE Noted(f, busy, pos, h, y)
  BY <1>4, NotedConverts DEF Converted
<1>5. CASE Within(f, busy, pos, h, y)
  BY <1>5, TextConverts DEF Converted
<1> QED
  BY <1>2, <1>3, <1>4, <1>5 DEF Converted

(* The output is a beginning of the forest, and all of it at the end. *)
LEMMA ConvertedOutput ==
  ASSUME NEW f \in AllForests, NEW busy \in BOOLEAN, NEW z, NEW pos,
         DocWalk(f, busy, z, pos), NEW h, NEW y, Converted(f, busy, pos, h, y)
  PROVE  /\ IsPrefix(y.writers[1].items, Units(f))
         /\ h = Len(z) /\ y.tlvs = << >> => y.writers[1].items = Units(f)
<1> DEFINE us == Units(f)
<1>1. ASSUME NEW s, NEW i, NEW b, NEW o, NEW d, NEW q, Converting(f, i, b, o, d, q, s, y)
      PROVE  IsPrefix(y.writers[1].items, us)
  <2> DEFINE p == Len(Walked(f, i, b))
             ws == y.writers
  <2>1. Place(f, i, b, o, d) /\ Held(f, i, b, d, q, y.top, ws)
    BY <1>1 DEF Converting
  <2>2. i \in 0 .. Len(f) /\ b \in Nat /\ b >= 1
    BY <2>1, PlaceTyped
  <2>3. /\ IsPrefix(Walked(f, i, b), us) /\ us \in Seq(EncodedUnit)
        /\ Walked(f, i, b) \in Seq(EncodedUnit)
    BY <2>2, WalkedPrefix, WalkedTyped, UnitsTyped
  <2>4. p <= Len(us)
    BY <2>3, PrefixIs
  <2>5. Headers(q, p) /\ Filled(us, q, p, ws)
    BY <2>1 DEF Held
  <2> HIDE DEF p, ws, us
  <2>6. \E n \in Nat : n <= Len(us) /\ ws[1].items = SubSeq(us, 1, n)
    <3>1. q \in Seq(Nat) /\ Len(q) \in Nat /\ p \in Nat
          /\ \A n \in 1 .. Len(q) : q[n] \in 1 .. p
      BY <2>5, HeadersAre
    <3>2. From(q, 1) = 0
      BY DEF From
    <3>3. CASE Len(q) = 0
      <4>1. ws[1].items = SubSeq(us, From(q, 1) + 1, p)
        BY <2>5, <3>3 DEF Filled
      <4>2. From(q, 1) + 1 = 1
        BY <3>2
      <4> QED
        BY <2>4, <3>1, <4>1, <4>2
    <3>4. CASE Len(q) # 0
      <4>1. 1 \in 1 .. Len(q)
        BY <3>1, <3>4
      <4>2. ws[1].items = SubSeq(us, From(q, 1) + 1, q[1] - 1)
        BY <2>5, <4>1 DEF Filled
      <4>3. q[1] \in 1 .. p
        BY <3>1, <4>1
      <4>4. Len(us) \in Nat
        BY <2>3
      <4>5. q[1] - 1 \in Nat /\ q[1] - 1 <= Len(us) /\ From(q, 1) + 1 = 1
        BY <2>4, <3>1, <3>2, <4>3, <4>4
      <4> QED
        BY <4>2, <4>5
    <3> QED
      BY <3>3, <3>4
  <2>7. PICK n \in Nat : n <= Len(us) /\ ws[1].items = SubSeq(us, 1, n)
    BY <2>6
  <2>8. IsPrefix(SubSeq(us, 1, n), us)
    BY <2>3, <2>7, FirstPart
  <2> QED
    BY <2>7, <2>8 DEF ws
<1>2. ASSUME NEW i, NEW b, NEW o, NEW d, NEW q, Converting(f, i, b, o, d, q, y.tlvs, y),
             NoneEnds(f, i, o), i < Len(f)
      PROVE  pos[i][1] \in Nat /\ pos[i][1] + Gap(busy) < Len(z)
  <2> DEFINE m == i + 1
  <2>1. Place(f, i, b, o, d)
    BY <1>2 DEF Converting
  <2>2. i \in Nat /\ i \in 0 .. Len(f) /\ 1 \in 1 .. (i + 1) /\ Len(f) \in Nat
    BY <2>1, PlaceTyped, NodesTyped
  <2>3. m \in 1 .. Len(f) /\ m \in 0 .. Len(f) /\ m + 1 \in 1 .. (m + 1) /\ m - 1 = i
    BY <1>2, <2>2
  <2>4. pos[i][1] \in 0 .. Len(z) /\ pos[m][m + 1] \in 0 .. Len(z)
    BY <2>2, <2>3 DEF DocWalk
  <2>5. pos[m][m + 1] = pos[i][1] + Gap(busy) + 1
    BY <2>3 DEF DocWalk
  <2>6. Gap(busy) \in {0, 1}
    BY DEF Gap
  <2>7. Len(z) \in Nat
    <3>1. Len(f) \in 0 .. Len(f) /\ 1 \in 1 .. (Len(f) + 1)
      BY <2>2
    <3>2. pos[Len(f)][1] \in 0 .. Len(z) /\ pos[Len(f)][1] = Len(z)
      BY <3>1 DEF DocWalk
    <3> QED
      BY <3>2
  <2> HIDE DEF m
  <2> QED
    BY <2>4, <2>5, <2>6, <2>7
<1>3. CASE Ahead(busy, h, y)
  <2>1. busy /\ h = 0 /\ y = NewWriters
    BY <1>3 DEF Ahead
  <2>2. Len(z) > 0
    BY <2>1 DEF DocWalk
  <2>3. Between(f, busy, pos, Gap(busy), y)
    BY <2>1, WalkStarts
  <2>4. IsPrefix(y.writers[1].items, us)
    BY <1>1, <2>3, Zenon DEF Between
  <2> QED
    BY <2>1, <2>2, <2>4
<1>4. CASE Between(f, busy, pos, h, y)
  <2>1. PICK i, b, o, d, q : /\ Converting(f, i, b, o, d, q, y.tlvs, y)
                             /\ Passed(f, busy, i, b) /\ h = pos[i][b]
    BY <1>4, Zenon DEF Between
  <2>2. IsPrefix(y.writers[1].items, us)
    BY <1>1, <2>1
  <2>3. ASSUME h = Len(z), y.tlvs = << >> PROVE y.writers[1].items = us
    <3>1. Place(f, i, b, o, d) /\ Held(f, i, b, d, q, y.top, y.writers)
          /\ Len(y.tlvs) = Len(o)
      BY <2>1 DEF Converting
    <3>2. i \in 0 .. Len(f) /\ o \in Seq(Nat) /\ WalkAt(f, i, b, o) /\ Len(f) \in Nat
      BY <3>1, PlaceTyped, NodesTyped
    <3>3. o = << >>
      BY <2>3, <3>1, <3>2
    <3>4. NoneEnds(f, i, o)
      BY <3>3 DEF NoneEnds
    <3>5. h = pos[i][1]
      BY <2>1, <3>2, <3>4, NextStarts
    <3>6. i = Len(f)
      <4> SUFFICES ASSUME i < Len(f) PROVE FALSE
        BY <3>2
      <4>1. h \in Nat /\ h + Gap(busy) < Len(z)
        BY <1>2, <2>1, <3>4, <3>5
      <4>2. Gap(busy) \in {0, 1}
        BY DEF Gap
      <4> QED
        BY <2>3, <4>1, <4>2
    <3> QED
      BY <3>1, <3>3, <3>6, HeldEnds
  <2> QED
    BY <2>2, <2>3
<1>5. CASE Noted(f, busy, pos, h, y)
  <2>1. PICK i, b, o, d, q : /\ Converting(f, i, b, o, d, q, y.tlvs, y)
                             /\ NoneEnds(f, i, o) /\ i < Len(f)
                             /\ busy /\ h = pos[i][1] + 1
    BY <1>5, Zenon DEF Noted
  <2>2. IsPrefix(y.writers[1].items, us)
    BY <1>1, <2>1
  <2>3. pos[i][1] \in Nat /\ pos[i][1] + Gap(busy) < Len(z)
    BY <1>2, <2>1
  <2>4. Gap(busy) = 1
    BY <2>1 DEF Gap
  <2>5. h # Len(z)
    <3> SUFFICES ASSUME h = Len(z) PROVE FALSE
      OBVIOUS
    <3> DEFINE a == pos[i][1]
    <3>1. a \in Nat /\ a + 1 < Len(z) /\ h = a + 1
      BY <2>1, <2>3, <2>4
    <3> HIDE DEF a
    <3> QED
      BY <3>1
  <2> QED
    BY <2>2, <2>5
<1>6. CASE Within(f, busy, pos, h, y)
  <2>1. PICK i, b, o, d, q : Converting(f, i, b, o, d, q, Front(y.tlvs), y)
    BY <1>6, Zenon DEF Within
  <2>2. IsPrefix(y.writers[1].items, us)
    BY <1>1, <2>1
  <2>3. y.tlvs # << >>
    BY <1>6 DEF Within
  <2> QED
    BY <2>2, <2>3
<1> QED
  BY <1>3, <1>4, <1>5, <1>6 DEF Converted

(***************************************************************************)
(* Documents that are converted                                            *)
(***************************************************************************)
ConvertFacts ==
  /\ forest \in AllForests /\ tags = TagsOf(doc)
  /\ \A busy \in BOOLEAN :
       doc = Document(forest, busy) =>
         \E pos : /\ DocWalk(forest, busy, doc, pos)
                  /\ pc # "failed" => Converted(forest, busy, pos, Handled, x)
  /\ SameForest

(* The first tag is still to come. *)
LEMMA InitConverts ==
  ASSUME Init
  PROVE  ConvertFacts
<1>1. forest \in AllForests
  BY InputForest DEF Init
<1>2. tags = TagsOf(doc) /\ x = NewWriters /\ pc = "open" /\ nth = 0
  BY DEF Init, ReaderInit
<1>3. Handled = 0
  BY <1>2 DEF Handled
<1>4. ASSUME NEW busy \in BOOLEAN, doc = Document(forest, busy)
      PROVE  \E pos : /\ DocWalk(forest, busy, doc, pos)
                      /\ Converted(forest, busy, pos, Handled, x)
  <2>1. PICK pos : DocWalk(forest, busy, Document(forest, busy), pos)
    BY <1>1, DocWalkExists
  <2>2. Converted(forest, busy, pos, 0, NewWriters)
    BY <1>1, <2>1, WalkStarts
  <2> QED
    BY <1>2, <1>3, <1>4, <2>1, <2>2
<1>5. SameForest
  BY <1>2 DEF SameForest, Ended
<1> QED
  BY <1>1, <1>2, <1>4, <1>5 DEF ConvertFacts

(* The text in front of the tag is that of the document. *)
LEMMA TextIs ==
  ASSUME Facts, tags = TagsOf(doc), pc = "tag"
  PROVE  /\ nth \in 1 .. Len(doc) /\ Value[2] - Value[1] = doc[nth].text
<1>1. nth \in 1 .. Len(doc) /\ TagTrue
  BY ReaderParts DEF Facts, ReaderFacts, Tracked
<1>2. Value = <<TextFrom(nth - 1), tags[nth].open>>
  BY <1>1 DEF TagTrue
<1>3. tags[nth].open - TextFrom(nth - 1) = doc[nth].text
  BY <1>1, TagsInOrder DEF Facts
<1> DEFINE a == TextFrom(nth - 1)
           b == tags[nth].open
<1>4. Value = <<a, b>>
  BY <1>2
<1> HIDE DEF a, b
<1>5. Value[1] = a /\ Value[2] = b
  BY <1>4
<1> QED
  BY <1>1, <1>3, <1>5 DEF a, b

(* Nothing happens to the converter. *)
LEMMA ConvertsPause ==
  ASSUME ConvertFacts, UNCHANGED <<forest, doc, tags, x>>, ~Ended' \/ pc' = "failed",
         pc' = "failed" \/ (pc # "failed" /\ Handled' = Handled), pc # "failed"
  PROVE  ConvertFacts'
<1>1. /\ forest' = forest /\ doc' = doc /\ tags' = tags /\ x' = x
      /\ forest \in AllForests /\ tags = TagsOf(doc)
  BY DEF ConvertFacts
<1>2. tags' = TagsOf(doc')
  BY <1>1
<1>3. ASSUME NEW busy \in BOOLEAN, doc = Document(forest, busy)
      PROVE  \E pos : /\ DocWalk(forest, busy, doc, pos)
                      /\ Converted(forest, busy, pos, Handled, x)
  BY <1>3 DEF ConvertFacts
<1>4. ASSUME NEW busy \in BOOLEAN, doc = Document(forest, busy)
      PROVE  /\ \E pos : /\ DocWalk(forest, busy, doc, pos)
                         /\ pc' # "failed" => Converted(forest, busy, pos, Handled', x)
             /\ IsPrefix(x.writers[1].items, Units(forest))
  <2>1. PICK pos : /\ DocWalk(forest, busy, doc, pos)
                   /\ Converted(forest, busy, pos, Handled, x)
    BY <1>3, <1>4
  <2>2. IsPrefix(x.writers[1].items, Units(forest))
    BY <1>1, <2>1, ConvertedOutput
  <2>3. pc' # "failed" => Converted(forest, busy, pos, Handled', x)
    <3> SUFFICES ASSUME pc' # "failed" PROVE Converted(forest, busy, pos, Handled', x)
      OBVIOUS
    <3>1. Handled' = Handled
      OBVIOUS
    <3> QED
      BY <2>1, <3>1
  <2> QED
    BY <2>1, <2>2, <2>3
<1>5. SameForest'
  <2>1. pc' # "done"
    BY DEF Ended
  <2> QED
    BY <1>1, <1>4, <2>1 DEF SameForest
<1> QED
  BY <1>1, <1>2, <1>4, <1>5 DEF ConvertFacts

(* A tag is handled. *)
LEMMA TagConverts ==
  ASSUME Facts, ConvertFacts, NEW t,
         Declaration(t) \/ Comment(t) \/ StartTag(t) \/ EndTag(t)
  PROVE  ConvertFacts'
<1>1. pc = "tag" /\ t = doc[nth] /\ (Continue \/ Throw)
  BY Zenon DEF Declaration, Comment, StartTag, EndTag, Got
<1>2. /\ tags = TagsOf(doc) /\ forest \in AllForests /\ Sound(x)
      /\ doc \in Seq(TokenType)
  BY DEF Facts, ConvertFacts
<1>3. nth \in 1 .. Len(doc) /\ Value[2] - Value[1] = t.text
  BY <1>1, <1>2, TextIs
<1>4. t \in TokenType
  BY <1>1, <1>2, <1>3
<1>5. CASE Throw
  BY <1>1, <1>5, ConvertsPause DEF Throw
<1>6. CASE Continue
  <2> DEFINE h == nth - 1
  <2>1. UNCHANGED <<forest, doc, tags, nth>> /\ pc' = "open" /\ Handled' = nth
    BY <1>6 DEF Continue, Handled
  <2>2. h + 1 = nth /\ h < Len(doc) /\ Handled = h
    BY <1>1, <1>2, <1>3 DEF Handled
  <2> HIDE DEF h
  <2>3. ASSUME NEW busy \in BOOLEAN, doc = Document(forest, busy)
        PROVE  \E pos : /\ DocWalk(forest, busy, doc, pos)
                        /\ Converted(forest, busy, pos, nth, x')
    <3>1. PICK pos : /\ DocWalk(forest, busy, doc, pos)
                     /\ Converted(forest, busy, pos, h, x)
      BY <1>1, <2>2, <2>3 DEF ConvertFacts
    <3>2. /\ t.kind = "decl" => Converted(forest, busy, pos, nth, x)
          /\ t.kind = "comment" => Converted(forest, busy, pos, nth, x)
          /\ t.kind \in {"start", "empty"} =>
               Converted(forest, busy, pos, nth, Started(t, x))
          /\ t.kind = "end" =>
               x.tlvs # << >> /\ Converted(forest, busy, pos, nth, WriteEnd(x, t.text))
      <4>1. t = doc[h + 1]
        BY <1>1, <2>2
      <4> QED
        BY <1>2, <1>4, <2>2, <3>1, <4>1, TokenConverts
    <3>3. CASE Declaration(t)
      <4>1. t.kind = "decl" /\ x' = x
        BY <2>1, <3>3 DEF Declaration, Throw
      <4> QED
        BY <3>1, <3>2, <4>1
    <3>4. CASE Comment(t)
      <4>1. t.kind = "comment" /\ x' = x
        BY <3>4 DEF Comment
      <4> QED
        BY <3>1, <3>2, <4>1
    <3>5. CASE StartTag(t)
      <4>1. t.kind \in {"start", "empty"} /\ x' = Started(t, x)
        BY <3>5, Zenon DEF StartTag, Started
      <4> QED
        BY <3>1, <3>2, <4>1
    <3>6. CASE EndTag(t)
      <4>1. t.kind = "end"
        BY <3>6 DEF EndTag
      <4>2. x' = WriteEnd(x, Value[2] - Value[1])
        BY <3>2, <3>6, <4>1 DEF EndTag
      <4>3. x' = WriteEnd(x, t.text)
        BY <1>3, <4>2, Zenon
      <4> QED
        BY <3>1, <3>2, <4>1, <4>3
    <3> QED
      BY <3>3, <3>4, <3>5, <3>6
  <2>4. SameForest'
    BY <2>1 DEF SameForest, Ended
  <2>5. tags' = TagsOf(doc')
    BY <1>2, <2>1
  <2> QED
    BY <1>2, <2>1, <2>3, <2>4, <2>5 DEF ConvertFacts
<1> QED
  BY <1>1, <1>5, <1>6

(* The document has ended. *)
LEMMA FinishConverts ==
  ASSUME Facts, EndFacts, ConvertFacts, Finish
  PROVE  ConvertFacts'
<1>1. /\ pc = "none" /\ UNCHANGED <<w, tags, forest, doc, nth, x>>
      /\ pc' = IF x.top # 1 \/ x.tlvs # << >> THEN "failed" ELSE "done"
  BY DEF Finish
<1>2. CASE pc' = "failed"
  BY <1>1, <1>2, ConvertsPause
<1>3. CASE pc' # "failed"
  <2>1. pc' = "done" /\ x.tlvs = << >> /\ Handled' = Handled /\ Handled = nth
    BY <1>1, <1>3 DEF Handled
  <2>2. w'.size = w.size /\ (TextFrom(Len(tags)))' = TextFrom(Len(tags))
    BY <1>1 DEF TextFrom
  <2>3. w.size >= TextFrom(Len(tags)) => nth = Len(doc)
    <3> SUFFICES ASSUME w.size >= TextFrom(Len(tags)), nth # Len(tags) PROVE FALSE
      BY DEF Facts
    <3>1. /\ Len(tags) \in Nat /\ nth \in 0 .. Len(tags) /\ InOrder /\ w.size \in Nat
      BY ReaderParts DEF Facts, ReaderFacts
    <3> DEFINE m == nth + 1
    <3>2. m \in 1 .. Len(tags) /\ m \in 0 .. Len(tags) /\ Len(tags) \in 0 .. Len(tags)
          /\ m <= Len(tags)
      BY <3>1
    <3>3. tags[m].open >= w.size
      BY <1>1 DEF EndFacts
    <3> HIDE DEF m
    <3>4. /\ tags[m].open \in Nat /\ tags[m].close \in Nat
          /\ tags[m].open + 2 <= tags[m].close /\ TextFrom(m) = tags[m].close + 1
          /\ TextFrom(m) <= TextFrom(Len(tags))
          /\ TextFrom(Len(tags)) \in Nat
      BY <3>1, <3>2, TagsGrow
    <3> QED
      BY <3>1, <3>3, <3>4
  <2>4. ASSUME NEW busy \in BOOLEAN, doc = Document(forest, busy)
        PROVE  /\ \E pos : /\ DocWalk(forest, busy, doc, pos)
                           /\ Converted(forest, busy, pos, nth, x)
               /\ IsPrefix(x.writers[1].items, Units(forest))
               /\ w.size >= TextFrom(Len(tags)) => x.writers[1].items = Units(forest)
    <3>1. PICK pos : /\ DocWalk(forest, busy, doc, pos)
                     /\ Converted(forest, busy, pos, nth, x)
      BY <1>1, <2>1, <2>4 DEF ConvertFacts
    <3>2. /\ IsPrefix(x.writers[1].items, Units(forest))
          /\ nth = Len(doc) /\ x.tlvs = << >> => x.writers[1].items = Units(forest)
      BY <3>1, ConvertedOutput DEF ConvertFacts
    <3> QED
      BY <2>1, <2>3, <3>1, <3>2
  <2>5. SameForest'
    BY <1>1, <2>2, <2>4 DEF SameForest
  <2>6. tags' = TagsOf(doc')
    BY <1>1 DEF ConvertFacts
  <2> QED
    BY <1>1, <2>1, <2>4, <2>5, <2>6 DEF ConvertFacts
<1> QED
  BY <1>2, <1>3

(* Every step of the converter *)
LEMMA StepConverts ==
  ASSUME Facts, EndFacts, ConvertFacts, Step \/ UNCHANGED vars
  PROVE  ConvertFacts'
<1>1. CASE ReaderNext /\ UNCHANGED <<forest, doc, x>>
  <2>1. /\ UNCHANGED <<forest, doc, tags, x>> /\ pc # "failed"
        /\ ~Ended' \/ pc' = "failed"
    BY <1>1 DEF ReaderNext, OpenFound, OpenRefill, OpenEnd, CloseFound,
                CloseRefill, CloseEnd, Refill, Ended
  <2>2. pc' = "failed" \/ Handled' = Handled
    <3>1. nth \in Nat
      BY ReaderParts DEF Facts
    <3> QED
      BY <1>1, <3>1
         DEF ReaderNext, OpenFound, OpenRefill, OpenEnd, CloseFound,
             CloseRefill, CloseEnd, Refill, Handled
  <2> QED
    BY <2>1, <2>2, ConvertsPause
<1>2. ASSUME NEW t, Declaration(t) \/ Comment(t) \/ StartTag(t) \/ EndTag(t)
      PROVE  ConvertFacts'
  BY <1>2, TagConverts
<1>3. CASE Finish
  BY <1>3, FinishConverts
<1>4. CASE UNCHANGED vars
  <2>1. UNCHANGED <<w, tags, forest, doc, x, nth, pc>>
    BY <1>4 DEF vars, readerVars
  <2>2. Handled' = Handled /\ w'.size = w.size /\ (TextFrom(Len(tags)))' = TextFrom(Len(tags))
    BY <2>1 DEF Handled, TextFrom
  <2>3. SameForest'
    BY <2>1, <2>2 DEF SameForest, ConvertFacts, Ended
  <2>4. tags' = TagsOf(doc') /\ forest' \in AllForests
    BY <2>1 DEF ConvertFacts
  <2>5. \A busy \in BOOLEAN :
          doc' = Document(forest', busy) =>
            \E pos : /\ DocWalk(forest', busy, doc', pos)
                     /\ pc' # "failed" => Converted(forest', busy, pos, Handled', x')
    BY <2>1, <2>2 DEF ConvertFacts
  <2> QED
    BY <2>3, <2>4, <2>5 DEF ConvertFacts
<1> QED
  BY <1>1, <1>2, <1>3, <1>4 DEF Step

(* What is written of a document are the units of its forest: each with    *)
(* the length of its text or of what is inside, in the form and with the   *)
(* length octets that the document asks for; the beginning of them if it   *)
(* is cut off, and all of them if it is not - for every forest, both       *)
(* styles and every source (xml2ber.cc:102-114, 200-330).                  *)
THEOREM DocumentsConverted == Spec => []SameForest
<1> DEFINE AllFacts == Facts /\ EndFacts /\ ConvertFacts
<1>1. Init => AllFacts
  <2> SUFFICES ASSUME Init PROVE AllFacts
    OBVIOUS
  <2>1. ReaderFacts /\ doc \in Seq(TokenType) /\ Len(tags) = Len(doc)
    BY InitFacts
  <2>2. x = NewWriters /\ pc = "open"
    BY DEF Init, ReaderInit
  <2>3. Facts
    BY <2>1, <2>2, NewSound DEF Facts, PcType
  <2> QED
    BY <2>3, InitEnds, InitConverts
<1>2. AllFacts /\ [Step \/ (Ended /\ UNCHANGED vars)]_vars => AllFacts'
  <2> SUFFICES ASSUME AllFacts, [Step \/ (Ended /\ UNCHANGED vars)]_vars
               PROVE  AllFacts'
    OBVIOUS
  <2>1. Facts'
    <3>1. CASE Step \/ (Ended /\ UNCHANGED vars)
      BY <3>1, StepSound
    <3>2. CASE UNCHANGED vars
      <4>1. UNCHANGED <<w, tags, marks, k, old, doc, x, nth, pc>>
        BY <3>2 DEF vars, readerVars
      <4>2. ReaderFacts'
        BY <4>1, PauseTracks DEF Facts
      <4> QED
        BY <4>1, <4>2 DEF Facts, Sound
    <3> QED
      BY <3>1, <3>2
  <2>2. EndFacts' /\ ConvertFacts'
    BY StepEnds, StepConverts DEF Facts
  <2> QED
    BY <2>1, <2>2
<1>3. AllFacts => SameForest
  BY DEF ConvertFacts
<1> QED
  BY <1>1, <1>2, <1>3, PTL DEF Spec
=============================================================================
