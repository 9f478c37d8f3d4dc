---------------------------- MODULE LevelsProofs ----------------------------
(***************************************************************************)
(* What the proofs about the converters have in common.                    *)
(*                                                                         *)
(* The writers of the converters to definite lengths: pos() counts what is *)
(* in a writer, and there is one for each open tag of definite length,     *)
(* whatever is opened, written and closed, and in whatever order.          *)
(*                                                                         *)
(* A walk through a forest, as it is encoded: Walked(f, i, b) are the      *)
(* units up to node i and the end-of-content units of those of the nodes   *)
(* b .. i that end there, At(f, i, b) are their octets, and Open(f, i, b)  *)
(* are the nodes that the walk is inside of.  OctetsInside is what the     *)
(* readers rely on: between the header of a node and its end there are as  *)
(* many octets as its definite length says, at every depth.                *)
(*                                                                         *)
(* A place of a walk is what a reader knows of it: Place(f, i, b, o, d)    *)
(* with the sequence o of the nodes that it is inside of and that of the   *)
(* definite ones of them, d, which the two stacks of counters stand for.   *)
(* ReadPlaces and EndPlaces say how a unit that is read, or an end that    *)
(* the counters find, changes them.                                        *)
(***************************************************************************)
EXTENDS Levels, TLAPS, WellFoundedInduction, FiniteSetTheorems

(***************************************************************************)
(* Induction over the naturals, stated with sets instead of predicates: it *)
(* follows from the well-foundedness of strict inclusion among finite      *)
(* sets, which the library proves.  With it, functions that are defined by *)
(* recursion over a range of naturals can be unfolded.                     *)
(***************************************************************************)
(* A set of naturals that is not empty has a least element. *)
LEMMA Smallest ==
  ASSUME NEW T \in SUBSET Nat, T # {}
  PROVE  \E x \in T : \A y \in T : x <= y
<1> DEFINE R == StrictSubsetOrdering(Nat)
           F == FiniteSubsetsOf(Nat)
           U == {1 .. x : x \in T}
<1>1. U \subseteq F /\ U # {}
  <2>1. \A x \in T : IsFiniteSet(1 .. x) /\ 1 .. x \subseteq Nat
    BY FS_Interval
  <2> QED
    BY <2>1 DEF FiniteSubsetsOf
<1>2. IsWellFoundedOn(R, F)
  BY FS_StrictSubsetOrderingWellFounded
<1>3. PICK u \in U : \A v \in U : ~(<<v, u>> \in R)
  <2> HIDE DEF R, U, F
  <2> QED
    BY <1>1, <1>2, WFMin
<1>4. PICK x \in T : u = 1 .. x
  OBVIOUS
<1>5. ASSUME NEW y \in T, y < x PROVE FALSE
  <2>1. 1 .. y \subseteq 1 .. x /\ x \in 1 .. x /\ x \notin 1 .. y
    BY <1>5
  <2>2. <<1 .. y, 1 .. x>> \in R
    BY <2>1 DEF StrictSubsetOrdering
  <2> QED
    BY <1>3, <1>4, <2>2
<1> QED
  BY <1>5

(* A set with 0, and with the successor of each of its naturals, has them all. *)
LEMMA Induction ==
  ASSUME NEW S, 0 \in S, \A n \in Nat : n \in S => n + 1 \in S
  PROVE  \A n \in Nat : n \in S
<1> DEFINE T == {n \in Nat : n \notin S}
<1>1. SUFFICES ASSUME T # {} PROVE FALSE
  OBVIOUS
<1>2. PICK x \in T : \A y \in T : x <= y
  BY <1>1, Smallest
<1>3. x # 0
  OBVIOUS
<1>4. x - 1 \in Nat /\ x - 1 \notin T
  BY <1>2, <1>3
<1> QED
  BY <1>4

(* f begins with a and goes on by step. *)
Steps(f, N, a, step) ==
  f[0] = a /\ \A n \in 1 .. N : f[n] = step[n][f[n - 1]]

(* A function on 0 .. N that is defined by recursion exists. *)
THEOREM Recursion ==
  ASSUME NEW A, NEW a \in A, NEW N \in Nat, NEW step \in [1 .. N -> [A -> A]]
  PROVE  \E f \in [0 .. N -> A] : Steps(f, N, a, step)
<1> DEFINE S == {m \in Nat : m <= N =>
                   \E f \in [0 .. m -> A] : Steps(f, m, a, step)}
<1>1. 0 \in S
  <2> DEFINE f == [n \in 0 .. 0 |-> a]
  <2>1. f \in [0 .. 0 -> A]
    OBVIOUS
  <2>2. Steps(f, 0, a, step)
    BY DEF Steps
  <2> QED
    BY <2>1, <2>2
<1>2. ASSUME NEW m \in Nat, m \in S PROVE m + 1 \in S
  <2> SUFFICES ASSUME m + 1 <= N
               PROVE  \E f \in [0 .. (m + 1) -> A] : Steps(f, m + 1, a, step)
    OBVIOUS
  <2>1. PICK g \in [0 .. m -> A] : Steps(g, m, a, step)
    BY <1>2
  <2>2. m + 1 \in 1 .. N /\ m \in 0 .. m
    OBVIOUS
  <2> DEFINE new == step[m + 1][g[m]]
             f   == [n \in 0 .. (m + 1) |-> IF n <= m THEN g[n] ELSE new]
  <2>3. step[m + 1] \in [A -> A] /\ g[m] \in A
    BY <2>2
  <2>4. new \in A
    BY <2>3
  <2> HIDE DEF new
  <2>5. f \in [0 .. (m + 1) -> A]
    BY <2>4
  <2>6. f[0] = a
    BY <2>1 DEF Steps
  <2>7. ASSUME NEW n \in 1 .. (m + 1) PROVE f[n] = step[n][f[n - 1]]
    <3>1. CASE n \in 1 .. m
      <4>1. /\ n \in 0 .. (m + 1) /\ n - 1 \in 0 .. (m + 1)
            /\ n <= m /\ n - 1 <= m
        BY <3>1
      <4>2. f[n] = g[n] /\ f[n - 1] = g[n - 1]
        BY <4>1
      <4> QED
        BY <2>1, <3>1, <4>2, Zenon DEF Steps
    <3>2. CASE n = m + 1
      <4>1. n \in 0 .. (m + 1) /\ n - 1 = m /\ m \in 0 .. (m + 1) /\ ~(n <= m)
        BY <3>2
      <4>2. f[n] = new /\ f[n - 1] = g[m]
        BY <4>1
      <4> QED
        BY <3>2, <4>2, Zenon DEF new
    <3> QED
      BY <3>1, <3>2
  <2> HIDE DEF f
  <2> QED
    BY <2>5, <2>6, <2>7, Zenon DEF Steps
<1> HIDE DEF S
<1>3. \A m \in Nat : m \in S
  BY <1>1, <1>2, Induction
<1> QED
  BY <1>3 DEF S

(***************************************************************************)
(* Spans                                                                   *)
(***************************************************************************)
(* g[n] is the span of the first n of these units. *)
Sums(g, s) == g[0] = 0 /\ \A n \in 1 .. Len(s) : g[n] = g[n - 1] + Span(s[n])

(* A unit has a natural number of octets. *)
LEMMA SpanNat ==
  ASSUME NEW u \in Unit
  PROVE  Span(u) \in Nat
BY DEF Span, Unit

(* The sums of any units exist, and SpanOf() is the last of them. *)
LEMMA SumsExist ==
  ASSUME NEW s \in Seq(Unit)
  PROVE  \E g \in [0 .. Len(s) -> Nat] : Sums(g, s) /\ SpanOf(s) = g[Len(s)]
<1> DEFINE N      == Len(s)
           step   == [n \in 1 .. N |-> [y \in Nat |-> y + Span(s[n])]]
           Def(f) == f = [n \in 0 .. N |->
                           IF n = 0 THEN 0 ELSE f[n - 1] + Span(s[n])]
           sum    == CHOOSE f : Def(f)
<1>1. N \in Nat /\ \A n \in 1 .. N : s[n] \in Unit
  OBVIOUS
<1>2. \A n \in 1 .. N : Span(s[n]) \in Nat
  BY <1>1, SpanNat
<1>3. step \in [1 .. N -> [Nat -> Nat]]
  BY <1>2
<1>4. \A n \in 1 .. N, y \in Nat : step[n][y] = y + Span(s[n])
  OBVIOUS
<1>5. SpanOf(s) = sum[N]
  BY Zenon DEF SpanOf
<1> HIDE DEF N, step
<1>6. PICK f \in [0 .. N -> Nat] : Steps(f, N, 0, step)
  <2>1. 0 \in Nat
    OBVIOUS
  <2> QED
    BY <1>1, <1>3, <2>1, Recursion
<1>7. \A n \in 1 .. N : n - 1 \in 0 .. N /\ n \in 0 .. N
  BY <1>1
<1>8. ASSUME NEW n \in 1 .. N PROVE f[n] = f[n - 1] + Span(s[n])
  <2>1. f[n - 1] \in Nat
    BY <1>7
  <2> QED
    BY <1>4, <1>6, <2>1, Zenon DEF Steps
<1>9. Def(f)
  <2>1. f[0] = 0
    BY <1>6 DEF Steps
  <2>2. ASSUME NEW n \in 0 .. N
        PROVE  f[n] = IF n = 0 THEN 0 ELSE f[n - 1] + Span(s[n])
    <3>1. n = 0 \/ n \in 1 .. N
      BY <1>1
    <3> QED
      BY <1>8, <2>1, <3>1
  <2> QED
    BY <2>2
<1> HIDE DEF Def
<1>10. Def(sum)
  BY <1>9, Zenon
<1> HIDE DEF sum
<1>11. ASSUME NEW n \in 0 .. N
       PROVE  sum[n] = IF n = 0 THEN 0 ELSE sum[n - 1] + Span(s[n])
  BY <1>10, Zenon DEF Def
<1>12. sum = [n \in 0 .. N |-> IF n = 0 THEN 0 ELSE sum[n - 1] + Span(s[n])]
  BY <1>10, Zenon DEF Def
<1> DEFINE S == {n \in Nat : n <= N => sum[n] \in Nat}
<1>13. 0 \in S
  BY <1>1, <1>11
<1>14. ASSUME NEW n \in Nat, n \in S PROVE n + 1 \in S
  <2> SUFFICES ASSUME n + 1 <= N PROVE sum[n + 1] \in Nat
    OBVIOUS
  <2>1. n + 1 \in 1 .. N /\ n + 1 \in 0 .. N /\ (n + 1) - 1 = n /\ sum[n] \in Nat
    BY <1>1, <1>14
  <2>2. sum[n + 1] = sum[n] + Span(s[n + 1])
    BY <1>11, <2>1
  <2> QED
    BY <1>2, <2>1, <2>2
<1> HIDE DEF S
<1>15. \A n \in Nat : n \in S
  BY <1>13, <1>14, Induction
<1>16. sum \in [0 .. N -> Nat]
  <2>1. \A n \in 0 .. N : sum[n] \in Nat
    BY <1>1, <1>15 DEF S
  <2> DEFINE def(n) == IF n = 0 THEN 0 ELSE sum[n - 1] + Span(s[n])
  <2>2. \A n \in 0 .. N : def(n) \in Nat
    BY <1>11, <2>1
  <2>3. sum = [n \in 0 .. N |-> def(n)]
    BY <1>12, Zenon
  <2> HIDE DEF def
  <2> QED
    BY <2>2, <2>3
<1>17. Sums(sum, s)
  <2>1. sum[0] = 0
    BY <1>1, <1>11
  <2>2. \A n \in 1 .. N : sum[n] = sum[n - 1] + Span(s[n])
    <3>1. \A n \in 1 .. N : n # 0
      BY <1>1
    <3> QED
      BY <1>7, <1>11, <3>1
  <2> QED
    BY <2>1, <2>2 DEF Sums, N
<1> QED
  BY <1>5, <1>16, <1>17 DEF N

(* There is no other way to sum them up. *)
LEMMA SumsUnique ==
  ASSUME NEW s \in Seq(Unit), NEW g \in [0 .. Len(s) -> Nat], Sums(g, s)
  PROVE  SpanOf(s) = g[Len(s)]
<1>1. PICK f \in [0 .. Len(s) -> Nat] : Sums(f, s) /\ SpanOf(s) = f[Len(s)]
  BY SumsExist
<1> DEFINE N == Len(s)
           S == {n \in Nat : n <= N => f[n] = g[n]}
<1>2. N \in Nat
  OBVIOUS
<1> HIDE DEF N
<1>3. 0 \in S
  BY <1>1 DEF Sums
<1>4. ASSUME NEW n \in Nat, n \in S PROVE n + 1 \in S
  <2> SUFFICES ASSUME n + 1 <= N PROVE f[n + 1] = g[n + 1]
    OBVIOUS
  <2>1. n + 1 \in 1 .. N /\ (n + 1) - 1 = n /\ f[n] = g[n]
    BY <1>2, <1>4
  <2>2. /\ f[n + 1] = f[(n + 1) - 1] + Span(s[n + 1])
        /\ g[n + 1] = g[(n + 1) - 1] + Span(s[n + 1])
    BY <1>1, <2>1, Zenon DEF Sums, N
  <2> QED
    BY <2>1, <2>2
<1> HIDE DEF S
<1>5. \A n \in Nat : n \in S
  BY <1>3, <1>4, Induction
<1>6. f[N] = g[N]
  BY <1>2, <1>5 DEF S
<1> QED
  BY <1>1, <1>6 DEF N

(* Nothing has no octets. *)
LEMMA SpanOfNothing == SpanOf(<< >>) = 0
<1>1. << >> \in Seq(Unit) /\ Len(<< >>) = 0
  OBVIOUS
<1>2. PICK g \in [0 .. Len(<< >>) -> Nat] :
        Sums(g, << >>) /\ SpanOf(<< >>) = g[Len(<< >>)]
  BY <1>1, SumsExist
<1> QED
  BY <1>1, <1>2 DEF Sums

(* One unit more *)
LEMMA SpanOfAppend ==
  ASSUME NEW s \in Seq(Unit), NEW u \in Unit
  PROVE  /\ SpanOf(s) \in Nat
         /\ SpanOf(Append(s, u)) = SpanOf(s) + Span(u)
<1> DEFINE N == Len(s)
           t == Append(s, u)
           v == Span(u)
<1>1. PICK f \in [0 .. N -> Nat] : Sums(f, s) /\ SpanOf(s) = f[N]
  BY SumsExist
<1>2. N \in Nat /\ t \in Seq(Unit) /\ Len(t) = N + 1 /\ t[N + 1] = u
      /\ \A n \in 1 .. N : t[n] = s[n]
  OBVIOUS
<1>3. v \in Nat
  BY SpanNat
<1> DEFINE g == [n \in 0 .. (N + 1) |-> IF n <= N THEN f[n] ELSE f[N] + v]
<1>4. \A n \in 1 .. N : f[n] = f[n - 1] + Span(s[n])
  BY <1>1 DEF Sums
<1>5. f[0] = 0
  BY <1>1 DEF Sums
<1> HIDE DEF N, t, v
<1>6. g \in [0 .. (N + 1) -> Nat]
  BY <1>2, <1>3
<1>7. g[0] = 0 /\ g[N + 1] = f[N] + v
  BY <1>2, <1>5
<1>8. ASSUME NEW n \in 1 .. (N + 1) PROVE g[n] = g[n - 1] + Span(t[n])
  <2>1. CASE n \in 1 .. N
    <3>1. /\ n \in 0 .. (N + 1) /\ n - 1 \in 0 .. (N + 1)
          /\ n <= N /\ n - 1 <= N
      BY <1>2, <2>1
    <3>2. g[n] = f[n] /\ g[n - 1] = f[n - 1]
      BY <3>1
    <3> QED
      BY <1>2, <1>4, <2>1, <3>2, Zenon
  <2>2. CASE n = N + 1
    <3>1. n - 1 = N /\ N \in 0 .. (N + 1)
      BY <1>2, <2>2
    <3>2. g[N] = f[N]
      BY <1>2, <3>1
    <3> QED
      BY <1>2, <1>7, <2>2, <3>1, <3>2, Zenon DEF v
  <2> QED
    BY <1>2, <2>1, <2>2
<1> HIDE DEF g
<1>9. g \in [0 .. Len(t) -> Nat] /\ Sums(g, t)
  BY <1>2, <1>6, <1>7, <1>8, Zenon DEF Sums
<1>10. SpanOf(t) = g[Len(t)]
  BY <1>2, <1>9, SumsUnique, Zenon
<1>11. f[N] \in Nat
  BY <1>2
<1> QED
  BY <1>1, <1>2, <1>7, <1>10, <1>11, Zenon DEF t, v

(* Several units more *)
LEMMA SpanOfConcat ==
  ASSUME NEW s \in Seq(Unit), NEW t \in Seq(Unit)
  PROVE  SpanOf(s \o t) = SpanOf(s) + SpanOf(t)
<1> DEFINE N == Len(s)
           M == Len(t)
           r == s \o t
<1>1. PICK f \in [0 .. N -> Nat] : Sums(f, s) /\ SpanOf(s) = f[N]
  BY SumsExist
<1>2. PICK h \in [0 .. M -> Nat] : Sums(h, t) /\ SpanOf(t) = h[M]
  BY SumsExist
<1>3. N \in Nat /\ M \in Nat /\ r \in Seq(Unit) /\ Len(r) = N + M
      /\ (\A n \in 1 .. N : r[n] = s[n])
      /\ (\A n \in (N + 1) .. (N + M) : r[n] = t[n - N])
  OBVIOUS
<1>4. f[0] = 0 /\ \A n \in 1 .. N : f[n] = f[n - 1] + Span(s[n])
  BY <1>1 DEF Sums
<1>5. h[0] = 0 /\ \A n \in 1 .. M : h[n] = h[n - 1] + Span(t[n])
  BY <1>2 DEF Sums
<1> DEFINE g == [n \in 0 .. (N + M) |-> IF n <= N THEN f[n] ELSE f[N] + h[n - N]]
<1> HIDE DEF N, M, r
<1>6. g \in [0 .. (N + M) -> Nat]
  <2> DEFINE val(n) == IF n <= N THEN f[n] ELSE f[N] + h[n - N]
  <2>1. ASSUME NEW n \in 0 .. (N + M) PROVE val(n) \in Nat
    <3>1. CASE n <= N
      BY <3>1, <1>3
    <3>2. CASE ~(n <= N)
      <4>1. n - N \in 0 .. M /\ N \in 0 .. N
        BY <1>3, <3>2
      <4>2. h[n - N] \in Nat /\ f[N] \in Nat
        BY <4>1
      <4> QED
        BY <3>2, <4>2
    <3> QED
      BY <3>1, <3>2
  <2>2. g = [n \in 0 .. (N + M) |-> val(n)]
    BY Zenon
  <2> HIDE DEF val, g
  <2> QED
    BY <2>1, <2>2
<1>7. ASSUME NEW n \in 0 .. (N + M), n <= N PROVE g[n] = f[n]
  BY <1>7
<1>8. ASSUME NEW n \in 0 .. (N + M), n >= N PROVE g[n] = f[N] + h[n - N]
  <2>1. CASE n = N
    <3>1. N \in 0 .. N /\ n - N = 0 /\ n <= N
      BY <1>3, <2>1
    <3>2. f[N] \in Nat
      BY <3>1
    <3>3. g[n] = f[N]
      BY <2>1, <3>1, <1>7
    <3> HIDE DEF g
    <3> QED
      BY <3>1, <3>2, <3>3, <1>5
  <2>2. CASE n # N
    <3>1. ~(n <= N)
      BY <1>3, <1>8, <2>2
    <3> QED
      BY <3>1
  <2> QED
    BY <2>1, <2>2
<1> HIDE DEF g
<1>9. g[0] = 0
  BY <1>3, <1>4, <1>7
<1>10. ASSUME NEW n \in 1 .. (N + M) PROVE g[n] = g[n - 1] + Span(r[n])
  <2>1. CASE n \in 1 .. N
    <3>1. /\ n \in 0 .. (N + M) /\ n - 1 \in 0 .. (N + M)
          /\ n <= N /\ n - 1 <= N
      BY <1>3, <2>1
    <3> QED
      BY <1>3, <1>4, <1>7, <2>1, <3>1, Zenon
  <2>2. CASE n \in (N + 1) .. (N + M)
    <3>1. /\ n \in 0 .. (N + M) /\ n - 1 \in 0 .. (N + M)
          /\ n >= N /\ n - 1 >= N /\ n - N \in 1 .. M
          /\ (n - 1) - N = (n - N) - 1 /\ (n - N) - 1 \in 0 .. M
          /\ N \in 0 .. N
      BY <1>3, <2>2
    <3>2. g[n] = f[N] + h[n - N] /\ g[n - 1] = f[N] + h[(n - N) - 1]
      BY <1>8, <3>1
    <3>3. h[n - N] = h[(n - N) - 1] + Span(t[n - N])
      BY <1>5, <3>1
    <3>4. r[n] = t[n - N] /\ t[n - N] \in Unit
      BY <1>3, <2>2, <3>1 DEF M
    <3>5. Span(t[n - N]) \in Nat /\ h[(n - N) - 1] \in Nat /\ f[N] \in Nat
      BY <3>1, <3>4, SpanNat
    <3> DEFINE a == Span(t[n - N])
               b == h[(n - N) - 1]
               c == f[N]
    <3>6. Span(r[n]) = a
      BY <3>4
    <3> HIDE DEF a, b, c
    <3> QED
      BY <3>2, <3>3, <3>5, <3>6 DEF a, b, c
  <2> QED
    BY <1>3, <2>1, <2>2
<1>11. g \in [0 .. Len(r) -> Nat] /\ Sums(g, r)
  BY <1>3, <1>6, <1>9, <1>10, Zenon DEF Sums
<1>12. SpanOf(r) = g[Len(r)]
  BY <1>3, <1>11, SumsUnique, Zenon
<1>13. g[N + M] = f[N] + h[M]
  <2>1. N + M \in 0 .. (N + M) /\ N + M >= N /\ (N + M) - N = M
    BY <1>3
  <2> QED
    BY <1>8, <2>1
<1> QED
  BY <1>1, <1>2, <1>3, <1>12, <1>13, Zenon DEF r, N, M
(***************************************************************************)
(* Headers                                                                 *)
(***************************************************************************)
(* The size of a minimal header *)
LEMMA MinimalTlNat ==
  ASSUME NEW n \in Nat
  PROVE  MinimalTl(n) \in Nat /\ MinimalTl(n) >= 2
<1> DEFINE S == {m \in 1 .. 7 : Octet ^ m <= n}
<1>1. S \subseteq 1 .. 7 /\ IsFiniteSet(1 .. 7)
  <2>1. 1 \in Int /\ 7 \in Int
    OBVIOUS
  <2>2. IsFiniteSet(1 .. 7)
    BY <2>1, FS_Interval, Zenon
  <2>3. S \subseteq 1 .. 7
    BY Zenon
  <2> QED
    BY <2>2, <2>3
<1> HIDE DEF S
<1>2. Cardinality(S) \in Nat
  BY <1>1, FS_Subset, FS_CardinalityType
<1>3. Octets(n) = 1 + Cardinality(S)
  BY Zenon DEF Octets, S
<1> QED
  BY <1>2, <1>3, ForestAssumption DEF MinimalTl

(* An end-of-content unit *)
LEMMA EocTyped == Eoc \in EncodedUnit /\ Eoc \in Unit /\ Eoc.tl = 2
BY DEF Eoc, EncodedUnit, Unit

SetLength(u, n) == [u EXCEPT !.length = n]

SetTl(u, n) == [u EXCEPT !.tl = n]

(* One part of a header changes. *)
LEMMA HeaderChanges ==
  ASSUME NEW u \in Unit, NEW n \in Nat
  PROVE  /\ SetLength(u, n) \in Unit /\ SetTl(u, n) \in Unit
         /\ SetLength(u, n).tl = u.tl
BY DEF SetLength, SetTl, Unit

(* The header of a tag *)
LEMMA HeaderTyped ==
  ASSUME NEW u \in Unit, NEW n \in Nat
  PROVE  HeaderOf(u, n) \in Unit
<1> DEFINE o == SetLength(u, n)
           m == IF o.tl > MinimalTl(n) THEN o.tl ELSE MinimalTl(n)
<1>1. HeaderOf(u, n) = SetTl(o, m)
  BY Zenon DEF HeaderOf, SetLength, SetTl
<1>2. o \in Unit
  BY HeaderChanges
<1> HIDE DEF o
<1>3. m \in Nat
  BY <1>2, MinimalTlNat DEF Unit
<1> HIDE DEF m
<1> QED
  BY <1>1, <1>2, <1>3, HeaderChanges
(***************************************************************************)
(* Writers                                                                 *)
(***************************************************************************)
(* pos() counts what is in the writer. *)
Right(o) == o \in Writer /\ o.pos = SpanOf(o.items)

Pair(items, pos) == [items |-> items, pos |-> pos]

(* A writer is made of units and a number. *)
LEMMA RightIs ==
  ASSUME NEW s \in Seq(Unit)
  PROVE  /\ SpanOf(s) \in Nat
         /\ Right(Pair(s, SpanOf(s)))
         /\ \A n : Pair(s, n).items = s /\ Pair(s, n).pos = n
<1>1. SpanOf(s) \in Nat
  <2>1. PICK g \in [0 .. Len(s) -> Nat] : SpanOf(s) = g[Len(s)]
    BY SumsExist
  <2>2. Len(s) \in 0 .. Len(s)
    OBVIOUS
  <2> QED
    BY <2>1, <2>2
<1> DEFINE n == SpanOf(s)
<1>2. n \in Nat
  BY <1>1
<1> HIDE DEF n
<1>3. Pair(s, n) \in Writer /\ Pair(s, n).pos = n /\ Pair(s, n).items = s
  BY <1>2 DEF Pair, Writer
<1>4. \A m : Pair(s, m).items = s /\ Pair(s, m).pos = m
  BY DEF Pair
<1> QED
  BY <1>1, <1>3, <1>4, Zenon DEF Right, n

(* The other way round *)
LEMMA RightParts ==
  ASSUME NEW o, Right(o)
  PROVE  /\ o \in Writer /\ o.items \in Seq(Unit) /\ o.pos \in Nat
         /\ o.pos = SpanOf(o.items)
BY DEF Right, Writer

(* Nothing, one unit more, and the content of another writer *)
LEMMA WritersRight ==
  /\ Right(EmptyWriter)
  /\ \A o, u : Right(o) /\ u \in Unit => Right(WriteItem(o, u))
  /\ \A o, p : Right(o) /\ Right(p) =>
       Right(Pair(o.items \o p.items, o.pos + p.pos))
<1>1. Right(EmptyWriter)
  <2>1. << >> \in Seq(Unit)
    OBVIOUS
  <2>2. Right(Pair(<< >>, SpanOf(<< >>)))
    BY <2>1, RightIs
  <2> QED
    BY <2>2, SpanOfNothing, Zenon DEF EmptyWriter, Pair
<1>2. ASSUME NEW o, NEW u, Right(o), u \in Unit
      PROVE  Right(WriteItem(o, u))
  <2> DEFINE s == Append(o.items, u)
  <2>1. o.items \in Seq(Unit) /\ o.pos = SpanOf(o.items)
    BY <1>2, RightParts
  <2>2. s \in Seq(Unit)
    BY <1>2, <2>1
  <2>3. SpanOf(s) = o.pos + Span(u)
    BY <1>2, <2>1, SpanOfAppend
  <2>4. WriteItem(o, u) = Pair(s, o.pos + Span(u))
    BY Zenon DEF WriteItem, Pair
  <2> HIDE DEF s
  <2> QED
    BY <2>2, <2>3, <2>4, RightIs, Zenon
<1>3. ASSUME NEW o, NEW p, Right(o), Right(p)
      PROVE  Right(Pair(o.items \o p.items, o.pos + p.pos))
  <2> DEFINE s == o.items \o p.items
  <2>1. /\ o.items \in Seq(Unit) /\ o.pos = SpanOf(o.items)
        /\ p.items \in Seq(Unit) /\ p.pos = SpanOf(p.items)
    BY <1>3, RightParts
  <2>2. s \in Seq(Unit)
    BY <2>1
  <2>3. SpanOf(s) = o.pos + p.pos
    BY <2>1, SpanOfConcat, Zenon
  <2> HIDE DEF s
  <2>4. Right(Pair(s, o.pos + p.pos))
    BY <2>2, <2>3, RightIs, Zenon
  <2> QED
    BY <2>4 DEF s
<1> QED
  BY <1>1, <1>2, <1>3, Zenon

(* There are top writers in use. *)
InUse(ws, top) ==
  /\ ws \in Seq(Writer) /\ top \in 1 .. Len(ws)
  /\ \A i \in 1 .. Len(ws) : Right(ws[i])
  /\ \A i \in (top + 1) .. Len(ws) : ws[i] = EmptyWriter

(* What WritersMatch says of the writers *)
LEMMA InUseIs ==
  ASSUME NEW ws, NEW top
  PROVE  InUse(ws, top) <=> /\ ws \in Seq(Writer) /\ top \in 1 .. Len(ws)
                            /\ EmptyAbove(ws, top) /\ Counted(ws)
<1>1. ASSUME ws \in Seq(Writer), Counted(ws), NEW i \in 1 .. Len(ws)
      PROVE  Right(ws[i])
  <2>1. ws[i] \in Writer
    BY <1>1
  <2>2. ws[i].pos = SpanOf(ws[i].items)
    BY <1>1, Zenon DEF Counted
  <2> QED
    BY <2>1, <2>2, Zenon DEF Right
<1>2. ASSUME \A i \in 1 .. Len(ws) : Right(ws[i]) PROVE Counted(ws)
  BY <1>2, Zenon DEF Right, Counted
<1> QED
  BY <1>1, <1>2, Zenon DEF InUse, EmptyAbove

(* write_tag() *)
LEMMA WriteToKeeps ==
  ASSUME NEW ws, NEW top, InUse(ws, top), NEW i \in 1 .. top, NEW u \in Unit
  PROVE  InUse(WriteTo(ws, i, u), top)
<1> DEFINE o == WriteItem(ws[i], u)
<1>1. ws \in Seq(Writer) /\ top \in 1 .. Len(ws) /\ i \in 1 .. Len(ws)
  BY DEF InUse
<1>2. Right(o)
  BY <1>1, WritersRight, Zenon DEF InUse
<1>3. WriteTo(ws, i, u) = [ws EXCEPT ![i] = o]
  BY Zenon DEF WriteTo
<1> HIDE DEF o
<1>4. o \in Writer
  BY <1>2, RightParts
<1> QED
  BY <1>1, <1>2, <1>3, <1>4 DEF InUse

(* One writer more *)
LEMMA WithLevelKeeps ==
  ASSUME NEW ws, NEW top, InUse(ws, top)
  PROVE  InUse(WithLevel(ws, top), top + 1)
<1>1. ws \in Seq(Writer) /\ top \in 1 .. Len(ws)
  BY DEF InUse
<1>2. Right(EmptyWriter) /\ EmptyWriter \in Writer
  BY WritersRight, RightParts
<1>3. CASE top >= Len(ws)
  <2>1. WithLevel(ws, top) = Append(ws, EmptyWriter)
    BY <1>3 DEF WithLevel
  <2> QED
    BY <1>1, <1>2, <1>3, <2>1 DEF InUse
<1>4. CASE ~(top >= Len(ws))
  <2>1. WithLevel(ws, top) = ws
    BY <1>4 DEF WithLevel
  <2> QED
    BY <1>1, <1>4, <2>1 DEF InUse
<1> QED
  BY <1>3, <1>4

(* The header and the content of the writer on top go to the one below. *)
LEMMA PourKeeps ==
  ASSUME NEW ws, NEW top, InUse(ws, top), top > 1, NEW u \in Unit
  PROVE  InUse(Pour(ws, top, u), top - 1)
<1> DEFINE inner == ws[top]
           outer == WriteItem(ws[top - 1], u)
           p     == Pair(outer.items \o inner.items, outer.pos + inner.pos)
           vs    == [ws EXCEPT ![top - 1] = p]
<1>1. ws \in Seq(Writer) /\ top \in 1 .. Len(ws) /\ top - 1 \in 1 .. Len(ws)
  BY DEF InUse
<1>2. Right(inner) /\ Right(outer)
  BY <1>1, WritersRight, Zenon DEF InUse
<1>3. Right(p)
  BY <1>2, WritersRight, Zenon
<1>4. Pour(ws, top, u) = [vs EXCEPT ![top] = EmptyWriter]
  BY Zenon DEF Pour, Pair
<1> HIDE DEF p, inner, outer
<1>5. Right(EmptyWriter) /\ EmptyWriter \in Writer /\ p \in Writer
  BY <1>3, WritersRight, RightParts
<1>6. /\ vs \in Seq(Writer) /\ Len(vs) = Len(ws)
      /\ \A i \in 1 .. Len(ws) : Right(vs[i])
      /\ \A i \in (top + 1) .. Len(ws) : vs[i] = EmptyWriter
  BY <1>1, <1>3, <1>5 DEF InUse
<1> HIDE DEF vs
<1> QED
  BY <1>1, <1>4, <1>5, <1>6 DEF InUse
(***************************************************************************)
(* Open tags                                                               *)
(***************************************************************************)
IsDefinite(u) == u.shape = "constructed" /\ ~u.indefinite

(* A tag more *)
LEMMA DefiniteAppend ==
  ASSUME NEW s \in Seq(Unit), NEW u \in Unit
  PROVE  /\ Cardinality(Definite(s)) \in Nat
         /\ Cardinality(Definite(Append(s, u))) =
              Cardinality(Definite(s)) + IF IsDefinite(u) THEN 1 ELSE 0
<1> DEFINE n == Len(s) + 1
           S == Definite(s)
<1>1. /\ n \in Nat /\ n - 1 = Len(s) /\ Len(s) \in Nat
      /\ Append(s, u)[n] = u /\ Len(Append(s, u)) = n
      /\ \A i \in 1 .. Len(s) : Append(s, u)[i] = s[i]
  OBVIOUS
<1>2. S = {i \in 1 .. Len(s) : IsDefinite(s[i])}
  BY Zenon DEF Definite, IsDefinite
<1>3. Definite(Append(s, u)) = {i \in 1 .. n : IsDefinite(Append(s, u)[i])}
  BY <1>1, Zenon DEF Definite, IsDefinite
<1> HIDE DEF S
<1>4. IsFiniteSet(S)
  <2>1. 1 \in Int /\ Len(s) \in Int
    BY <1>1
  <2>2. IsFiniteSet(1 .. Len(s))
    BY <2>1, FS_Interval, Zenon
  <2>3. S \subseteq 1 .. Len(s)
    BY <1>2, Zenon
  <2> QED
    BY <2>2, <2>3, FS_Subset, Zenon
<1>5. n \notin S
  BY <1>1, <1>2
<1>6. Cardinality(S) \in Nat /\ Cardinality(S \cup {n}) = Cardinality(S) + 1
  BY <1>4, <1>5, FS_CardinalityType, FS_AddElement, Zenon
<1>7. Definite(Append(s, u)) = IF IsDefinite(u) THEN S \cup {n} ELSE S
  BY <1>1, <1>2, <1>3
<1>8. CASE IsDefinite(u)
  BY <1>6, <1>7, <1>8 DEF S
<1>9. CASE ~IsDefinite(u)
  BY <1>6, <1>7, <1>9 DEF S
<1> QED
  BY <1>8, <1>9

(* A sequence is its last element behind the others. *)
LEMMA FrontAndLast ==
  ASSUME NEW s \in Seq(Unit), s # << >>
  PROVE  /\ Front(s) \in Seq(Unit) /\ Last(s) \in Unit
         /\ s = Append(Front(s), Last(s))
<1> DEFINE n == Len(s) - 1
           f == SubSeq(s, 1, n)
<1>1. n \in Nat /\ Len(s) = n + 1
  OBVIOUS
<1>2. Front(s) = f /\ Last(s) = s[n + 1]
  BY <1>1 DEF Front, Last
<1>3. f \in Seq(Unit) /\ Len(f) = n /\ \A i \in 1 .. n : f[i] = s[i]
  OBVIOUS
<1>4. s[n + 1] \in Unit
  BY <1>1
<1> HIDE DEF n, f
<1>5. s = Append(f, s[n + 1])
  BY <1>1, <1>3, <1>4
<1> QED
  BY <1>2, <1>3, <1>4, <1>5

(***************************************************************************)
(* The state of a converter                                                *)
(***************************************************************************)
(* The writers are right, and as many as the open definite tags say. *)
Sound(q) == q \in WritersType /\ WritersMatch(q)

State(tlvs, writers, top) == [tlvs |-> tlvs, writers |-> writers, top |-> top]

(* The parts of a sound state, and that they make one *)
LEMMA SoundParts ==
  ASSUME NEW q, Sound(q)
  PROVE  /\ q.tlvs \in Seq(Unit) /\ q.top \in Nat
         /\ q = State(q.tlvs, q.writers, q.top)
         /\ q.top = 1 + Cardinality(Definite(q.tlvs))
         /\ InUse(q.writers, q.top) /\ q.top \in 1 .. q.top
<1>1. /\ q.tlvs \in Seq(Unit) /\ q.writers \in Seq(Writer) /\ q.top \in Nat
      /\ q = [tlvs |-> q.tlvs, writers |-> q.writers, top |-> q.top]
  BY DEF Sound, WritersType
<1>2. /\ q.top = 1 + Cardinality(Definite(q.tlvs)) /\ q.top <= Len(q.writers)
      /\ EmptyAbove(q.writers, q.top) /\ Counted(q.writers)
  BY Zenon DEF Sound, WritersMatch
<1>3. q.top >= 1
  <2>1. Cardinality(Definite(q.tlvs)) \in Nat
    <3>1. Eoc \in Unit
      BY EocTyped
    <3> QED
      BY <1>1, <3>1, DefiniteAppend
  <2> QED
    BY <1>2, <2>1
<1>4. q.top \in 1 .. Len(q.writers) /\ q.top \in 1 .. q.top
  BY <1>1, <1>2, <1>3
<1> QED
  BY <1>1, <1>2, <1>4, InUseIs, Zenon DEF State

(* They make one. *)
LEMMA SoundState ==
  ASSUME NEW tlvs \in Seq(Unit), NEW ws, NEW top, InUse(ws, top),
         top = 1 + Cardinality(Definite(tlvs))
  PROVE  Sound(State(tlvs, ws, top))
<1> DEFINE q == State(tlvs, ws, top)
<1>1. ws \in Seq(Writer) /\ top \in 1 .. Len(ws) /\ EmptyAbove(ws, top) /\ Counted(ws)
  BY InUseIs
<1>2. top \in Nat /\ top <= Len(ws)
  BY <1>1
<1>3. q \in WritersType
  BY <1>1, <1>2 DEF WritersType, State
<1>4. q.tlvs = tlvs /\ q.writers = ws /\ q.top = top
  BY DEF State
<1> HIDE DEF q
<1>5. WritersMatch(q)
  BY <1>1, <1>2, <1>4, Zenon DEF WritersMatch
<1> QED
  BY <1>3, <1>5, Zenon DEF Sound, q

(* Before anything is written *)
LEMMA NewSound == Sound(NewWriters)
<1> DEFINE ws == <<EmptyWriter>>
<1>1. InUse(ws, 1)
  <2>1. Right(EmptyWriter) /\ EmptyWriter \in Writer
    BY WritersRight, RightParts
  <2> QED
    BY <2>1 DEF InUse
<1>2. Cardinality(Definite(<< >>)) = 0
  <2>1. Definite(<< >>) = {}
    BY DEF Definite
  <2> QED
    BY <2>1, FS_EmptySet
<1>3. << >> \in Seq(Unit) /\ 1 = 1 + Cardinality(Definite(<< >>))
  BY <1>2
<1>4. Sound(State(<< >>, ws, 1))
  BY <1>1, <1>3, SoundState, Zenon
<1> QED
  BY <1>4, Zenon DEF NewWriters, State

(* A primitive tag is not written before its end. *)
LEMMA PrimitiveOpens ==
  ASSUME NEW q, Sound(q), NEW tlv \in Unit, tlv.shape # "constructed"
  PROVE  /\ Sound([q EXCEPT !.tlvs = Append(@, tlv)])
         /\ [q EXCEPT !.tlvs = Append(@, tlv)].tlvs = Append(q.tlvs, tlv)
<1> DEFINE s  == Append(q.tlvs, tlv)
           ws == q.writers
           n  == q.top
<1>1. /\ q.tlvs \in Seq(Unit) /\ n \in Nat /\ q = State(q.tlvs, ws, n)
      /\ n = 1 + Cardinality(Definite(q.tlvs)) /\ InUse(ws, n)
  BY SoundParts
<1>2. s \in Seq(Unit)
  BY <1>1
<1>3. n = 1 + Cardinality(Definite(s))
  BY <1>1, DefiniteAppend DEF IsDefinite
<1> HIDE DEF s, ws, n
<1>4. [q EXCEPT !.tlvs = s] = State(s, ws, n) /\ State(s, ws, n).tlvs = s
  BY <1>1 DEF State
<1>5. [q EXCEPT !.tlvs = Append(@, tlv)] = [q EXCEPT !.tlvs = s]
  BY Zenon DEF s
<1>6. Sound(State(s, ws, n))
  BY <1>1, <1>2, <1>3, SoundState
<1> QED
  BY <1>4, <1>5, <1>6 DEF s
SetTlvs(q, s) == [q EXCEPT !.tlvs = s]

SetWriters(q, ws) == [q EXCEPT !.writers = ws]

SetTop(q, n) == [q EXCEPT !.top = n]

(* One part of the state changes. *)
LEMMA StateChanges ==
  /\ \A s, ws, n, t : SetTlvs(State(s, ws, n), t) = State(t, ws, n)
  /\ \A s, ws, n, vs : SetWriters(State(s, ws, n), vs) = State(s, vs, n)
  /\ \A s, ws, n, m : SetTop(State(s, ws, n), m) = State(s, ws, m)
  /\ \A s, ws, n : /\ State(s, ws, n).tlvs = s
                   /\ State(s, ws, n).writers = ws
                   /\ State(s, ws, n).top = n
<1>1. ASSUME NEW s, NEW ws, NEW n, NEW t
      PROVE  SetTlvs(State(s, ws, n), t) = State(t, ws, n)
  BY DEF SetTlvs, State
<1>2. ASSUME NEW s, NEW ws, NEW n, NEW t
      PROVE  SetWriters(State(s, ws, n), t) = State(s, t, n)
  BY DEF SetWriters, State
<1>3. ASSUME NEW s, NEW ws, NEW n, NEW t
      PROVE  SetTop(State(s, ws, n), t) = State(s, ws, t)
  BY DEF SetTop, State
<1>4. ASSUME NEW s, NEW ws, NEW n
      PROVE  /\ State(s, ws, n).tlvs = s /\ State(s, ws, n).writers = ws
             /\ State(s, ws, n).top = n
  BY DEF State
<1> QED
  BY <1>1, <1>2, <1>3, <1>4

(* A constructed tag opens. *)
LEMMA OpenTagSound ==
  ASSUME NEW q, Sound(q), NEW tlv \in Unit, tlv.shape = "constructed"
  PROVE  Sound(OpenTag(q, tlv)) /\ OpenTag(q, tlv).tlvs = Append(q.tlvs, tlv)
<1> DEFINE s  == Append(q.tlvs, tlv)
           ws == q.writers
           n  == q.top
           o  == SetTlvs(q, s)
<1>1. /\ q.tlvs \in Seq(Unit) /\ n \in Nat /\ q = State(q.tlvs, ws, n)
      /\ n = 1 + Cardinality(Definite(q.tlvs)) /\ InUse(ws, n) /\ n \in 1 .. n
  BY SoundParts
<1>2. s \in Seq(Unit)
  BY <1>1
<1>3. /\ Cardinality(Definite(q.tlvs)) \in Nat
      /\ 1 + Cardinality(Definite(s)) = n + IF IsDefinite(tlv) THEN 1 ELSE 0
  BY <1>1, DefiniteAppend
<1>4. o = State(s, ws, n) /\ o.writers = ws /\ o.top = n
  BY <1>1, StateChanges
<1>5. CASE tlv.indefinite
  <2> DEFINE vs == WriteTo(ws, n, tlv)
  <2>1. InUse(vs, n)
    BY <1>1, WriteToKeeps
  <2>2. OpenTag(q, tlv) = SetWriters(o, WriteTo(o.writers, q.top, tlv))
    BY <1>5, Zenon DEF OpenTag, SetTlvs, SetWriters
  <2>3. OpenTag(q, tlv) = State(s, vs, n)
    BY <1>4, <2>2, StateChanges
  <2>4. n = 1 + Cardinality(Definite(s))
    BY <1>1, <1>3, <1>5 DEF IsDefinite
  <2> HIDE DEF vs, s, n, ws
  <2>5. Sound(State(s, vs, n)) /\ State(s, vs, n).tlvs = s
    BY <1>2, <2>1, <2>4, SoundState, StateChanges
  <2> QED
    BY <2>3, <2>5 DEF s
<1>6. CASE ~tlv.indefinite
  <2> DEFINE vs == WithLevel(ws, n)
             p  == SetWriters(o, vs)
  <2>1. InUse(vs, n + 1)
    BY <1>1, WithLevelKeeps
  <2>2. p = State(s, vs, n) /\ p.top = n
    BY <1>4, StateChanges
  <2>3. OpenTag(q, tlv) = SetTop(p, p.top + 1)
    <3>1. OpenTag(q, tlv) =
            SetTop(SetWriters(o, WithLevel(o.writers, q.top)),
                   SetWriters(o, WithLevel(o.writers, q.top)).top + 1)
      BY <1>6, Zenon DEF OpenTag, SetTlvs, SetWriters, SetTop
    <3> QED
      BY <3>1, <1>4, Zenon
  <2>4. OpenTag(q, tlv) = State(s, vs, n + 1)
    BY <2>2, <2>3, StateChanges
  <2>5. n + 1 = 1 + Cardinality(Definite(s))
    BY <1>1, <1>3, <1>6 DEF IsDefinite
  <2> HIDE DEF vs, s, n, ws
  <2>6. Sound(State(s, vs, n + 1)) /\ State(s, vs, n + 1).tlvs = s
    BY <1>2, <2>1, <2>5, SoundState, StateChanges
  <2> QED
    BY <2>4, <2>6 DEF s
<1> QED
  BY <1>5, <1>6

(* A primitive tag is written at its end. *)
LEMMA PrimitiveEnds ==
  ASSUME NEW q, Sound(q), q.tlvs # << >>, Last(q.tlvs).shape # "constructed",
         NEW u \in Unit
  PROVE  Sound([q EXCEPT !.tlvs = Front(@), !.writers = WriteTo(@, q.top, u)])
<1> DEFINE s  == Front(q.tlvs)
           ws == q.writers
           n  == q.top
           o  == SetTlvs(q, s)
           vs == WriteTo(ws, n, u)
           r  == [q EXCEPT !.tlvs = Front(@), !.writers = WriteTo(@, q.top, u)]
<1>1. /\ q.tlvs \in Seq(Unit) /\ n \in Nat /\ q = State(q.tlvs, ws, n)
      /\ n = 1 + Cardinality(Definite(q.tlvs)) /\ InUse(ws, n) /\ n \in 1 .. n
  BY SoundParts
<1>2. s \in Seq(Unit) /\ Last(q.tlvs) \in Unit /\ q.tlvs = Append(s, Last(q.tlvs))
  BY <1>1, FrontAndLast
<1>3. n = 1 + Cardinality(Definite(s))
  <2>1. Cardinality(Definite(q.tlvs)) = Cardinality(Definite(s)) + 0
        /\ Cardinality(Definite(s)) \in Nat
    <3>1. ~IsDefinite(Last(q.tlvs))
      BY DEF IsDefinite
    <3> HIDE DEF s
    <3> QED
      BY <1>2, <3>1, DefiniteAppend
  <2> QED
    BY <1>1, <2>1
<1>4. o = State(s, ws, n) /\ o.writers = ws /\ o.top = n
  BY <1>1, StateChanges
<1>5. r = SetWriters(o, WriteTo(o.writers, q.top, u))
  BY Zenon DEF SetTlvs, SetWriters
<1> HIDE DEF r
<1>6. r = State(s, vs, n)
  BY <1>4, <1>5, StateChanges
<1>7. InUse(vs, n)
  BY <1>1, WriteToKeeps
<1> HIDE DEF s, ws, n, vs
<1>8. Sound(State(s, vs, n))
  BY <1>2, <1>3, <1>7, SoundState
<1>9. Sound(r)
  BY <1>6, <1>8
<1> QED
  BY <1>9 DEF r

(* The innermost tag ends, a constructed one. *)
LEMMA CloseTagSound ==
  ASSUME NEW q, Sound(q), q.tlvs # << >>, Last(q.tlvs).shape = "constructed"
  PROVE  Sound(CloseTag(q))
<1> DEFINE s   == Front(q.tlvs)
           tlv == Last(q.tlvs)
           ws  == q.writers
           n   == q.top
           o   == SetTlvs(q, s)
<1>1. /\ q.tlvs \in Seq(Unit) /\ n \in Nat /\ q = State(q.tlvs, ws, n)
      /\ n = 1 + Cardinality(Definite(q.tlvs)) /\ InUse(ws, n) /\ n \in 1 .. n
  BY SoundParts
<1>2. s \in Seq(Unit) /\ tlv \in Unit /\ q.tlvs = Append(s, tlv)
  BY <1>1, FrontAndLast
<1>3. /\ Cardinality(Definite(s)) \in Nat
      /\ n = 1 + Cardinality(Definite(s)) + IF IsDefinite(tlv) THEN 1 ELSE 0
  <2> HIDE DEF s, tlv
  <2>1. /\ Cardinality(Definite(q.tlvs)) =
             Cardinality(Definite(s)) + IF IsDefinite(tlv) THEN 1 ELSE 0
        /\ Cardinality(Definite(s)) \in Nat
    BY <1>2, DefiniteAppend
  <2> QED
    BY <1>1, <2>1
<1>4. o = State(s, ws, n) /\ o.writers = ws /\ o.top = n
  BY <1>1, StateChanges
<1>5. CASE tlv.indefinite
  <2> DEFINE vs == WriteTo(ws, n, Eoc)
  <2>1. InUse(vs, n)
    BY <1>1, EocTyped, WriteToKeeps
  <2>2. CloseTag(q) = SetWriters(o, WriteTo(o.writers, q.top, Eoc))
    BY <1>5, Zenon DEF CloseTag, SetTlvs, SetWriters
  <2>3. CloseTag(q) = State(s, vs, n)
    BY <1>4, <2>2, StateChanges
  <2>4. n = 1 + Cardinality(Definite(s))
    BY <1>1, <1>3, <1>5 DEF IsDefinite
  <2> HIDE DEF vs, s, n, ws
  <2>5. Sound(State(s, vs, n))
    BY <1>2, <2>1, <2>4, SoundState
  <2> QED
    BY <2>3, <2>5
<1>6. CASE ~tlv.indefinite
  <2> DEFINE h  == HeaderOf(tlv, ws[n].pos)
             vs == Pour(ws, n, h)
             p  == SetTop(o, n - 1)
  <2>1. n = 2 + Cardinality(Definite(s)) /\ n > 1
    BY <1>3, <1>6 DEF IsDefinite
  <2>2. h \in Unit
    <3>1. Right(ws[n])
      BY <1>1, Zenon DEF InUse
    <3>2. ws[n].pos \in Nat
      BY <3>1, RightParts
    <3> HIDE DEF tlv
    <3> QED
      BY <1>2, <3>2, HeaderTyped
  <2>3. InUse(vs, n - 1)
    BY <1>1, <2>1, <2>2, PourKeeps
  <2>4. p = State(s, ws, n - 1) /\ p.writers = ws
    BY <1>4, StateChanges
  <2>5. CloseTag(q) = SetWriters(p, Pour(p.writers, q.top, h))
    <3>1. CloseTag(q) =
            SetWriters(SetTop(o, o.top - 1),
                       Pour(SetTop(o, o.top - 1).writers, q.top, h))
      BY <1>6, Zenon DEF CloseTag, SetTlvs, SetWriters, SetTop
    <3> QED
      BY <3>1, <1>4, Zenon
  <2>6. CloseTag(q) = State(s, vs, n - 1)
    BY <2>4, <2>5, StateChanges
  <2>7. n - 1 = 1 + Cardinality(Definite(s))
    BY <1>1, <1>3, <2>1
  <2> HIDE DEF vs, s, n, ws
  <2>8. Sound(State(s, vs, n - 1))
    BY <1>2, <2>3, <2>7, SoundState
  <2> QED
    BY <2>6, <2>8
<1> QED
  BY <1>5, <1>6

(***************************************************************************)
(* Encodings                                                               *)
(***************************************************************************)
(* A node and a forest without the bounds of the model checker: the trees  *)
(* of libxml2 may be any of them.                                          *)
AnyNode ==
  [depth : Nat, form : {"primitive"}, extra : {0}, length : Nat]
    \cup
  [depth : Nat, form : {"definite"}, extra : {0, 1}, length : {0}]
    \cup
  [depth : Nat, form : {"indefinite"}, extra : {0}, length : {0}]

AllForests == {f \in Seq(AnyNode) : IsForest(f)}

(* The forests of the inputs are among them. *)
LEMMA InputForest ==
  ASSUME NEW f \in Forests
  PROVE  f \in AllForests
<1>1. PICK n \in 0 .. MaxNodes : f \in [1 .. n -> Node]
  BY DEF Forests
<1>2. IsForest(f)
  BY DEF Forests
<1>3. ASSUME NEW v \in Node PROVE v \in AnyNode
  <2>1. ASSUME NEW d \in 0 .. MaxDepth PROVE d \in Nat
    BY ForestAssumption
  <2>2. ASSUME NEW l \in Contents PROVE l \in Nat
    BY ForestAssumption, Zenon
  <2> DEFINE D == 0 .. MaxDepth
  <2> HIDE DEF D
  <2>3. \A d \in D : d \in Nat
    BY <2>1 DEF D
  <2>4. v \in [depth : D, form : {"primitive"}, extra : {0}, length : Contents] =>
          v \in [depth : Nat, form : {"primitive"}, extra : {0}, length : Nat]
    BY <2>2, <2>3
  <2>5. v \in [depth : D, form : {"definite"}, extra : {0, 1}, length : {0}] =>
          v \in [depth : Nat, form : {"definite"}, extra : {0, 1}, length : {0}]
    BY <2>3
  <2>6. v \in [depth : D, form : {"indefinite"}, extra : {0}, length : {0}] =>
          v \in [depth : Nat, form : {"indefinite"}, extra : {0}, length : {0}]
    BY <2>3
  <2> QED
    BY <2>4, <2>5, <2>6, Zenon DEF Node, AnyNode, D
<1>4. f \in Seq(AnyNode)
  <2>1. \A i \in 1 .. n : f[i] \in Node
    BY <1>1
  <2>2. f \in [1 .. n -> AnyNode] /\ n \in Nat
    BY <1>1, <1>3, <2>1, ForestAssumption
  <2> QED
    BY <2>2
<1> QED
  BY <1>2, <1>4 DEF AllForests

(* The parts of a node *)
LEMMA NodeParts ==
  ASSUME NEW v \in AnyNode
  PROVE  /\ v.depth \in Nat /\ v.length \in Nat /\ v.extra \in Nat /\ v.form \in Forms
         /\ v.form # "primitive" => v.length = 0
<1>1. CASE v \in [depth : Nat, form : {"primitive"}, extra : {0}, length : Nat]
  BY <1>1 DEF Forms
<1>2. CASE v \in [depth : Nat, form : {"definite"}, extra : {0, 1}, length : {0}]
  BY <1>2 DEF Forms
<1>3. CASE v \in [depth : Nat, form : {"indefinite"}, extra : {0}, length : {0}]
  BY <1>3 DEF Forms
<1> QED
  BY <1>1, <1>2, <1>3, Zenon DEF AnyNode

(* A forest is a sequence of nodes. *)
LEMMA ForestTyped ==
  ASSUME NEW f \in AllForests
  PROVE  /\ f \in Seq(AnyNode)
         /\ \A i \in 1 .. Len(f) :
              /\ f[i].length \in Nat /\ f[i].extra \in Nat
              /\ f[i].form \in Forms
<1>1. f \in Seq(AnyNode)
  BY DEF AllForests
<1> HIDE DEF AnyNode
<1>2. \A i \in 1 .. Len(f) : f[i] \in AnyNode
  BY <1>1
<1> QED
  BY <1>1, <1>2, NodeParts

(* What is below a node is behind it. *)
LEMMA BelowBehind ==
  ASSUME NEW f, Len(f) \in Nat, NEW i \in 1 .. Len(f)
  PROVE  /\ Below(f, i) # {} => i + 1 \in 1 .. Len(f)
         /\ LastOf(f, i) \in Nat /\ LastOf(f, i) >= i
<1>1. Below(f, i) \subseteq (i + 1) .. Len(f)
  BY DEF Below
<1>2. i + 1 \in Int /\ Len(f) \in Int
  OBVIOUS
<1>3. IsFiniteSet((i + 1) .. Len(f))
  BY <1>2, FS_Interval, Zenon
<1>4. Cardinality(Below(f, i)) \in Nat
  BY <1>1, <1>3, FS_Subset, FS_CardinalityType
<1> QED
  BY <1>1, <1>4 DEF LastOf

(* A node begins with a unit. *)
LEMMA UnitOfTyped ==
  ASSUME NEW f \in AllForests, NEW i \in 1 .. Len(f), NEW inner \in Nat
  PROVE  UnitOf(f[i], inner) \in EncodedUnit /\ UnitOf(f[i], inner).tl >= 2
<1> DEFINE v      == f[i]
           length == CASE v.form = "primitive"  -> v.length
                       [] v.form = "definite"   -> inner
                       [] v.form = "indefinite" -> 0
<1>1. v.length \in Nat /\ v.extra \in Nat /\ v.form \in Forms
  BY ForestTyped
<1> HIDE DEF v
<1>2. length \in Nat
  BY <1>1 DEF Forms
<1> HIDE DEF length
<1>3. MinimalTl(length) + v.extra \in Nat /\ MinimalTl(length) + v.extra >= 2
  <2>1. MinimalTl(length) \in Nat /\ MinimalTl(length) >= 2
    BY <1>2, MinimalTlNat
  <2> DEFINE m == MinimalTl(length)
             e == v.extra
  <2> HIDE DEF m, e
  <2>2. m \in Nat /\ m >= 2 /\ e \in Nat
    BY <1>1, <2>1 DEF m, e
  <2>3. m + e \in Nat /\ m + e >= 2
    BY <2>2
  <2> QED
    BY <2>3 DEF m, e
<1>4. UnitOf(v, inner) =
        [shape      |-> IF v.form = "primitive" THEN v.form ELSE "constructed",
         eoc        |-> FALSE,
         indefinite |-> v.form = "indefinite",
         tl         |-> MinimalTl(length) + v.extra,
         length     |-> length]
  BY Zenon DEF UnitOf, length
<1> DEFINE tl == MinimalTl(length) + v.extra
<1> HIDE DEF tl
<1>5. UnitOf(v, inner) \in EncodedUnit /\ UnitOf(v, inner).tl >= 2
  BY <1>2, <1>3, <1>4 DEF EncodedUnit, Unit, tl
<1> QED
  BY <1>5 DEF v

(* The octets of the nodes behind node i give those of node i, *)
LEMMA InnerNat ==
  ASSUME NEW f \in AllForests, NEW i \in 1 .. Len(f), NEW rest,
         \A j \in (i + 1) .. Len(f) : rest[j] \in Nat
  PROVE  InnerOf(f, rest, i) \in Nat /\ WithSiblings(f, rest, i) \in Nat
<1> DEFINE next == LastOf(f, i) + 1
           u    == UnitOf(f[i], InnerOf(f, rest, i))
           more == next <= Len(f) /\ f[next].depth = f[i].depth
<1>1. Len(f) \in Nat /\ f[i].length \in Nat
  BY ForestTyped
<1>2. InnerOf(f, rest, i) \in Nat
  <2>1. Below(f, i) # {} => rest[i + 1] \in Nat
    BY <1>1, BelowBehind
  <2> QED
    BY <2>1, EocTyped DEF InnerOf
<1>3. u \in EncodedUnit
  BY <1>2, UnitOfTyped
<1>4. u.tl \in Nat /\ u.length \in Nat
  BY <1>3 DEF EncodedUnit, Unit
<1>5. more => rest[next] \in Nat
  BY <1>1, BelowBehind
<1>6. WithSiblings(f, rest, i) =
        u.tl + (IF f[i].form = "primitive" THEN u.length
                                           ELSE InnerOf(f, rest, i))
          + IF more THEN rest[next] ELSE 0
  BY Zenon DEF WithSiblings
<1> HIDE DEF u, next, more
<1> QED
  BY <1>2, <1>4, <1>5, <1>6

(* and nothing else does. *)
LEMMA InnerLocal ==
  ASSUME NEW f \in AllForests, NEW i \in 1 .. Len(f), NEW r, NEW s,
         \A j \in (i + 1) .. Len(f) : r[j] = s[j]
  PROVE  WithSiblings(f, r, i) = WithSiblings(f, s, i)
<1> DEFINE next == LastOf(f, i) + 1
           more == next <= Len(f) /\ f[next].depth = f[i].depth
<1>1. Len(f) \in Nat
  BY ForestTyped
<1>2. InnerOf(f, r, i) = InnerOf(f, s, i)
  <2>1. Below(f, i) # {} => r[i + 1] = s[i + 1]
    BY <1>1, BelowBehind
  <2> QED
    BY <2>1 DEF InnerOf
<1>3. more => r[next] = s[next]
  BY <1>1, BelowBehind
<1> HIDE DEF next, more
<1> QED
  BY <1>2, <1>3, Zenon DEF WithSiblings, next, more

(* What each node and its siblings behind it have in octets *)
Rests(f, rest) ==
  /\ \A i \in 1 .. Len(f) : rest[i] = WithSiblings(f, rest, i) /\ rest[i] \in Nat
  /\ Inner(f) = [i \in 1 .. Len(f) |-> InnerOf(f, rest, i)]

(* There is such a function of octets, as Inner() takes it. *)
LEMMA RestsExist ==
  ASSUME NEW f \in AllForests
  PROVE  \E rest : Rests(f, rest)
<1> DEFINE N      == Len(f)
           Def(g) == g = [i \in 1 .. N |-> WithSiblings(f, g, i)]
           rest   == CHOOSE g : Def(g)
<1>1. N \in Nat
  BY ForestTyped
<1>2. Inner(f) = [i \in 1 .. N |-> InnerOf(f, rest, i)]
  BY Zenon DEF Inner
<1> DEFINE From(m) == (N + 1 - m) .. N
           Good(g, m) ==
             \A i \in 1 .. N : i > N - m => g[i] = WithSiblings(f, g, i)
           S == {m \in Nat : m <= N => \E g \in [1 .. N -> Nat] : Good(g, m)}
<1> HIDE DEF N
<1>3. 0 \in S
  <2>1. [i \in 1 .. N |-> 0] \in [1 .. N -> Nat]
    OBVIOUS
  <2>2. Good([i \in 1 .. N |-> 0], 0)
    BY <1>1
  <2> QED
    BY <2>1, <2>2
<1>4. ASSUME NEW m \in Nat, m \in S PROVE m + 1 \in S
  <2> SUFFICES ASSUME m + 1 <= N
               PROVE  \E g \in [1 .. N -> Nat] : Good(g, m + 1)
    OBVIOUS
  <2>1. PICK g \in [1 .. N -> Nat] : Good(g, m)
    BY <1>1, <1>4
  <2>2. N - m \in 1 .. N
    BY <1>1
  <2> DEFINE k   == N - m
             new == WithSiblings(f, g, k)
             h   == [g EXCEPT ![k] = new]
  <2>3. new \in Nat
    <3>1. \A j \in (k + 1) .. Len(f) : g[j] \in Nat
      BY <1>1 DEF N
    <3>2. k \in 1 .. Len(f)
      BY <2>2 DEF N
    <3> HIDE DEF k
    <3> QED
      BY <3>1, <3>2, InnerNat
  <2>4. h \in [1 .. N -> Nat] /\ h[k] = new
        /\ \A j \in 1 .. N : j # k => h[j] = g[j]
    <3> HIDE DEF new
    <3> QED
      BY <2>2, <2>3
  <2> HIDE DEF h
  <2>5. ASSUME NEW i \in 1 .. N, i >= k
        PROVE  WithSiblings(f, h, i) = WithSiblings(f, g, i)
    <3>1. \A j \in (i + 1) .. Len(f) : h[j] = g[j]
      BY <1>1, <2>2, <2>4, <2>5 DEF N
    <3>2. i \in 1 .. Len(f)
      BY DEF N
    <3> QED
      BY <3>1, <3>2, InnerLocal
  <2>6. ASSUME NEW i \in 1 .. N, i > N - (m + 1)
        PROVE  h[i] = WithSiblings(f, h, i)
    <3>1. i = k \/ (i > N - m /\ i # k /\ i >= k)
      BY <1>1, <2>6
    <3>2. CASE i = k
      BY <1>1, <2>2, <2>4, <2>5, <3>2
    <3>3. CASE i > N - m /\ i # k /\ i >= k
      <4>1. g[i] = WithSiblings(f, g, i)
        BY <2>1, <3>3
      <4> QED
        BY <2>4, <2>5, <3>3, <4>1
    <3> QED
      BY <3>1, <3>2, <3>3
  <2> QED
    BY <2>4, <2>6
<1> HIDE DEF S
<1>5. \A m \in Nat : m \in S
  BY <1>3, <1>4, Induction
<1>6. \E g : Def(g)
  <2>1. PICK g \in [1 .. N -> Nat] : Good(g, N)
    BY <1>1, <1>5 DEF S
  <2>2. \A i \in 1 .. N : g[i] = WithSiblings(f, g, i)
    BY <1>1, <2>1
  <2>3. Def(g)
    BY <2>2
  <2> QED
    BY <2>3
<1> HIDE DEF Def
<1>7. Def(rest)
  BY <1>6, Zenon
<1> HIDE DEF rest
<1>8. \A i \in 1 .. N : rest[i] = WithSiblings(f, rest, i)
  BY <1>7, Zenon DEF Def
<1> DEFINE T == {m \in Nat : \A i \in 1 .. N : i > N - m => rest[i] \in Nat}
<1>9. 0 \in T
  BY <1>1
<1>10. ASSUME NEW m \in Nat, m \in T PROVE m + 1 \in T
  <2> SUFFICES ASSUME NEW i \in 1 .. N, i > N - (m + 1) PROVE rest[i] \in Nat
    BY <1>1
  <2>1. \A j \in (i + 1) .. Len(f) : rest[j] \in Nat
    BY <1>1, <1>10 DEF N
  <2>2. i \in 1 .. Len(f)
    BY DEF N
  <2>3. WithSiblings(f, rest, i) \in Nat
    BY <2>1, <2>2, InnerNat
  <2> QED
    BY <1>8, <2>3
<1> HIDE DEF T
<1>11. \A m \in Nat : m \in T
  BY <1>9, <1>10, Induction
<1>12. \A i \in 1 .. N : rest[i] \in Nat
  BY <1>1, <1>11 DEF T
<1> HIDE DEF N
<1> QED
  BY <1>2, <1>8, <1>12, Zenon DEF Rests, N

(* The octets inside of each node of a forest *)
LEMMA InnerTyped ==
  ASSUME NEW f \in AllForests
  PROVE  Inner(f) \in [1 .. Len(f) -> Nat]
<1>1. PICK rest : Rests(f, rest)
  BY RestsExist
<1>2. \A i \in 1 .. Len(f) : InnerOf(f, rest, i) \in Nat
  <2> SUFFICES ASSUME NEW i \in 1 .. Len(f) PROVE InnerOf(f, rest, i) \in Nat
    OBVIOUS
  <2>1. \A j \in (i + 1) .. Len(f) : rest[j] \in Nat
    BY <1>1, ForestTyped DEF Rests
  <2> QED
    BY <2>1, InnerNat
<1> QED
  BY <1>1, <1>2 DEF Rests

(* The first n of the sequences s, one behind the other *)
Flat(g, s) ==
  /\ g[0] = << >>
  /\ \A n \in 1 .. Len(s) : g[n] = g[n - 1] \o s[n]
  /\ FlattenSeq(s) = g[Len(s)]

(* Sequences of T, one behind the other, are a sequence of T. *)
LEMMA FlattenTyped ==
  ASSUME NEW T, NEW s \in Seq(Seq(T))
  PROVE  /\ \E g \in [0 .. Len(s) -> Seq(T)] : Flat(g, s)
         /\ FlattenSeq(s) \in Seq(T)
<1> DEFINE N      == Len(s)
           step   == [n \in 1 .. N |-> [y \in Seq(T) |-> y \o s[n]]]
           Def(h) == h = [i \in 1 .. N |->
                            IF i = 1 THEN s[i] ELSE h[i - 1] \o s[i]]
           flat   == CHOOSE h : Def(h)
<1>1. N \in Nat /\ << >> \in Seq(T) /\ \A n \in 1 .. N : s[n] \in Seq(T)
  OBVIOUS
<1>2. step \in [1 .. N -> [Seq(T) -> Seq(T)]]
  BY <1>1
<1>3. \A n \in 1 .. N, y \in Seq(T) : step[n][y] = y \o s[n]
  OBVIOUS
<1>4. N = 0 => FlattenSeq(s) = << >>
  BY DEF FlattenSeq
<1>5. N # 0 => FlattenSeq(s) = flat[N]
  BY Zenon DEF FlattenSeq
<1> HIDE DEF N, step
<1>6. PICK g \in [0 .. N -> Seq(T)] : Steps(g, N, << >>, step)
  BY <1>1, <1>2, Recursion
<1>7. ASSUME NEW n \in 1 .. N
      PROVE  g[n] = g[n - 1] \o s[n]
  <2>1. n - 1 \in 0 .. N
    BY <1>1
  <2>2. g[n - 1] \in Seq(T)
    BY <2>1
  <2> QED
    BY <1>3, <1>6, <2>2, Zenon DEF Steps
<1>8. g[0] = << >>
  BY <1>6 DEF Steps
<1>9. N # 0 => flat[N] = g[N]
  <2> DEFINE h == [n \in 1 .. N |-> g[n]]
  <2>1. \A n \in 1 .. N : h[n] = g[n] /\ (n # 1 => h[n - 1] = g[n - 1])
    BY <1>1
  <2>2. Def(h)
    <3>1. ASSUME NEW n \in 1 .. N
          PROVE  h[n] = IF n = 1 THEN s[n] ELSE h[n - 1] \o s[n]
      <4>1. CASE n = 1
        <5>1. n - 1 = 0
          BY <4>1
        <5>2. g[n] = << >> \o s[n]
          BY <1>7, <1>8, <5>1, Zenon
        <5>3. << >> \o s[n] = s[n]
          BY <1>1
        <5> HIDE DEF h
        <5> QED
          BY <2>1, <4>1, <5>2, <5>3, Zenon
      <4>2. CASE n # 1
        BY <1>7, <2>1, <4>2
      <4> QED
        BY <4>1, <4>2
    <3>2. h = [n \in 1 .. N |-> h[n]]
      OBVIOUS
    <3> HIDE DEF h
    <3> QED
      BY <3>1, <3>2
  <2> HIDE DEF Def, h
  <2>3. Def(flat)
    BY <2>2, Zenon
  <2> HIDE DEF flat
  <2>4. \A n \in 1 .. N :
          flat[n] = IF n = 1 THEN s[n] ELSE flat[n - 1] \o s[n]
    BY <2>3, Zenon DEF Def
  <2> DEFINE S == {n \in Nat : n + 1 <= N => flat[n + 1] = g[n + 1]}
  <2>5. 0 \in S
    <3> SUFFICES ASSUME 1 <= N PROVE flat[1] = g[1]
      OBVIOUS
    <3>1. 1 \in 1 .. N /\ 1 - 1 = 0
      BY <1>1
    <3>2. flat[1] = s[1] /\ g[1] = << >> \o s[1] /\ s[1] \in Seq(T)
      BY <1>1, <1>7, <1>8, <2>4, <3>1
    <3> QED
      BY <3>2
  <2>6. ASSUME NEW n \in Nat, n \in S PROVE n + 1 \in S
    <3> SUFFICES ASSUME (n + 1) + 1 <= N PROVE flat[(n + 1) + 1] = g[(n + 1) + 1]
      OBVIOUS
    <3>1. /\ (n + 1) + 1 \in 1 .. N /\ ((n + 1) + 1) - 1 = n + 1
          /\ (n + 1) + 1 # 1 /\ flat[n + 1] = g[n + 1]
      BY <1>1, <2>6
    <3>2. flat[(n + 1) + 1] = flat[n + 1] \o s[(n + 1) + 1]
      BY <2>4, <3>1
    <3>3. g[(n + 1) + 1] = g[n + 1] \o s[(n + 1) + 1]
      BY <1>7, <3>1
    <3> QED
      BY <3>1, <3>2, <3>3
  <2> HIDE DEF S
  <2>7. \A n \in Nat : n \in S
    BY <2>5, <2>6, Induction
  <2>8. N # 0 => N - 1 \in Nat /\ (N - 1) + 1 = N
    BY <1>1
  <2> QED
    BY <2>7, <2>8 DEF S
<1>10. FlattenSeq(s) = g[N] /\ N \in 0 .. N
  <2>1. N \in 0 .. N
    BY <1>1
  <2>2. FlattenSeq(s) = g[N]
    <3>1. CASE N = 0
      BY <1>4, <1>8, <3>1, Zenon
    <3>2. CASE N # 0
      BY <1>5, <1>9, <3>2, Zenon
    <3> QED
      BY <3>1, <3>2
  <2> QED
    BY <2>1, <2>2
<1>11. Flat(g, s)
  BY <1>7, <1>8, <1>10, Zenon DEF Flat, N
<1> QED
  BY <1>10, <1>11 DEF N

(* The encoding of every forest consists of units with headers. *)
LEMMA UnitsTyped ==
  ASSUME NEW f \in AllForests
  PROVE  Units(f) \in Seq(EncodedUnit)
<1> DEFINE inner   == Inner(f)
           nodes   == [i \in 1 .. Len(f) |-> <<UnitOf(f[i], inner[i])>> \o Eocs(f, i)]
<1>1. Len(f) \in Nat /\ inner \in [1 .. Len(f) -> Nat]
  BY ForestTyped, InnerTyped
<1>2. ASSUME NEW i \in 1 .. Len(f)
      PROVE  Eocs(f, i) \in Seq(EncodedUnit)
  <2> DEFINE ends == {k \in 1 .. i : f[k].form = "indefinite" /\ LastOf(f, k) = i}
  <2>1. 1 \in Int /\ i \in Int
    BY <1>1
  <2>2. IsFiniteSet(1 .. i)
    BY <2>1, FS_Interval, Zenon
  <2>3. Cardinality(ends) \in Nat
    BY <2>2, FS_Subset, FS_CardinalityType
  <2>4. Eocs(f, i) = [n \in 1 .. Cardinality(ends) |-> Eoc]
    BY Zenon DEF Eocs
  <2> HIDE DEF ends
  <2> QED
    BY <2>3, <2>4, EocTyped
<1>3. ASSUME NEW i \in 1 .. Len(f)
      PROVE  <<UnitOf(f[i], inner[i])>> \o Eocs(f, i) \in Seq(EncodedUnit)
  <2>1. inner[i] \in Nat
    BY <1>1
  <2> HIDE DEF inner
  <2>2. UnitOf(f[i], inner[i]) \in EncodedUnit
    BY <2>1, UnitOfTyped
  <2> QED
    BY <1>2, <2>2
<1>4. nodes \in Seq(Seq(EncodedUnit))
  BY <1>1, <1>3
<1>5. Units(f) = FlattenSeq(nodes)
  BY Zenon DEF Units
<1> HIDE DEF nodes
<1> QED
  BY <1>4, <1>5, FlattenTyped

(***************************************************************************)
(* Units that are read                                                     *)
(***************************************************************************)
(* A unit that is read *)
LEMMA EncodedParts ==
  ASSUME NEW u \in EncodedUnit
  PROVE  /\ u \in Unit /\ u.tl \in Nat /\ u.tl > 0 /\ u.length \in Nat
         /\ u.indefinite \in BOOLEAN
BY DEF EncodedUnit, Unit

(* The octets that are counted for a unit, more than none *)
LEMMA OctetsOf ==
  ASSUME NEW u \in EncodedUnit
  PROVE  /\ u.tl \in Nat /\ u.tl > 0
         /\ u.tl + u.length \in Nat /\ u.tl + u.length > 0
<1> DEFINE a == u.tl
           b == u.length
<1>1. a \in Nat /\ a > 0 /\ b \in Nat
  BY EncodedParts
<1> HIDE DEF a, b
<1>2. a + b \in Nat /\ a + b > 0
  BY <1>1
<1> QED
  BY <1>1, <1>2 DEF a, b

(* One end-of-content unit too many *)
LEMMA StrayTyped ==
  ASSUME NEW all \in Seq(EncodedUnit), NEW n \in 1 .. Len(all) + 1
  PROVE  InsertAt(all, n, Eoc) \in Seq(EncodedUnit)
<1> DEFINE a == SubSeq(all, 1, n - 1)
           b == SubSeq(all, n, Len(all))
<1>1. InsertAt(all, n, Eoc) = a \o <<Eoc>> \o b
  BY Zenon DEF InsertAt
<1>2. a \in Seq(EncodedUnit) /\ b \in Seq(EncodedUnit)
  OBVIOUS
<1>3. Eoc \in EncodedUnit
  BY EocTyped
<1> HIDE DEF a, b
<1> QED
  BY <1>1, <1>2, <1>3

(***************************************************************************)
(* Counters: length_stack_ and written_stack_ of the converters from BER   *)
(***************************************************************************)
(* The entry of the root is below the others. *)
Rooted(lengths, written) ==
  /\ lengths \in Seq(Nat) /\ written \in Seq(Nat)
  /\ Len(lengths) = Len(written) /\ Len(lengths) >= 1 /\ lengths[1] = 0

(* Octets are counted for the innermost open tag. *)
LEMMA AddKeeps ==
  ASSUME NEW ls, NEW ws, Rooted(ls, ws), NEW n \in Nat
  PROVE  /\ Rooted(ls, AddToTop(ws, n))
         /\ ws[1] \in Nat /\ AddToTop(ws, n)[1] \in Nat
         /\ AddToTop(ws, n)[1] >= ws[1]
         /\ Len(ls) = 1 => AddToTop(ws, n)[1] = ws[1] + n
<1> DEFINE m == ws[Len(ws)] + n
<1>1. /\ ws \in Seq(Nat) /\ ls \in Seq(Nat) /\ Len(ls) = Len(ws) /\ Len(ws) >= 1
      /\ ls[1] = 0 /\ Len(ws) \in 1 .. Len(ws)
  BY DEF Rooted
<1>2. m \in Nat /\ m >= ws[Len(ws)]
  BY <1>1
<1>3. AddToTop(ws, n) = [ws EXCEPT ![Len(ws)] = m]
  BY DEF AddToTop
<1>4. Len(ls) = 1 => m = ws[1] + n
  BY <1>1
<1> HIDE DEF m
<1> QED
  BY <1>1, <1>2, <1>3, <1>4, SMTT(40) DEF Rooted

(* A definite tag opens. *)
LEMMA PushKeeps ==
  ASSUME NEW ls, NEW ws, Rooted(ls, ws), NEW n \in Nat
  PROVE  Rooted(Append(ls, n), Append(ws, 0)) /\ Append(ws, 0)[1] = ws[1]
BY DEF Rooted

(* The innermost one ends. *)
LEMMA PopKeeps ==
  ASSUME NEW ls, NEW ws, Rooted(ls, ws), Len(ls) > 1
  PROVE  /\ Rooted(Front(ls), Front(ws))
         /\ Front(ws)[1] = ws[1] /\ Last(ls) \in Nat
<1> DEFINE n == Len(ls) - 1
           f == SubSeq(ls, 1, n)
           g == SubSeq(ws, 1, n)
<1>1. /\ ws \in Seq(Nat) /\ ls \in Seq(Nat) /\ Len(ls) = Len(ws) /\ ls[1] = 0
      /\ n \in Nat /\ n >= 1 /\ n <= Len(ls) /\ Len(ls) \in 1 .. Len(ls)
  BY DEF Rooted
<1>2. Front(ls) = f /\ Front(ws) = g /\ Last(ls) = ls[Len(ls)]
  BY <1>1 DEF Front, Last
<1> HIDE DEF n
<1>3. f \in Seq(Nat) /\ Len(f) = n /\ f[1] = ls[1]
  BY <1>1
<1>4. g \in Seq(Nat) /\ Len(g) = n /\ g[1] = ws[1]
  BY <1>1
<1> HIDE DEF f, g
<1>5. Last(ls) \in Nat
  BY <1>1, <1>2
<1> QED
  BY <1>1, <1>2, <1>3, <1>4, <1>5 DEF Rooted

(***************************************************************************)
(* Nodes: where each one ends                                              *)
(***************************************************************************)
(* What the nodes of a forest are *)
LEMMA NodesTyped ==
  ASSUME NEW f \in AllForests
  PROVE  /\ Len(f) \in Nat /\ IsForest(f) /\ f \in Seq(AnyNode)
         /\ \A i \in 1 .. Len(f) : f[i] \in AnyNode /\ f[i].depth \in Nat
<1>1. f \in Seq(AnyNode) /\ IsForest(f)
  BY DEF AllForests
<1>2. \A v \in AnyNode : v.depth \in Nat
  BY NodeParts
<1> QED
  BY <1>1, <1>2

(* m is the last node inside of node i. *)
IsLast(f, i, m) ==
  /\ m \in i .. Len(f)
  /\ \A j \in (i + 1) .. m : f[j].depth > f[i].depth
  /\ m < Len(f) => f[m + 1].depth <= f[i].depth

(* It is the last node inside of node i. *)
LEMMA LastIs ==
  ASSUME NEW f \in AllForests, NEW i \in 1 .. Len(f)
  PROVE  IsLast(f, i, LastOf(f, i))
<1> DEFINE N == Len(f)
           B == Below(f, i)
           T == {j \in (i + 1) .. N : j \notin B} \cup {N + 1}
<1>1. N \in Nat /\ i \in 1 .. N /\ \A j \in 1 .. N : f[j].depth \in Nat
  BY NodesTyped
<1>2. B = {j \in (i + 1) .. N : \A k \in (i + 1) .. j : f[k].depth > f[i].depth}
  BY DEF Below
<1> HIDE DEF N, B
<1>3. T \in SUBSET Nat /\ T # {}
  BY <1>1
<1>4. PICK m \in T : \A j \in T : m <= j
  <2> HIDE DEF T
  <2> QED
    BY <1>3, Smallest
<1>5. m \in Nat /\ m >= i + 1 /\ m <= N + 1
  BY <1>1
<1>6. \A j \in (i + 1) .. (m - 1) : j \in B
  BY <1>1, <1>4, <1>5
<1>7. ASSUME NEW j \in B, j >= m PROVE FALSE
  <2>1. j \in (i + 1) .. N /\ m \in (i + 1) .. N
    BY <1>1, <1>2, <1>5, <1>7
  <2>2. m \notin B
    BY <2>1, <1>1
  <2>3. \A k \in (i + 1) .. j : f[k].depth > f[i].depth
    BY <1>2
  <2>4. m \in B
    BY <1>1, <1>2, <1>5, <1>7, <2>1, <2>3
  <2> QED
    BY <2>2, <2>4
<1>8. B = (i + 1) .. (m - 1)
  <2>1. \A j \in B : j \in (i + 1) .. N
    BY <1>2
  <2>2. \A j \in B : j < m
    BY <1>1, <1>5, <1>7, <2>1
  <2>3. B \subseteq (i + 1) .. (m - 1)
    BY <1>1, <1>5, <2>1, <2>2
  <2>4. (i + 1) .. (m - 1) \subseteq B
    BY <1>6
  <2> QED
    BY <2>3, <2>4, Zenon
<1>9. Cardinality(B) = (m - 1) - i
  <2>1. i + 1 \in Int /\ m - 1 \in Int
    BY <1>1, <1>5
  <2>2. Cardinality((i + 1) .. (m - 1)) =
          IF i + 1 > m - 1 THEN 0 ELSE (m - 1) - (i + 1) + 1
    BY <2>1, FS_Interval
  <2> QED
    BY <1>1, <1>5, <1>8, <2>2
<1>10. LastOf(f, i) = m - 1
  BY <1>1, <1>5, <1>9 DEF LastOf, B
<1>11. \A j \in (i + 1) .. (m - 1) : f[j].depth > f[i].depth
  BY <1>1, <1>2, <1>6
<1>12. m - 1 < N => f[m].depth <= f[i].depth
  <2> SUFFICES ASSUME m - 1 < N, f[m].depth > f[i].depth PROVE FALSE
    BY <1>1, <1>5
  <2>1. m \in (i + 1) .. N /\ m \notin B
    BY <1>1, <1>5, <1>7
  <2>2. \A k \in (i + 1) .. m : f[k].depth > f[i].depth
    BY <1>1, <1>5, <1>11
  <2> QED
    BY <1>2, <2>1, <2>2
<1> QED
  BY <1>1, <1>5, <1>10, <1>11, <1>12 DEF IsLast, N

(* There is only one last node. *)
LEMMA LastUnique ==
  ASSUME NEW f \in AllForests, NEW i \in 1 .. Len(f), NEW m, IsLast(f, i, m)
  PROVE  m = LastOf(f, i)
<1> DEFINE n == LastOf(f, i)
<1>1. IsLast(f, i, n)
  BY LastIs
<1> HIDE DEF n
<1>2. /\ Len(f) \in Nat /\ i \in 1 .. Len(f)
      /\ \A j \in 1 .. Len(f) : f[j].depth \in Nat
  BY NodesTyped
<1>3. ~(m < n)
  <2> SUFFICES ASSUME m < n PROVE FALSE
    OBVIOUS
  <2>1. m + 1 \in (i + 1) .. n /\ m < Len(f)
    BY <1>1, <1>2 DEF IsLast
  <2>2. f[m + 1].depth > f[i].depth /\ f[m + 1].depth <= f[i].depth
    BY <1>1, <2>1 DEF IsLast
  <2> QED
    BY <1>1, <1>2, <2>1, <2>2 DEF IsLast
<1>4. ~(n < m)
  <2> SUFFICES ASSUME n < m PROVE FALSE
    OBVIOUS
  <2>1. n + 1 \in (i + 1) .. m /\ n < Len(f)
    BY <1>1, <1>2 DEF IsLast
  <2>2. f[n + 1].depth > f[i].depth /\ f[n + 1].depth <= f[i].depth
    BY <1>1, <2>1 DEF IsLast
  <2> QED
    BY <1>1, <1>2, <2>1, <2>2 DEF IsLast
<1> QED
  BY <1>1, <1>2, <1>3, <1>4 DEF IsLast, n

(* What is inside of a node ends inside of it. *)
LEMMA Nested ==
  ASSUME NEW f \in AllForests, NEW i \in 1 .. Len(f), NEW j \in i .. LastOf(f, i)
  PROVE  LastOf(f, j) <= LastOf(f, i) /\ j \in 1 .. Len(f)
<1> DEFINE m == LastOf(f, i)
           n == LastOf(f, j)
<1>1. IsLast(f, i, m)
  BY LastIs
<1>2. /\ Len(f) \in Nat /\ i \in 1 .. Len(f)
      /\ \A k \in 1 .. Len(f) : f[k].depth \in Nat
  BY NodesTyped
<1>3. j \in 1 .. Len(f) /\ j \in i .. m
  BY <1>1, <1>2 DEF IsLast
<1>4. IsLast(f, j, n)
  BY <1>3, LastIs
<1> HIDE DEF m, n
<1>5. n <= m
  <2> SUFFICES ASSUME m < n, j # i PROVE FALSE
    BY <1>1, <1>2, <1>3, <1>4 DEF IsLast, m, n
  <2>1. m + 1 \in (j + 1) .. n /\ m < Len(f) /\ j \in (i + 1) .. m
        /\ m + 1 \in 1 .. Len(f)
    BY <1>1, <1>2, <1>3, <1>4 DEF IsLast
  <2>2. f[m + 1].depth > f[j].depth /\ f[m + 1].depth <= f[i].depth
    BY <1>1, <1>4, <2>1 DEF IsLast
  <2>3. f[j].depth > f[i].depth
    BY <1>1, <2>1 DEF IsLast
  <2> QED
    BY <1>2, <1>3, <2>1, <2>2, <2>3
<1> QED
  BY <1>3, <1>5 DEF m, n

(* There is nothing inside of a primitive node. *)
LEMMA PrimitiveLast ==
  ASSUME NEW f \in AllForests, NEW i \in 1 .. Len(f), f[i].form = "primitive"
  PROVE  LastOf(f, i) = i
<1>1. /\ Len(f) \in Nat /\ i \in 1 .. Len(f)
      /\ \A j \in 1 .. Len(f) : f[j].depth \in Nat
      /\ IsForest(f)
  BY NodesTyped
<1>2. IsLast(f, i, i)
  <2>1. i < Len(f) => f[i + 1].depth <= f[i].depth
    <3> SUFFICES ASSUME i < Len(f) PROVE f[i + 1].depth <= f[i].depth
      OBVIOUS
    <3>1. i + 1 \in 1 .. Len(f) /\ i + 1 # 1 /\ (i + 1) - 1 = i
      BY <1>1
    <3> QED
      BY <1>1, <3>1 DEF IsForest
  <2> QED
    BY <1>1, <2>1 DEF IsLast
<1> QED
  BY <1>2, LastUnique

(* The first child is one level below its parent. *)
LEMMA FirstInside ==
  ASSUME NEW f \in AllForests, NEW i \in 1 .. Len(f), LastOf(f, i) > i
  PROVE  /\ i + 1 \in 1 .. Len(f) /\ f[i + 1].depth = f[i].depth + 1
         /\ f[i].form # "primitive"
<1>1. /\ Len(f) \in Nat /\ i \in 1 .. Len(f)
      /\ \A j \in 1 .. Len(f) : f[j].depth \in Nat
      /\ IsForest(f) /\ IsLast(f, i, LastOf(f, i))
  BY NodesTyped, LastIs
<1>2. f[i].form # "primitive"
  BY <1>1, PrimitiveLast DEF IsLast
<1>3. i + 1 \in 1 .. Len(f) /\ i + 1 # 1 /\ (i + 1) - 1 = i
      /\ i + 1 \in (i + 1) .. LastOf(f, i)
  BY <1>1 DEF IsLast
<1>4. f[i + 1].depth <= f[i].depth + 1
  BY <1>1, <1>2, <1>3 DEF IsForest
<1>5. f[i + 1].depth > f[i].depth
  BY <1>1, <1>3 DEF IsLast
<1> QED
  BY <1>1, <1>2, <1>3, <1>4, <1>5

(***************************************************************************)
(* A walk over an encoding.  After node i, and when the nodes of b .. i    *)
(* that end there have been closed, Walked(f, i, b) is what was read, and  *)
(* At(f, i, b) are its octets.                                             *)
(***************************************************************************)
(* The unit that node i begins with, and the EOCs that follow *)
HeadOf(f, i) == UnitOf(f[i], Inner(f)[i])

Ends(f, i, b) == {k \in b .. i : f[k].form = "indefinite" /\ LastOf(f, k) = i}

EocsOf(f, i, b) == [n \in 1 .. Cardinality(Ends(f, i, b)) |-> Eoc]

NodeUnits(f) == [i \in 1 .. Len(f) |-> <<HeadOf(f, i)>> \o EocsOf(f, i, 1)]

(* The units of the first nodes *)
Upto(f) ==
  CHOOSE g : g \in [0 .. Len(f) -> Seq(EncodedUnit)] /\ Flat(g, NodeUnits(f))

Walked(f, i, b) ==
  IF i = 0 THEN << >>
           ELSE Upto(f)[i - 1] \o <<HeadOf(f, i)>> \o EocsOf(f, i, b)

At(f, i, b) == SpanOf(Walked(f, i, b))

(* It is a unit with a header. *)
LEMMA HeadTyped ==
  ASSUME NEW f \in AllForests, NEW i \in 1 .. Len(f)
  PROVE  /\ HeadOf(f, i) \in EncodedUnit /\ HeadOf(f, i).tl >= 2
         /\ Inner(f)[i] \in Nat
<1>1. Inner(f)[i] \in Nat
  BY InnerTyped
<1> QED
  BY <1>1, UnitOfTyped DEF HeadOf

(* They are finitely many, and so are their units. *)
LEMMA EndsFinite ==
  ASSUME NEW f, NEW i \in Nat, NEW b \in Nat
  PROVE  /\ IsFiniteSet(Ends(f, i, b)) /\ Cardinality(Ends(f, i, b)) \in Nat
         /\ EocsOf(f, i, b) \in Seq(EncodedUnit)
         /\ Len(EocsOf(f, i, b)) = Cardinality(Ends(f, i, b))
<1> DEFINE n == Cardinality(Ends(f, i, b))
<1>1. IsFiniteSet(b .. i) /\ Ends(f, i, b) \subseteq b .. i
  BY FS_Interval DEF Ends
<1>2. IsFiniteSet(Ends(f, i, b)) /\ n \in Nat
  BY <1>1, FS_Subset, FS_CardinalityType
<1>3. EocsOf(f, i, b) = [m \in 1 .. n |-> Eoc]
  BY Zenon DEF EocsOf
<1> HIDE DEF n
<1> QED
  BY <1>2, <1>3, EocTyped DEF n

(* They begin with none, grow by those of each node, and end with all. *)
LEMMA UptoIs ==
  ASSUME NEW f \in AllForests
  PROVE  /\ Upto(f) \in [0 .. Len(f) -> Seq(EncodedUnit)]
         /\ Upto(f)[0] = << >> /\ Upto(f)[Len(f)] = Units(f)
         /\ \A i \in 1 .. Len(f) :
              Upto(f)[i] = Upto(f)[i - 1] \o <<HeadOf(f, i)>> \o EocsOf(f, i, 1)
<1> DEFINE N == Len(f)
           T == EncodedUnit
<1>1. N \in Nat
  BY NodesTyped
<1>2. ASSUME NEW i \in 1 .. N
      PROVE  NodeUnits(f)[i] = <<HeadOf(f, i)>> \o EocsOf(f, i, 1)
             /\ HeadOf(f, i) \in T /\ EocsOf(f, i, 1) \in Seq(T)
             /\ <<HeadOf(f, i)>> \o EocsOf(f, i, 1) \in Seq(T)
  <2>1. HeadOf(f, i) \in T
    BY HeadTyped
  <2>2. i \in Nat /\ 1 \in Nat
    BY <1>1
  <2>3. EocsOf(f, i, 1) \in Seq(T)
    BY <2>2, EndsFinite
  <2>4. NodeUnits(f)[i] = <<HeadOf(f, i)>> \o EocsOf(f, i, 1)
    BY Zenon DEF NodeUnits
  <2> QED
    BY <2>1, <2>3, <2>4
<1>3. NodeUnits(f) \in Seq(Seq(T)) /\ Len(NodeUnits(f)) = N
  <2>1. NodeUnits(f) = [i \in 1 .. N |-> NodeUnits(f)[i]]
    BY Zenon DEF NodeUnits
  <2>2. \A i \in 1 .. N : NodeUnits(f)[i] \in Seq(T)
    BY <1>2, Zenon
  <2> HIDE DEF T, N
  <2> QED
    BY <1>1, <2>1, <2>2
<1>4. PICK g \in [0 .. N -> Seq(T)] : Flat(g, NodeUnits(f))
  BY <1>3, FlattenTyped
<1>5. Upto(f) \in [0 .. N -> Seq(T)] /\ Flat(Upto(f), NodeUnits(f))
  BY <1>4, Zenon DEF Upto
<1>6. Units(f) = FlattenSeq(NodeUnits(f))
  <2>1. \A i : Eocs(f, i) = EocsOf(f, i, 1)
    BY Zenon DEF Eocs, EocsOf, Ends
  <2> QED
    BY <2>1, Zenon DEF Units, NodeUnits, HeadOf
<1>7. ASSUME NEW i \in 1 .. N
      PROVE  Upto(f)[i] = Upto(f)[i - 1] \o <<HeadOf(f, i)>> \o EocsOf(f, i, 1)
  <2> DEFINE u == Upto(f)[i - 1]
             h == <<HeadOf(f, i)>>
             e == EocsOf(f, i, 1)
  <2>1. Upto(f)[i] = u \o (h \o e)
    BY <1>2, <1>3, <1>5, Zenon DEF Flat
  <2>2. u \in Seq(T) /\ h \in Seq(T) /\ e \in Seq(T)
    <3>1. i - 1 \in 0 .. N
      BY <1>1
    <3>2. u \in Seq(T)
      BY <1>5, <3>1
    <3>3. h \in Seq(T)
      <4> DEFINE x == HeadOf(f, i)
      <4>1. x \in T
        BY <1>2, Zenon
      <4> HIDE DEF x, T
      <4>2. <<x>> \in Seq(T)
        BY <4>1
      <4> QED
        BY <4>2 DEF x
    <3> QED
      BY <1>2, <3>2, <3>3, Zenon
  <2> HIDE DEF u, h, e
  <2>3. u \o (h \o e) = u \o h \o e
    BY <2>2
  <2> QED
    BY <2>1, <2>3 DEF u, h, e
<1> QED
  BY <1>3, <1>5, <1>6, <1>7, Zenon DEF Flat

(* They are units, and have a number of octets. *)
LEMMA WalkedTyped ==
  ASSUME NEW f \in AllForests, NEW i \in 0 .. Len(f), NEW b \in Nat
  PROVE  /\ Walked(f, i, b) \in Seq(EncodedUnit) /\ Walked(f, i, b) \in Seq(Unit)
         /\ At(f, i, b) \in Nat
<1>1. Len(f) \in Nat /\ i \in Nat
  BY NodesTyped
<1>2. Walked(f, i, b) \in Seq(EncodedUnit)
  <2>1. CASE i = 0
    BY <2>1 DEF Walked
  <2>2. CASE i # 0
    <3>1. i \in 1 .. Len(f) /\ i - 1 \in 0 .. Len(f)
      BY <1>1, <2>2
    <3>2. HeadOf(f, i) \in EncodedUnit /\ EocsOf(f, i, b) \in Seq(EncodedUnit)
          /\ Upto(f)[i - 1] \in Seq(EncodedUnit)
      BY <1>1, <3>1, HeadTyped, EndsFinite, UptoIs
    <3>3. Walked(f, i, b) = Upto(f)[i - 1] \o <<HeadOf(f, i)>> \o EocsOf(f, i, b)
      BY <2>2, Zenon DEF Walked
    <3> QED
      BY <3>2, <3>3
  <2> QED
    BY <2>1, <2>2
<1>3. \A u \in EncodedUnit : u \in Unit
  BY DEF EncodedUnit
<1>4. Walked(f, i, b) \in Seq(Unit)
  BY <1>2, <1>3
<1> QED
  BY <1>2, <1>4, RightIs DEF At

(* When everything that ends at node i is closed *)
LEMMA WalkedAll ==
  ASSUME NEW f \in AllForests
  PROVE  /\ \A i \in 0 .. Len(f) : Walked(f, i, 1) = Upto(f)[i]
         /\ Walked(f, Len(f), 1) = Units(f)
<1>1. Len(f) \in Nat /\ Len(f) \in 0 .. Len(f)
  BY NodesTyped
<1>2. ASSUME NEW i \in 0 .. Len(f)
      PROVE  Walked(f, i, 1) = Upto(f)[i]
  <2>1. CASE i = 0
    BY <2>1, UptoIs DEF Walked
  <2>2. CASE i # 0
    <3>1. i \in 1 .. Len(f)
      BY <1>1, <2>2
    <3> QED
      BY <2>2, <3>1, UptoIs, Zenon DEF Walked
  <2> QED
    BY <2>1, <2>2
<1> QED
  BY <1>1, <1>2, UptoIs

(* The next node *)
LEMMA WalkedHead ==
  ASSUME NEW f \in AllForests, NEW i \in 1 .. Len(f)
  PROVE  /\ Walked(f, i, i + 1) = Append(Walked(f, i - 1, 1), HeadOf(f, i))
         /\ At(f, i, i + 1) = At(f, i - 1, 1) + Span(HeadOf(f, i))
<1>1. Len(f) \in Nat /\ i - 1 \in 0 .. Len(f) /\ i # 0 /\ i + 1 \in Nat /\ i \in Nat
  BY NodesTyped
<1>2. Ends(f, i, i + 1) = {}
  BY <1>1 DEF Ends
<1>3. EocsOf(f, i, i + 1) = << >>
  <2>1. Cardinality(Ends(f, i, i + 1)) = 0
    BY <1>2, FS_EmptySet, Zenon
  <2>2. EocsOf(f, i, i + 1) = [n \in 1 .. 0 |-> Eoc]
    BY <2>1, Zenon DEF EocsOf
  <2> QED
    BY <2>2
<1> DEFINE w == Walked(f, i - 1, 1)
           h == HeadOf(f, i)
<1>4. w = Upto(f)[i - 1]
  BY <1>1, WalkedAll
<1>5. w \in Seq(Unit) /\ w \in Seq(EncodedUnit) /\ h \in EncodedUnit /\ h \in Unit
  <2>1. 1 \in Nat
    OBVIOUS
  <2>2. w \in Seq(Unit) /\ w \in Seq(EncodedUnit)
    BY <1>1, <2>1, WalkedTyped
  <2> QED
    BY <2>2, HeadTyped, EncodedParts
<1>6. Walked(f, i, i + 1) = w \o <<h>> \o << >>
  BY <1>1, <1>3, <1>4, Zenon DEF Walked
<1> HIDE DEF w, h
<1>7. w \o <<h>> \o << >> = Append(w, h)
  BY <1>5
<1>8. SpanOf(Append(w, h)) = SpanOf(w) + Span(h)
  BY <1>5, SpanOfAppend
<1> QED
  BY <1>6, <1>7, <1>8 DEF At, w, h

(* An indefinite node that is closed *)
LEMMA WalkedEoc ==
  ASSUME NEW f \in AllForests, NEW i \in 1 .. Len(f), NEW k \in 1 .. i,
         f[k].form = "indefinite", LastOf(f, k) = i
  PROVE  /\ Walked(f, i, k) = Append(Walked(f, i, k + 1), Eoc)
         /\ At(f, i, k) = At(f, i, k + 1) + 2
         /\ Cardinality(Ends(f, i, k)) = Cardinality(Ends(f, i, k + 1)) + 1
<1> DEFINE A == Ends(f, i, k + 1)
           n == Cardinality(A)
           w == Upto(f)[i - 1] \o <<HeadOf(f, i)>>
<1>1. Len(f) \in Nat /\ i - 1 \in 0 .. Len(f) /\ i # 0 /\ i \in Nat
      /\ k \in Nat /\ k + 1 \in Nat
  BY NodesTyped
<1>2. IsFiniteSet(A) /\ n \in Nat
  BY <1>1, EndsFinite
<1>3. Ends(f, i, k) = A \cup {k} /\ k \notin A
  BY <1>1 DEF Ends
<1>4. Cardinality(Ends(f, i, k)) = n + 1
  <2> HIDE DEF A
  <2> QED
    BY <1>2, <1>3, FS_AddElement
<1>5. EocsOf(f, i, k) = [m \in 1 .. (n + 1) |-> Eoc]
      /\ EocsOf(f, i, k + 1) = [m \in 1 .. n |-> Eoc]
  BY <1>4, Zenon DEF EocsOf
<1>6. w \in Seq(EncodedUnit) /\ Eoc \in EncodedUnit /\ Eoc \in Unit
  BY <1>1, HeadTyped, UptoIs, EocTyped
<1>7. /\ Walked(f, i, k) = w \o EocsOf(f, i, k)
      /\ Walked(f, i, k + 1) = w \o EocsOf(f, i, k + 1)
  BY <1>1, Zenon DEF Walked
<1> HIDE DEF n, w
<1>8. [m \in 1 .. (n + 1) |-> Eoc] = Append([m \in 1 .. n |-> Eoc], Eoc)
  BY <1>2, <1>6 DEF n
<1>9. [m \in 1 .. n |-> Eoc] \in Seq(EncodedUnit)
  BY <1>2, <1>6 DEF n
<1>10. Walked(f, i, k) = Append(Walked(f, i, k + 1), Eoc)
  <2> DEFINE e == [m \in 1 .. n |-> Eoc]
  <2>1. e \in Seq(EncodedUnit)
    BY <1>9
  <2>2. Walked(f, i, k) = w \o Append(e, Eoc) /\ Walked(f, i, k + 1) = w \o e
    BY <1>5, <1>7, <1>8
  <2> HIDE DEF e
  <2>3. w \o Append(e, Eoc) = Append(w \o e, Eoc)
    BY <1>6, <2>1
  <2> QED
    BY <2>2, <2>3
<1>11. At(f, i, k) = At(f, i, k + 1) + 2
  <2>1. Walked(f, i, k + 1) \in Seq(Unit)
    BY <1>1, WalkedTyped
  <2>2. Span(Eoc) = 2
    BY DEF Span, Eoc
  <2> QED
    BY <1>6, <1>10, <2>1, <2>2, SpanOfAppend DEF At
<1> QED
  BY <1>4, <1>10, <1>11 DEF n

(* What is not indefinite is closed without a unit. *)
LEMMA WalkedSame ==
  ASSUME NEW f \in AllForests, NEW i \in 0 .. Len(f), NEW b \in Nat, NEW c \in Nat,
         b <= c, \A k \in b .. (c - 1) :
                   k <= i => ~(f[k].form = "indefinite" /\ LastOf(f, k) = i)
  PROVE  /\ Walked(f, i, b) = Walked(f, i, c) /\ At(f, i, b) = At(f, i, c)
         /\ Ends(f, i, b) = Ends(f, i, c)
<1>1. Len(f) \in Nat /\ i \in Nat
  BY NodesTyped
<1>2. Ends(f, i, b) = Ends(f, i, c)
  BY <1>1 DEF Ends
<1> QED
  BY <1>2, Zenon DEF Walked, At, EocsOf

(* The octets of n EOCs *)
LEMMA SpanOfEocs ==
  ASSUME NEW n \in Nat
  PROVE  /\ [m \in 1 .. n |-> Eoc] \in Seq(Unit)
         /\ SpanOf([m \in 1 .. n |-> Eoc]) = 2 * n
<1> DEFINE e(k) == [m \in 1 .. k |-> Eoc]
           S    == {k \in Nat : SpanOf(e(k)) = 2 * k}
<1>1. \A k \in Nat : e(k) \in Seq(Unit)
  BY EocTyped
<1>2. 0 \in S
  <2>1. e(0) = << >>
    OBVIOUS
  <2>2. SpanOf(e(0)) = 0
    BY <2>1, SpanOfNothing, Zenon
  <2> QED
    BY <2>2
<1>3. ASSUME NEW k \in Nat, k \in S PROVE k + 1 \in S
  <2>1. e(k + 1) = Append(e(k), Eoc)
    BY EocTyped
  <2>2. Span(Eoc) = 2
    BY DEF Span, Eoc
  <2>3. SpanOf(e(k + 1)) = SpanOf(e(k)) + 2
    <3> HIDE DEF e
    <3> QED
      BY <1>1, <2>1, <2>2, EocTyped, SpanOfAppend
  <2> HIDE DEF e
  <2> QED
    BY <1>3, <2>3
<1> HIDE DEF S
<1>4. \A k \in Nat : k \in S
  BY <1>2, <1>3, Induction
<1> QED
  BY <1>1, <1>4 DEF S

(* The octets read grow by two for each node that was closed. *)
LEMMA AtIs ==
  ASSUME NEW f \in AllForests, NEW i \in 1 .. Len(f), NEW b \in Nat
  PROVE  At(f, i, b) = At(f, i, i + 1) + 2 * Cardinality(Ends(f, i, b))
<1> DEFINE w == Walked(f, i, i + 1)
           n == Cardinality(Ends(f, i, b))
           e == [m \in 1 .. n |-> Eoc]
<1>1. Len(f) \in Nat /\ i - 1 \in 0 .. Len(f) /\ i \in 0 .. Len(f) /\ i # 0
      /\ i \in Nat /\ i + 1 \in Nat
  BY NodesTyped
<1>2. n \in Nat
  BY <1>1, EndsFinite
<1>3. e \in Seq(Unit) /\ SpanOf(e) = 2 * n
  <2> HIDE DEF n
  <2> QED
    BY <1>2, SpanOfEocs
<1>4. w \in Seq(Unit)
  BY <1>1, WalkedTyped
<1>5. Walked(f, i, b) = w \o e
  <2>1. Upto(f)[i - 1] \in Seq(EncodedUnit)
    BY <1>1, UptoIs
  <2>2. w = Append(Walked(f, i - 1, 1), HeadOf(f, i))
        /\ Walked(f, i - 1, 1) = Upto(f)[i - 1]
    BY <1>1, WalkedHead, WalkedAll
  <2>3. w = Upto(f)[i - 1] \o <<HeadOf(f, i)>>
    <3> DEFINE u == Upto(f)[i - 1]
               h == HeadOf(f, i)
    <3>1. u \in Seq(EncodedUnit) /\ h \in EncodedUnit /\ w = Append(u, h)
      BY <2>1, <2>2, HeadTyped
    <3> HIDE DEF u, h, w
    <3>2. w = u \o <<h>>
      BY <3>1
    <3> QED
      BY <3>2 DEF u, h
  <2> QED
    BY <1>1, <2>3, Zenon DEF Walked, EocsOf
<1>6. SpanOf(w \o e) = SpanOf(w) + SpanOf(e)
  <2> HIDE DEF w, e
  <2> QED
    BY <1>3, <1>4, SpanOfConcat
<1> QED
  BY <1>3, <1>5, <1>6, Zenon DEF At

(* Each node and each EOC has at least two octets. *)
LEMMA AtGrows ==
  ASSUME NEW f \in AllForests, NEW i \in 0 .. Len(f), NEW b \in Nat
  PROVE  /\ \A c \in Nat : b <= c => \/ At(f, i, c) = At(f, i, b)
                                     \/ At(f, i, c) + 2 <= At(f, i, b)
         /\ \A j \in (i + 1) .. Len(f), c \in Nat :
              b > 0 => At(f, i, b) + 2 <= At(f, j, c)
<1>1. Len(f) \in Nat /\ i \in Nat
  BY NodesTyped
<1>2. ASSUME NEW k \in 0 .. Len(f), NEW a \in Nat, NEW c \in Nat, a <= c
      PROVE  \/ At(f, k, c) = At(f, k, a)
             \/ At(f, k, c) + 2 <= At(f, k, a)
  <2>1. CASE k = 0
    BY <2>1, Zenon DEF At, Walked
  <2>2. CASE k # 0
    <3> DEFINE m == Cardinality(Ends(f, k, a))
               n == Cardinality(Ends(f, k, c))
    <3>1. k \in 1 .. Len(f) /\ k \in Nat /\ k + 1 \in Nat
      BY <1>1, <2>2
    <3>2. Ends(f, k, c) \subseteq Ends(f, k, a)
      BY <1>2, <3>1 DEF Ends
    <3>3. IsFiniteSet(Ends(f, k, a)) /\ m \in Nat /\ n \in Nat
      BY <3>1, EndsFinite
    <3>4. n <= m
      BY <3>2, <3>3, FS_Subset
    <3>5. /\ At(f, k, a) = At(f, k, k + 1) + 2 * m
          /\ At(f, k, c) = At(f, k, k + 1) + 2 * n
          /\ At(f, k, k + 1) \in Nat
      BY <3>1, AtIs, WalkedTyped
    <3> HIDE DEF m, n
    <3> QED
      BY <3>3, <3>4, <3>5
  <2> QED
    BY <2>1, <2>2
<1>3. ASSUME NEW k \in 1 .. Len(f), NEW c \in Nat
      PROVE  At(f, k - 1, 1) + 2 <= At(f, k, c)
  <2>1. k \in 0 .. Len(f) /\ k - 1 \in 0 .. Len(f) /\ k + 1 \in Nat /\ 1 \in Nat
    BY <1>1
  <2>2. At(f, k, k + 1) = At(f, k - 1, 1) + Span(HeadOf(f, k))
    BY WalkedHead
  <2>3. Span(HeadOf(f, k)) \in Nat /\ Span(HeadOf(f, k)) >= 2
    BY HeadTyped DEF Span, EncodedUnit, Unit
  <2>4. At(f, k, k + 1) <= At(f, k, c)
    <3> DEFINE n == Cardinality(Ends(f, k, c))
    <3>1. At(f, k, c) = At(f, k, k + 1) + 2 * n
      BY AtIs
    <3>3. n \in Nat
      BY <2>1, <1>1, EndsFinite
    <3>2. At(f, k, k + 1) \in Nat
      BY <2>1, WalkedTyped
    <3> HIDE DEF n
    <3> QED
      BY <3>1, <3>2, <3>3
  <2>5. At(f, k - 1, 1) \in Nat /\ At(f, k, c) \in Nat /\ At(f, k, k + 1) \in Nat
    BY <2>1, WalkedTyped
  <2> QED
    BY <2>2, <2>3, <2>4, <2>5
<1> DEFINE S == {n \in Nat : i + n <= Len(f) => At(f, i, 1) <= At(f, i + n, 1)}
<1>4. \A n \in Nat : n \in S
  <2>1. 0 \in S
    <3>1. i + 0 = i /\ At(f, i, 1) \in Nat
      BY <1>1, WalkedTyped
    <3> QED
      BY <3>1
  <2>2. ASSUME NEW n \in Nat, n \in S PROVE n + 1 \in S
    <3> SUFFICES ASSUME i + (n + 1) <= Len(f)
                 PROVE  At(f, i, 1) <= At(f, i + (n + 1), 1)
      OBVIOUS
    <3> DEFINE k == i + (n + 1)
    <3>1. k \in 1 .. Len(f) /\ k - 1 = i + n /\ 1 \in Nat
          /\ k \in 0 .. Len(f) /\ k - 1 \in 0 .. Len(f)
      BY <1>1
    <3>2. At(f, k - 1, 1) + 2 <= At(f, k, 1)
      BY <1>3, <3>1
    <3>3. At(f, i, 1) <= At(f, i + n, 1)
      BY <1>1, <2>2
    <3>4. At(f, i, 1) \in Nat /\ At(f, k - 1, 1) \in Nat /\ At(f, k, 1) \in Nat
      BY <3>1, WalkedTyped
    <3> QED
      BY <3>1, <3>2, <3>3, <3>4
  <2> HIDE DEF S
  <2> QED
    BY <2>1, <2>2, Induction
<1>5. ASSUME NEW j \in (i + 1) .. Len(f), NEW c \in Nat, b > 0
      PROVE  At(f, i, b) + 2 <= At(f, j, c)
  <2> DEFINE n == (j - 1) - i
  <2>1. n \in Nat /\ i + n = j - 1 /\ i + n <= Len(f) /\ j \in 1 .. Len(f)
        /\ 1 \in Nat /\ 1 <= b /\ j \in 0 .. Len(f) /\ j - 1 \in 0 .. Len(f)
    BY <1>1, <1>5
  <2>2. At(f, i, 1) <= At(f, j - 1, 1)
    BY <1>4, <2>1
  <2>3. At(f, i, b) = At(f, i, 1) \/ At(f, i, b) + 2 <= At(f, i, 1)
    BY <1>2, <2>1
  <2>4. At(f, j - 1, 1) + 2 <= At(f, j, c)
    BY <1>3, <2>1
  <2>5. At(f, i, 1) \in Nat /\ At(f, j - 1, 1) \in Nat /\ At(f, j, c) \in Nat
        /\ At(f, i, b) \in Nat
    BY <2>1, WalkedTyped
  <2> QED
    BY <2>2, <2>3, <2>4, <2>5
<1> QED
  BY <1>2, <1>5

(***************************************************************************)
(* The octets inside of a node                                             *)
(***************************************************************************)
(* The last of node k and its siblings, and what is inside of them *)
IsGroup(f, k, m) ==
  /\ m \in k .. Len(f)
  /\ \A j \in k .. m : f[j].depth >= f[k].depth
  /\ m < Len(f) => f[m + 1].depth < f[k].depth

Inside(f, k) == IF f[k].form = "primitive" THEN 0 ELSE Inner(f)[k]

(* Node k has the octets that lie between its begin and its end, and so    *)
(* have its siblings.                                                      *)
Measured(f, rest, k) ==
  /\ At(f, LastOf(f, k), k) = At(f, k, k + 1) + Inside(f, k)
  /\ \A m : IsGroup(f, k, m) => At(f, m, k) = At(f, k - 1, 1) + rest[k]

(* What the octets of a node, and of its siblings behind it, are made of *)
LEMMA RestIs ==
  ASSUME NEW f \in AllForests, NEW rest, Rests(f, rest), NEW k \in 1 .. Len(f)
  PROVE  LET n == LastOf(f, k) + 1
             r == Span(HeadOf(f, k)) + Inside(f, k)
         IN  /\ rest[k] \in Nat /\ Span(HeadOf(f, k)) \in Nat /\ Inside(f, k) \in Nat
             /\ n <= Len(f) /\ f[n].depth = f[k].depth => rest[k] = r + rest[n]
             /\ ~(n <= Len(f) /\ f[n].depth = f[k].depth) => rest[k] = r
             /\ LastOf(f, k) = k => Inner(f)[k] = IF f[k].form = "indefinite" THEN 2 ELSE 0
             /\ LastOf(f, k) > k =>
                  Inner(f)[k] = rest[k + 1] + IF f[k].form = "indefinite" THEN 2 ELSE 0
<1> DEFINE n == LastOf(f, k) + 1
           in == Inner(f)[k]
           u == UnitOf(f[k], in)
           more == n <= Len(f) /\ f[n].depth = f[k].depth
<1>1. Len(f) \in Nat /\ k \in Nat
  BY NodesTyped
<1>2. in = InnerOf(f, rest, k) /\ in \in Nat
  BY HeadTyped, Zenon DEF Rests
<1>3. u = HeadOf(f, k) /\ u \in Unit
  <2>1. u = HeadOf(f, k)
    BY Zenon DEF HeadOf
  <2> QED
    BY <2>1, HeadTyped, EncodedParts
<1>4. u.shape = "primitive" <=> f[k].form = "primitive"
  BY DEF UnitOf
<1>5. rest[k] = u.tl + (IF f[k].form = "primitive" THEN u.length ELSE in)
                  + IF more THEN rest[n] ELSE 0
  BY <1>2, Zenon DEF Rests, WithSiblings
<1>6. u.tl \in Nat /\ u.length \in Nat
  BY <1>3 DEF Unit
<1>7. Span(u) = u.tl + IF f[k].form = "primitive" THEN u.length ELSE 0
  BY <1>4, Zenon DEF Span
<1>8. rest[k] \in Nat
  BY DEF Rests
<1>9. more => rest[n] \in Nat
  <2>1. n >= 1 /\ n \in Nat
    BY <1>1, BelowBehind
  <2> QED
    BY <1>1, <2>1 DEF Rests
<1>10. Inside(f, k) = IF f[k].form = "primitive" THEN 0 ELSE in
  BY Zenon DEF Inside
<1>11. /\ LastOf(f, k) = k => Below(f, k) = {}
       /\ LastOf(f, k) > k => Below(f, k) # {}
  <2>1. Below(f, k) \subseteq (k + 1) .. Len(f)
    BY DEF Below
  <2>2. IsFiniteSet((k + 1) .. Len(f))
    BY <1>1, FS_Interval
  <2>3. IsFiniteSet(Below(f, k))
    BY <2>1, <2>2, FS_Subset
  <2>4. Cardinality(Below(f, k)) \in Nat /\ (Cardinality(Below(f, k)) = 0 <=> Below(f, k) = {})
    BY <2>3, FS_EmptySet, FS_CardinalityType
  <2> QED
    BY <1>1, <2>4 DEF LastOf
<1>12. in = (IF Below(f, k) = {} THEN 0 ELSE rest[k + 1])
              + IF f[k].form = "indefinite" THEN 2 ELSE 0
  BY <1>2, EocTyped, Zenon DEF InnerOf
<1>13. LastOf(f, k) > k => rest[k + 1] \in Nat
  <2>1. Below(f, k) # {} => k + 1 \in 1 .. Len(f)
    BY <1>1, BelowBehind
  <2> QED
    BY <1>11, <2>1 DEF Rests
<1> HIDE DEF u, in, more, n
<1>14. /\ Span(u) \in Nat /\ Inside(f, k) \in Nat
       /\ more => rest[k] = Span(u) + Inside(f, k) + rest[n]
       /\ ~more => rest[k] = Span(u) + Inside(f, k)
  BY <1>2, <1>5, <1>6, <1>7, <1>9, <1>10
<1>15. /\ LastOf(f, k) = k => in = IF f[k].form = "indefinite" THEN 2 ELSE 0
       /\ LastOf(f, k) > k => in = rest[k + 1] + IF f[k].form = "indefinite" THEN 2 ELSE 0
  BY <1>11, <1>12, <1>13
<1> QED
  BY <1>3, <1>8, <1>14, <1>15 DEF in, n, more

(* The siblings of a node begin with it, and go on behind its last node. *)
LEMMA GroupGoesOn ==
  ASSUME NEW f \in AllForests, NEW k \in 1 .. Len(f), NEW m, IsGroup(f, k, m)
  PROVE  LET n == LastOf(f, k) + 1
         IN  /\ n <= Len(f) /\ f[n].depth = f[k].depth =>
                  n \in 1 .. Len(f) /\ n \in (k + 1) .. m /\ IsGroup(f, n, m)
             /\ ~(n <= Len(f) /\ f[n].depth = f[k].depth) => m = LastOf(f, k)
<1> DEFINE l == LastOf(f, k)
<1>1. /\ Len(f) \in Nat /\ k \in Nat
      /\ \A j \in 1 .. Len(f) : f[j].depth \in Nat
      /\ IsLast(f, k, l)
  BY NodesTyped, LastIs
<1>2. m \in k .. Len(f)
  BY DEF IsGroup
<1> HIDE DEF l
<1>3. l \in k .. Len(f)
  BY <1>1 DEF IsLast
<1>4. l <= m
  <2> SUFFICES ASSUME m < l PROVE FALSE
    BY <1>2, <1>3
  <2>1. m + 1 \in (k + 1) .. l /\ m + 1 \in 1 .. Len(f) /\ m < Len(f)
    BY <1>1, <1>2, <1>3
  <2>2. f[m + 1].depth > f[k].depth /\ f[m + 1].depth < f[k].depth
    BY <1>1, <2>1 DEF IsLast, IsGroup
  <2> QED
    BY <1>1, <2>1, <2>2
<1>5. CASE l = m
  <2>1. ~(l + 1 <= Len(f) /\ f[l + 1].depth = f[k].depth)
    <3> SUFFICES ASSUME l + 1 <= Len(f), f[l + 1].depth = f[k].depth PROVE FALSE
      OBVIOUS
    <3>1. f[l + 1].depth < f[k].depth
      BY <1>1, <1>2, <1>5 DEF IsGroup
    <3> QED
      BY <1>1, <3>1
  <2> QED
    BY <1>5, <2>1 DEF l
<1>6. CASE l < m
  <2>1. l + 1 \in k .. m /\ l + 1 \in (k + 1) .. m /\ l + 1 \in 1 .. Len(f) /\ l < Len(f)
    BY <1>1, <1>2, <1>3, <1>6
  <2>2. f[l + 1].depth >= f[k].depth /\ f[l + 1].depth <= f[k].depth
    BY <1>1, <2>1 DEF IsLast, IsGroup
  <2>3. f[l + 1].depth = f[k].depth
    BY <1>1, <2>1, <2>2
  <2>4. IsGroup(f, l + 1, m)
    <3>1. m \in (l + 1) .. Len(f)
      BY <1>2, <2>1
    <3>2. \A j \in (l + 1) .. m : j \in k .. m
      BY <2>1
    <3>3. \A j \in (l + 1) .. m : f[j].depth >= f[l + 1].depth
      BY <2>3, <3>2 DEF IsGroup
    <3> QED
      BY <2>3, <3>1, <3>3 DEF IsGroup
  <2>5. l + 1 <= Len(f)
    BY <1>1, <2>1
  <2> QED
    BY <2>1, <2>3, <2>4, <2>5 DEF l
<1> QED
  BY <1>2, <1>3, <1>4, <1>5, <1>6

(* Of a node and those in front of it, only ones that it is inside of end  *)
(* where it ends, and none if it has a sibling there.                      *)
LEMMA EndsOf ==
  ASSUME NEW f \in AllForests, NEW k \in 1 .. Len(f), NEW j \in 1 .. Len(f)
  PROVE  /\ j < k /\ LastOf(f, j) = LastOf(f, k) /\ LastOf(f, k) < Len(f) =>
              f[LastOf(f, k) + 1].depth < f[k].depth
         /\ j <= k /\ LastOf(f, j) = k => LastOf(f, k) = k
<1>1. /\ Len(f) \in Nat /\ k \in Nat /\ j \in Nat
      /\ \A i \in 1 .. Len(f) : f[i].depth \in Nat
      /\ IsLast(f, k, LastOf(f, k)) /\ IsLast(f, j, LastOf(f, j))
  BY NodesTyped, LastIs
<1>2. ASSUME j < k, LastOf(f, j) = LastOf(f, k), LastOf(f, k) < Len(f)
      PROVE  f[LastOf(f, k) + 1].depth < f[k].depth
  <2> DEFINE l == LastOf(f, k)
  <2>1. IsLast(f, k, l) /\ IsLast(f, j, l) /\ l < Len(f)
    BY <1>1, <1>2
  <2> HIDE DEF l
  <2>2. l \in k .. Len(f) /\ k \in (j + 1) .. l /\ l + 1 \in 1 .. Len(f)
    BY <1>1, <1>2, <2>1 DEF IsLast
  <2>3. f[k].depth > f[j].depth /\ f[l + 1].depth <= f[j].depth
    BY <1>1, <2>1, <2>2 DEF IsLast
  <2>4. f[l + 1].depth < f[k].depth
    BY <1>1, <2>2, <2>3
  <2> QED
    BY <2>4 DEF l
<1>3. ASSUME j <= k, LastOf(f, j) = k
      PROVE  LastOf(f, k) = k
  <2>1. k \in j .. LastOf(f, j)
    BY <1>1, <1>3
  <2>2. LastOf(f, k) <= k
    BY <1>3, <2>1, Nested
  <2> QED
    BY <1>1, <2>2 DEF IsLast
<1> QED
  BY <1>2, <1>3

(* One more node is closed, with an EOC or without *)
LEMMA AtEnd ==
  ASSUME NEW f \in AllForests, NEW k \in 1 .. Len(f)
  PROVE  LET l == LastOf(f, k)
         IN  At(f, l, k) = At(f, l, k + 1) + IF f[k].form = "indefinite" THEN 2 ELSE 0
<1> DEFINE l == LastOf(f, k)
<1>1. IsLast(f, k, l) /\ Len(f) \in Nat
  BY NodesTyped, LastIs
<1> HIDE DEF l
<1>2. l \in 1 .. Len(f) /\ k \in 1 .. l /\ k \in Nat /\ k + 1 \in Nat /\ l \in 0 .. Len(f)
  BY <1>1 DEF IsLast
<1>3. CASE f[k].form = "indefinite"
  <2>1. At(f, l, k) = At(f, l, k + 1) + 2
    BY <1>2, <1>3, WalkedEoc DEF l
  <2> QED
    BY <1>3, <2>1 DEF l
<1>4. CASE f[k].form # "indefinite"
  <2>1. \A j \in k .. ((k + 1) - 1) : j = k
    BY <1>2
  <2>2. At(f, l, k) = At(f, l, k + 1)
    BY <1>2, <1>4, <2>1, WalkedSame
  <2>3. At(f, l, k + 1) \in Nat
    BY <1>2, WalkedTyped
  <2> QED
    BY <1>4, <2>2, <2>3 DEF l
<1> QED
  BY <1>3, <1>4

(* Nodes behind node k give what is measured of it. *)
LEMMA MeasuredStep ==
  ASSUME NEW f \in AllForests, NEW rest, Rests(f, rest), NEW k \in 1 .. Len(f),
         \A j \in (k + 1) .. Len(f) : Measured(f, rest, j)
  PROVE  Measured(f, rest, k)
<1> DEFINE l == LastOf(f, k)
           n == l + 1
           N == Len(f)
           more == n <= N /\ f[n].depth = f[k].depth
           e == IF f[k].form = "indefinite" THEN 2 ELSE 0
           r == Span(HeadOf(f, k)) + Inside(f, k)
<1>1. /\ N \in Nat /\ k \in Nat /\ k \in 0 .. N /\ k - 1 \in 0 .. N
      /\ k + 1 \in Nat /\ k - 1 \in Nat /\ 1 \in Nat
      /\ \A j \in 1 .. N : f[j].depth \in Nat
      /\ IsLast(f, k, l)
  BY NodesTyped, LastIs
<1>2. /\ l \in 1 .. N /\ l \in k .. N /\ l \in 0 .. N /\ l \in Nat /\ n \in Nat
      /\ l < N => f[n].depth <= f[k].depth
      /\ \A j \in (k + 1) .. l : f[j].depth > f[k].depth
  BY <1>1 DEF IsLast
<1>3. /\ rest[k] \in Nat /\ Span(HeadOf(f, k)) \in Nat /\ Inside(f, k) \in Nat
      /\ more => rest[k] = r + rest[n]
      /\ ~more => rest[k] = r
      /\ l = k => Inner(f)[k] = e
      /\ l > k => Inner(f)[k] = rest[k + 1] + e
  BY RestIs
<1>4. At(f, l, k) = At(f, l, k + 1) + e
  BY AtEnd
<1>5. At(f, k, k + 1) = At(f, k - 1, 1) + Span(HeadOf(f, k))
  BY WalkedHead
<1>6. /\ At(f, k, k + 1) \in Nat /\ At(f, k - 1, 1) \in Nat /\ At(f, l, k) \in Nat
      /\ At(f, l, k + 1) \in Nat
  BY <1>1, <1>2, WalkedTyped
<1>7. At(f, l, k) = At(f, k, k + 1) + Inside(f, k)
  <2>1. CASE f[k].form = "primitive"
    <3>1. l = k /\ Inside(f, k) = 0 /\ e = 0
      BY <2>1, PrimitiveLast DEF Inside
    <3> HIDE DEF l, e
    <3> QED
      BY <1>4, <1>6, <3>1
  <2>2. CASE f[k].form # "primitive" /\ l = k
    <3>1. Inside(f, k) = e
      BY <1>3, <2>2 DEF Inside
    <3> HIDE DEF l, e
    <3> QED
      BY <1>4, <2>2, <3>1
  <2>3. CASE f[k].form # "primitive" /\ l > k
    <3>1. k + 1 \in 1 .. N /\ f[k + 1].depth = f[k].depth + 1
      BY <2>3, FirstInside
    <3>2. IsGroup(f, k + 1, l)
      <4>1. l \in (k + 1) .. N
        BY <1>1, <1>2, <2>3
      <4>2. \A j \in (k + 1) .. l : j \in 1 .. N
        BY <1>1, <1>2
      <4>3. \A j \in (k + 1) .. l : f[j].depth >= f[k + 1].depth
        BY <1>1, <1>2, <3>1, <4>2
      <4>4. l < N => f[l + 1].depth < f[k + 1].depth
        <5> SUFFICES ASSUME l < N PROVE f[l + 1].depth < f[k + 1].depth
          OBVIOUS
        <5>1. l + 1 \in 1 .. N
          BY <1>1, <1>2
        <5> QED
          BY <1>1, <1>2, <3>1, <5>1
      <4> HIDE DEF l, N
      <4> QED
        BY <4>1, <4>3, <4>4 DEF IsGroup, N
    <3>3. At(f, l, k + 1) = At(f, k, 1) + rest[k + 1]
      <4>1. k + 1 \in (k + 1) .. N /\ (k + 1) - 1 = k
        BY <1>1, <3>1
      <4> QED
        BY <3>2, <4>1 DEF Measured
    <3>4. At(f, k, 1) = At(f, k, k + 1)
      <4>1. ASSUME NEW j \in 1 .. ((k + 1) - 1), j <= k
            PROVE  ~(f[j].form = "indefinite" /\ LastOf(f, j) = k)
        <5>1. j \in 1 .. N
          BY <1>1
        <5> QED
          BY <4>1, <5>1, <2>3, EndsOf
      <4> QED
        BY <1>1, <4>1, WalkedSame
    <3>5. Inside(f, k) = rest[k + 1] + e
      BY <1>3, <2>3 DEF Inside
    <3>6. rest[k + 1] \in Nat
      BY <3>1 DEF Rests
    <3>7. e \in Nat
      OBVIOUS
    <3> HIDE DEF l, e
    <3> QED
      BY <1>4, <1>6, <3>3, <3>4, <3>5, <3>6, <3>7
  <2> QED
    BY <1>1, <1>2, <2>1, <2>2, <2>3
<1>8. ASSUME NEW m, IsGroup(f, k, m)
      PROVE  At(f, m, k) = At(f, k - 1, 1) + rest[k]
  <2>1. /\ more => n \in 1 .. N /\ n \in (k + 1) .. m /\ IsGroup(f, n, m)
        /\ ~more => m = l
    BY <1>8, GroupGoesOn
  <2>2. CASE ~more
    <3> HIDE DEF l, more
    <3> QED
      BY <1>3, <1>5, <1>6, <1>7, <2>1, <2>2
  <2>3. CASE more
    <3>1. n \in 1 .. N /\ n \in (k + 1) .. m /\ n \in (k + 1) .. N
          /\ n - 1 = l /\ IsGroup(f, n, m) /\ m \in k .. N
      BY <1>1, <1>2, <1>8, <2>1, <2>3 DEF IsGroup
    <3>2. At(f, m, n) = At(f, l, 1) + rest[n]
      BY <3>1 DEF Measured
    <3>3. At(f, m, k) = At(f, m, n)
      <4>1. ASSUME NEW j \in k .. (n - 1), j <= m
            PROVE  ~(f[j].form = "indefinite" /\ LastOf(f, j) = m)
        <5>1. j \in k .. l
          BY <3>1
        <5>2. LastOf(f, j) <= l /\ j \in 1 .. N
          BY <5>1, Nested
        <5>3. l < m /\ LastOf(f, j) \in Nat /\ m \in Nat
          BY <1>1, <1>2, <3>1, <5>2, BelowBehind
        <5> QED
          BY <1>2, <5>2, <5>3
      <4>2. k <= n /\ m \in 0 .. N
        BY <1>1, <1>2, <3>1
      <4> HIDE DEF n
      <4> QED
        BY <1>1, <1>2, <4>1, <4>2, WalkedSame
    <3>4. At(f, l, 1) = At(f, l, k)
      <4>1. ASSUME NEW j \in 1 .. (k - 1), j <= l
            PROVE  ~(f[j].form = "indefinite" /\ LastOf(f, j) = l)
        <5>1. j \in 1 .. N /\ j < k
          BY <1>1
        <5>2. LastOf(f, j) # l
          <6> SUFFICES ASSUME LastOf(f, j) = l PROVE FALSE
            OBVIOUS
          <6>1. l < N /\ f[n].depth < f[k].depth
            <7>1. l < N
              BY <1>1, <1>2, <2>3
            <7>2. j < k /\ LastOf(f, j) = LastOf(f, k) /\ LastOf(f, k) < Len(f)
              BY <5>1, <7>1
            <7> QED
              BY <5>1, <7>1, <7>2, EndsOf, Zenon
          <6>2. f[n].depth = f[k].depth /\ f[k].depth \in Nat
            BY <1>1, <2>3
          <6> HIDE DEF n
          <6> QED
            BY <6>1, <6>2
        <5> QED
          BY <5>2
      <4>2. 1 <= k
        BY <1>1
      <4> HIDE DEF l
      <4> QED
        BY <1>1, <1>2, <4>1, <4>2, WalkedSame
    <3>5. rest[n] \in Nat /\ At(f, l, 1) \in Nat
      BY <1>1, <1>2, <3>1, WalkedTyped DEF Rests
    <3> HIDE DEF n, l, more
    <3> QED
      BY <1>3, <1>5, <1>6, <1>7, <2>3, <3>2, <3>3, <3>4, <3>5
  <2> QED
    BY <2>2, <2>3
<1> QED
  BY <1>7, <1>8 DEF Measured

(* Between the begin and the end of each node of each forest lie the       *)
(* octets that its header says: a definite length is what follows up to    *)
(* its end, whatever the tags inside of it are encoded as.                 *)
THEOREM OctetsInside ==
  ASSUME NEW f \in AllForests, NEW k \in 1 .. Len(f)
  PROVE  At(f, LastOf(f, k), k) = At(f, k, k + 1) + Inside(f, k)
<1> DEFINE N == Len(f)
<1>1. N \in Nat
  BY NodesTyped
<1>2. PICK rest : Rests(f, rest)
  BY RestsExist
<1> DEFINE S == {m \in Nat : \A j \in 1 .. N : N - j < m => Measured(f, rest, j)}
<1>3. 0 \in S
  BY <1>1
<1>4. ASSUME NEW m \in Nat, m \in S PROVE m + 1 \in S
  <2>1. SUFFICES ASSUME NEW j \in 1 .. N, N - j < m + 1
                 PROVE  Measured(f, rest, j)
    OBVIOUS
  <2>2. \A i \in (j + 1) .. N : i \in 1 .. N /\ N - i < m
    BY <1>1, <2>1
  <2>3. \A i \in (j + 1) .. N : Measured(f, rest, i)
    BY <1>4, <2>2
  <2> QED
    BY <1>2, <2>3, MeasuredStep
<1> HIDE DEF S
<1>5. \A m \in Nat : m \in S
  BY <1>3, <1>4, Induction
<1>6. Measured(f, rest, k)
  <2>1. N \in S
    BY <1>1, <1>5
  <2>2. N - k < N
    BY <1>1
  <2> QED
    BY <2>1, <2>2 DEF S
<1> QED
  BY <1>6 DEF Measured

(***************************************************************************)
(* Beginnings of an encoding                                               *)
(***************************************************************************)
LEMMA PrefixIs ==
  ASSUME NEW T, NEW s \in Seq(T), NEW t \in Seq(T)
  PROVE  IsPrefix(s, t) <=> /\ Len(s) <= Len(t)
                            /\ \A n \in 1 .. Len(s) : s[n] = t[n]
<1>1. SubSeq(s, 1, Len(s)) = s
  OBVIOUS
<1>2. CASE Len(s) <= Len(t)
  <2> DEFINE r == SubSeq(t, 1, Len(s))
  <2>1. Len(s) \in Nat /\ Len(t) \in Nat
    OBVIOUS
  <2>2. r \in Seq(T) /\ Len(r) = Len(s) /\ \A n \in 1 .. Len(s) : r[n] = t[n]
    BY <1>2, <2>1
  <2> HIDE DEF r
  <2>3. s = r <=> \A n \in 1 .. Len(s) : s[n] = r[n]
    BY <2>2
  <2>4. s = r <=> \A n \in 1 .. Len(s) : s[n] = t[n]
    BY <2>2, <2>3
  <2> QED
    BY <1>1, <1>2, <2>4 DEF IsPrefix, r
<1>3. CASE ~(Len(s) <= Len(t))
  BY <1>3 DEF IsPrefix
<1> QED
  BY <1>2, <1>3

(* Sequences, one element at a time *)
LEMMA SameElements ==
  ASSUME NEW T, NEW s \in Seq(T), NEW t \in Seq(T), Len(s) = Len(t),
         \A n \in 1 .. Len(s) : s[n] = t[n]
  PROVE  s = t
OBVIOUS

(* The elements of two sequences behind each other *)
LEMMA ConcatElements ==
  ASSUME NEW T, NEW s \in Seq(T), NEW t \in Seq(T)
  PROVE  /\ s \o t \in Seq(T) /\ Len(s \o t) = Len(s) + Len(t)
         /\ Len(s) \in Nat /\ Len(t) \in Nat
         /\ \A n \in 1 .. Len(s) : (s \o t)[n] = s[n]
         /\ \A n \in 1 .. Len(t) : (s \o t)[Len(s) + n] = t[n]
OBVIOUS

(* The elements of a part of a sequence *)
LEMMA SubSeqElements ==
  ASSUME NEW T, NEW s \in Seq(T), NEW a \in Nat, NEW b \in Nat, 1 <= a, a <= b + 1,
         b <= Len(s)
  PROVE  /\ SubSeq(s, a, b) \in Seq(T) /\ Len(SubSeq(s, a, b)) = b - a + 1
         /\ \A n \in 1 .. (b - a + 1) : SubSeq(s, a, b)[n] = s[a + n - 1]
OBVIOUS

(* Two parts that lie side by side *)
LEMMA SubSeqJoined ==
  ASSUME NEW T, NEW s \in Seq(T), NEW a \in Nat, NEW b \in Nat, NEW c \in Nat,
         1 <= a, a <= b + 1, b <= c, c <= Len(s)
  PROVE  SubSeq(s, a, b) \o SubSeq(s, b + 1, c) = SubSeq(s, a, c)
<1> DEFINE x == SubSeq(s, a, b)
           y == SubSeq(s, b + 1, c)
           z == SubSeq(s, a, c)
<1>1. b <= Len(s) /\ b + 1 \in Nat /\ 1 <= b + 1 /\ b + 1 <= c + 1 /\ a <= c + 1
      /\ Len(s) \in Nat
  OBVIOUS
<1>2. /\ x \in Seq(T) /\ Len(x) = b - a + 1
      /\ \A n \in 1 .. (b - a + 1) : x[n] = s[a + n - 1]
  BY <1>1, SubSeqElements
<1>3. /\ y \in Seq(T) /\ Len(y) = c - (b + 1) + 1
      /\ \A n \in 1 .. (c - (b + 1) + 1) : y[n] = s[(b + 1) + n - 1]
  BY <1>1, SubSeqElements
<1>4. /\ z \in Seq(T) /\ Len(z) = c - a + 1
      /\ \A n \in 1 .. (c - a + 1) : z[n] = s[a + n - 1]
  BY <1>1, SubSeqElements
<1> HIDE DEF x, y, z
<1>5. /\ x \o y \in Seq(T) /\ Len(x \o y) = Len(x) + Len(y)
      /\ \A n \in 1 .. Len(x) : (x \o y)[n] = x[n]
      /\ \A n \in 1 .. Len(y) : (x \o y)[Len(x) + n] = y[n]
  <2>1. x \in Seq(T) /\ y \in Seq(T)
    BY <1>2, <1>3
  <2> QED
    BY <2>1
<1>6. Len(x \o y) = Len(z)
  BY <1>1, <1>2, <1>3, <1>4, <1>5
<1>7. ASSUME NEW n \in 1 .. Len(z) PROVE (x \o y)[n] = z[n]
  <2>1. CASE n <= b - a + 1
    <3>1. n \in 1 .. (b - a + 1) /\ n \in 1 .. (c - a + 1)
      BY <1>1, <1>4, <2>1
    <3> QED
      BY <1>2, <1>4, <1>5, <3>1
  <2>2. CASE n > b - a + 1
    <3> DEFINE m == n - Len(x)
    <3>1. m \in 1 .. Len(y) /\ n = Len(x) + m /\ n \in 1 .. (c - a + 1)
          /\ m \in 1 .. (c - (b + 1) + 1) /\ (b + 1) + m - 1 = a + n - 1
      BY <1>1, <1>2, <1>3, <1>4, <2>2
    <3> HIDE DEF m
    <3> QED
      BY <1>3, <1>4, <1>5, <3>1
  <2>3. n <= b - a + 1 \/ n > b - a + 1
    BY <1>4
  <2> QED
    BY <2>1, <2>2, <2>3
<1>8. x \o y = z
  BY <1>4, <1>5, <1>6, <1>7, SameElements
<1> QED
  BY <1>8 DEF x, y, z

(* A beginning of a beginning; what is read next *)
LEMMA PrefixFacts ==
  ASSUME NEW T, NEW s \in Seq(T), NEW t \in Seq(T)
  PROVE  /\ IsPrefix(s, s \o t)
         /\ \A r \in Seq(T) : IsPrefix(s, t) /\ IsPrefix(t, r) => IsPrefix(s, r)
<1>1. IsPrefix(s, s \o t)
  <2> DEFINE r == s \o t
  <2>1. r \in Seq(T) /\ Len(s) <= Len(r) /\ \A n \in 1 .. Len(s) : s[n] = r[n]
    OBVIOUS
  <2> HIDE DEF r
  <2>2. IsPrefix(s, r)
    BY <2>1, PrefixIs
  <2> QED
    BY <2>2 DEF r
<1>2. ASSUME NEW r \in Seq(T), IsPrefix(s, t), IsPrefix(t, r)
      PROVE  IsPrefix(s, r)
  <2>1. /\ Len(s) <= Len(t) /\ \A n \in 1 .. Len(s) : s[n] = t[n]
        /\ Len(t) <= Len(r) /\ \A n \in 1 .. Len(t) : t[n] = r[n]
    BY <1>2, PrefixIs
  <2>2. Len(s) <= Len(r) /\ \A n \in 1 .. Len(s) : s[n] = r[n]
    BY <2>1
  <2> QED
    BY <2>2, PrefixIs
<1> QED
  BY <1>1, <1>2

(* A common beginning keeps one a prefix of the other. *)
LEMMA PrefixBehind ==
  ASSUME NEW T, NEW u \in Seq(T), NEW s \in Seq(T), NEW t \in Seq(T), IsPrefix(s, t)
  PROVE  u \o s \in Seq(T) /\ u \o t \in Seq(T) /\ IsPrefix(u \o s, u \o t)
<1>1. Len(s) <= Len(t) /\ \A n \in 1 .. Len(s) : s[n] = t[n]
  BY PrefixIs
<1>2. /\ u \o s \in Seq(T) /\ Len(u \o s) = Len(u) + Len(s)
      /\ u \o t \in Seq(T) /\ Len(u \o t) = Len(u) + Len(t)
      /\ Len(u) \in Nat /\ Len(s) \in Nat /\ Len(t) \in Nat
  OBVIOUS
<1>3. ASSUME NEW x \in 1 .. (Len(u) + Len(s))
      PROVE  (u \o s)[x] = (u \o t)[x]
  <2>1. CASE x <= Len(u)
    BY <1>2, <2>1
  <2>2. CASE x > Len(u)
    <3>1. x - Len(u) \in 1 .. Len(s) /\ x - Len(u) \in 1 .. Len(t)
      BY <1>1, <1>2, <2>2
    <3>2. (u \o s)[x] = s[x - Len(u)] /\ (u \o t)[x] = t[x - Len(u)]
      BY <1>1, <1>2, <2>2
    <3> QED
      BY <1>1, <3>1, <3>2
  <2>3. x <= Len(u) \/ x > Len(u)
    BY <1>2
  <2> QED
    BY <2>1, <2>2, <2>3, Zenon
<1>4. \A x \in 1 .. Len(u \o s) : (u \o s)[x] = (u \o t)[x]
  BY <1>2, <1>3
<1>5. Len(u \o s) <= Len(u \o t)
  BY <1>1, <1>2
<1> QED
  BY <1>2, <1>4, <1>5, PrefixIs, Zenon

(* The next element of a prefix is that of the whole. *)
LEMMA PrefixNext ==
  ASSUME NEW T, NEW all \in Seq(T), NEW us \in Seq(T), IsPrefix(us, all),
         NEW n \in Nat, n < Len(us), NEW x \in T,
         IsPrefix(Append(SubSeq(us, 1, n), x), all)
  PROVE  us[n + 1] = x /\ SubSeq(us, 1, n + 1) = Append(SubSeq(us, 1, n), x)
<1> DEFINE w == SubSeq(us, 1, n)
           v == Append(w, x)
<1>1. n + 1 \in 1 .. Len(us) /\ n <= Len(us) /\ Len(us) \in Nat
  OBVIOUS
<1>2. w \in Seq(T) /\ Len(w) = n
  BY <1>1
<1> HIDE DEF w
<1>3. v \in Seq(T) /\ Len(v) = n + 1 /\ v[n + 1] = x
  BY <1>2
<1> HIDE DEF v
<1>4. IsPrefix(v, all)
  BY DEF v, w
<1>5. v[n + 1] = all[n + 1]
  <2>1. n + 1 \in 1 .. Len(v)
    BY <1>3
  <2> QED
    BY <1>3, <1>4, <2>1, PrefixIs
<1>6. us[n + 1] = all[n + 1]
  BY <1>1, PrefixIs
<1>7. us[n + 1] = x
  BY <1>3, <1>5, <1>6
<1>8. SubSeq(us, 1, n + 1) = Append(w, us[n + 1])
  BY <1>1 DEF w
<1> QED
  BY <1>7, <1>8 DEF w

(* What was read after n + k nodes begins with what was read after n. *)
LEMMA UptoPrefix ==
  ASSUME NEW f \in AllForests, NEW i \in 0 .. Len(f), NEW j \in i .. Len(f)
  PROVE  IsPrefix(Upto(f)[i], Upto(f)[j])
<1> DEFINE U == Upto(f)
           T == EncodedUnit
           S == {n \in Nat : i + n <= Len(f) => IsPrefix(U[i], U[i + n])}
<1>1. Len(f) \in Nat /\ i \in Nat /\ j \in Nat /\ j >= i
  BY NodesTyped
<1>2. \A k \in 0 .. Len(f) : U[k] \in Seq(T)
  BY UptoIs
<1>3. 0 \in S
  <2>1. IsPrefix(U[i], U[i])
    BY <1>2, PrefixIs
  <2>2. i + 0 = i
    BY <1>1
  <2> QED
    BY <2>1, <2>2
<1>4. ASSUME NEW n \in Nat, n \in S PROVE n + 1 \in S
  <2> SUFFICES ASSUME i + (n + 1) <= Len(f)
               PROVE  IsPrefix(U[i], U[i + (n + 1)])
    OBVIOUS
  <2> DEFINE k == i + (n + 1)
             e == EocsOf(f, k, 1)
             h == <<HeadOf(f, k)>>
  <2>1. k \in 1 .. Len(f) /\ k - 1 = i + n /\ k - 1 \in 0 .. Len(f) /\ i + n <= Len(f)
        /\ k \in 0 .. Len(f) /\ k \in Nat /\ 1 \in Nat
    BY <1>1
  <2>2. U[k] = U[k - 1] \o h \o e
    BY <2>1, UptoIs
  <2>3. e \in Seq(T)
    BY <2>1, EndsFinite
  <2>4. h \in Seq(T)
    <3> DEFINE x == HeadOf(f, k)
    <3>1. x \in T
      BY <2>1, HeadTyped
    <3> HIDE DEF x, T
    <3>2. <<x>> \in Seq(T)
      BY <3>1
    <3> QED
      BY <3>2 DEF x
  <2>5. U[k - 1] \in Seq(T) /\ U[i] \in Seq(T) /\ U[k] \in Seq(T)
    BY <1>2, <2>1
  <2>6. IsPrefix(U[i], U[k - 1])
    BY <1>4, <2>1
  <2>7. IsPrefix(U[k - 1], U[k])
    <3> DEFINE u == U[k - 1]
    <3> HIDE DEF u, h, e, T
    <3>1. u \in Seq(T) /\ u \o h \in Seq(T) /\ u \o h \o e \in Seq(T)
      BY <2>3, <2>4, <2>5 DEF u
    <3>2. IsPrefix(u, u \o h) /\ IsPrefix(u \o h, u \o h \o e)
      BY <2>3, <2>4, <3>1, PrefixFacts
    <3>3. IsPrefix(u, u \o h \o e)
      BY <3>1, <3>2, PrefixFacts
    <3> QED
      BY <2>2, <3>3 DEF u
  <2> HIDE DEF k, U, T
  <2>8. IsPrefix(U[i], U[k])
    BY <2>5, <2>6, <2>7, PrefixFacts
  <2> QED
    BY <2>8 DEF k
<1> HIDE DEF S
<1>5. \A n \in Nat : n \in S
  BY <1>3, <1>4, Induction
<1>6. j - i \in S /\ i + (j - i) = j /\ j <= Len(f)
  BY <1>1, <1>5
<1> QED
  BY <1>6 DEF S

(* What is read is the beginning of the encoding. *)
LEMMA WalkedPrefix ==
  ASSUME NEW f \in AllForests, NEW i \in 0 .. Len(f), NEW b \in Nat, b >= 1
  PROVE  /\ IsPrefix(Walked(f, i, b), Units(f))
         /\ Units(f) \in Seq(EncodedUnit)
<1> DEFINE T == EncodedUnit
<1>1. Len(f) \in Nat /\ i \in Nat /\ 1 \in Nat /\ Len(f) \in i .. Len(f)
      /\ Len(f) \in 0 .. Len(f)
  BY NodesTyped
<1>2. /\ Upto(f)[i] = Walked(f, i, 1) /\ Units(f) = Upto(f)[Len(f)]
      /\ Upto(f)[i] \in Seq(T) /\ Units(f) \in Seq(T)
  BY <1>1, UptoIs, WalkedAll
<1>3. IsPrefix(Walked(f, i, b), Walked(f, i, 1))
  <2>1. CASE i = 0
    <3>1. Walked(f, i, b) = Walked(f, i, 1)
      BY <2>1, Zenon DEF Walked
    <3> QED
      BY <1>2, <3>1, PrefixIs
  <2>2. CASE i # 0
    <3> DEFINE u == Upto(f)[i - 1] \o <<HeadOf(f, i)>>
               n == Cardinality(Ends(f, i, b))
               m == Cardinality(Ends(f, i, 1))
               e(k) == [x \in 1 .. k |-> Eoc]
    <3>1. i \in 1 .. Len(f) /\ i - 1 \in 0 .. Len(f)
      BY <1>1, <2>2
    <3>2. u \in Seq(T)
      BY <3>1, HeadTyped, UptoIs
    <3>3. n \in Nat /\ m \in Nat /\ n <= m
      <4>1. Ends(f, i, b) \subseteq Ends(f, i, 1)
        BY <1>1 DEF Ends
      <4>2. IsFiniteSet(Ends(f, i, 1)) /\ m \in Nat /\ n \in Nat
        BY <1>1, EndsFinite
      <4> QED
        BY <4>1, <4>2, FS_Subset
    <3>4. Walked(f, i, b) = u \o e(n) /\ Walked(f, i, 1) = u \o e(m)
      BY <2>2, Zenon DEF Walked, EocsOf
    <3> HIDE DEF u, n, m
    <3> DEFINE v == u \o e(n)
               w == u \o e(m)
    <3>5. IsPrefix(v, w)
      <4> DEFINE p == e(n)
                 q == e(m)
      <4>1. /\ p \in Seq(T) /\ Len(p) = n /\ \A x \in 1 .. n : p[x] = Eoc
            /\ q \in Seq(T) /\ Len(q) = m /\ \A x \in 1 .. m : q[x] = Eoc
        BY <3>3, EocTyped
      <4> HIDE DEF p, q, e, T
      <4>2. IsPrefix(p, q)
        BY <3>3, <4>1, PrefixIs
      <4>3. u \o p \in Seq(T) /\ u \o q \in Seq(T) /\ IsPrefix(u \o p, u \o q)
        BY <3>2, <4>1, <4>2, PrefixBehind
      <4> QED
        BY <4>3, Zenon DEF p, q
    <3> HIDE DEF v, w
    <3> QED
      BY <3>4, <3>5, Zenon DEF v, w
  <2> QED
    BY <2>1, <2>2
<1>4. IsPrefix(Upto(f)[i], Units(f))
  BY <1>1, <1>2, UptoPrefix
<1>5. Walked(f, i, b) \in Seq(T)
  BY WalkedTyped
<1> HIDE DEF T
<1>6. IsPrefix(Walked(f, i, b), Units(f))
  BY <1>2, <1>3, <1>4, <1>5, PrefixFacts
<1> QED
  BY <1>2, <1>6 DEF T

(***************************************************************************)
(* Stacks: the elements of a set, the least one first                      *)
(***************************************************************************)
Ascending(s, S) ==
  /\ s \in Seq(Nat)
  /\ \A n \in 1 .. Len(s) : s[n] \in S
  /\ \A x \in S : \E n \in 1 .. Len(s) : s[n] = x
  /\ \A n \in 1 .. Len(s), m \in 1 .. Len(s) : n < m => s[n] < s[m]

(* The empty sequence is that of the empty set. *)
LEMMA AscendingNone == \A S : Ascending(<< >>, S) <=> S = {}
BY DEF Ascending

(* A greater one more *)
LEMMA AscendingPush ==
  ASSUME NEW S, NEW s, Ascending(s, S), NEW x \in Nat, \A y \in S : y < x
  PROVE  Ascending(Append(s, x), S \cup {x})
<1> DEFINE t == Append(s, x)
           N == Len(s)
<1>1. /\ s \in Seq(Nat) /\ \A n \in 1 .. N : s[n] \in S
      /\ \A y \in S : \E n \in 1 .. N : s[n] = y
      /\ \A n \in 1 .. N, m \in 1 .. N : n < m => s[n] < s[m]
  BY DEF Ascending
<1>2. /\ N \in Nat /\ t \in Seq(Nat) /\ Len(t) = N + 1 /\ t[N + 1] = x
      /\ \A n \in 1 .. N : t[n] = s[n]
  BY <1>1
<1> HIDE DEF t, N
<1>3. \A n \in 1 .. (N + 1) : n \in 1 .. N \/ n = N + 1
  BY <1>2
<1>4. \A n \in 1 .. Len(t) : t[n] \in S \cup {x}
  BY <1>1, <1>2, <1>3
<1>5. \A y \in S \cup {x} : \E n \in 1 .. Len(t) : t[n] = y
  <2>1. \A n \in 1 .. N : n \in 1 .. Len(t)
    BY <1>2
  <2>2. N + 1 \in 1 .. Len(t)
    BY <1>2
  <2> QED
    BY <1>1, <1>2, <2>1, <2>2
<1>6. ASSUME NEW n \in 1 .. Len(t), NEW m \in 1 .. Len(t), n < m
      PROVE  t[n] < t[m]
  <2>1. n \in 1 .. N
    BY <1>2, <1>6
  <2>2. CASE m \in 1 .. N
    BY <1>1, <1>2, <1>6, <2>1, <2>2
  <2>3. CASE m = N + 1
    BY <1>1, <1>2, <2>1, <2>3
  <2> QED
    BY <1>2, <1>3, <2>2, <2>3
<1> QED
  BY <1>2, <1>4, <1>5, <1>6 DEF Ascending, t

(* The last is the greatest, and can be taken away. *)
LEMMA AscendingPop ==
  ASSUME NEW S, NEW s, Ascending(s, S), s # << >>
  PROVE  /\ s \in Seq(Nat) /\ Len(s) \in Nat /\ Len(s) >= 1
         /\ Last(s) = s[Len(s)] /\ Last(s) \in S /\ Last(s) \in Nat
         /\ \A y \in S : y \in Nat /\ y <= Last(s)
         /\ Ascending(Front(s), S \ {Last(s)})
         /\ Front(s) \in Seq(Nat) /\ Len(Front(s)) = Len(s) - 1
         /\ \A n \in 1 .. (Len(s) - 1) : Front(s)[n] = s[n]
<1> DEFINE N == Len(s)
           t == Front(s)
           x == s[N]
<1>1. /\ s \in Seq(Nat) /\ \A n \in 1 .. N : s[n] \in S
      /\ \A y \in S : \E n \in 1 .. N : s[n] = y
      /\ \A n \in 1 .. N, m \in 1 .. N : n < m => s[n] < s[m]
  BY DEF Ascending
<1>2. N \in Nat /\ N >= 1 /\ N \in 1 .. N /\ x \in Nat
  BY <1>1
<1>3. Last(s) = x
  BY DEF Last
<1>4. /\ t \in Seq(Nat) /\ Len(t) = N - 1 /\ \A n \in 1 .. (N - 1) : t[n] = s[n]
  <2> DEFINE k == Len(s) - 1
             r == SubSeq(s, 1, k)
  <2>1. k \in Nat /\ k <= Len(s) /\ s \in Seq(Nat)
    BY <1>1, <1>2
  <2> HIDE DEF k
  <2>2. r \in Seq(Nat) /\ Len(r) = k /\ \A n \in 1 .. k : r[n] = s[n]
    BY <2>1
  <2> QED
    BY <2>2, Zenon DEF Front, r, k
<1> HIDE DEF N, t
<1>5. \A y \in S : y \in Nat /\ y <= x
  <2> SUFFICES ASSUME NEW y \in S PROVE y \in Nat /\ y <= x
    OBVIOUS
  <2>1. PICK n \in 1 .. N : s[n] = y
    BY <1>1
  <2>2. y \in Nat
    BY <1>1, <2>1 DEF N
  <2>3. n = N \/ n < N
    BY <1>2
  <2> QED
    BY <1>1, <1>2, <2>1, <2>2, <2>3
<1>6. \A n \in 1 .. (N - 1) : n \in 1 .. N /\ n < N
  BY <1>2
<1>7. \A n \in 1 .. Len(t) : t[n] \in S \ {x}
  <2> SUFFICES ASSUME NEW n \in 1 .. (N - 1) PROVE s[n] \in S \ {x}
    BY <1>4
  <2>1. s[n] \in S /\ s[n] < x /\ s[n] \in Nat
    BY <1>1, <1>2, <1>5, <1>6
  <2> QED
    BY <1>2, <2>1
<1>8. \A y \in S \ {x} : \E n \in 1 .. Len(t) : t[n] = y
  <2> SUFFICES ASSUME NEW y \in S \ {x} PROVE \E n \in 1 .. (N - 1) : s[n] = y
    BY <1>4
  <2>1. PICK n \in 1 .. N : s[n] = y
    BY <1>1
  <2>2. n # N
    BY <2>1
  <2> QED
    BY <1>2, <2>1, <2>2
<1>9. \A n \in 1 .. Len(t), m \in 1 .. Len(t) : n < m => t[n] < t[m]
  BY <1>1, <1>4, <1>6
<1>10. Ascending(t, S \ {x})
  BY <1>4, <1>7, <1>8, <1>9 DEF Ascending
<1>11. x \in S
  BY <1>1, <1>2
<1> QED
  BY <1>1, <1>2, <1>3, <1>4, <1>5, <1>10, <1>11 DEF N, t

(***************************************************************************)
(* Steps of a walk                                                         *)
(***************************************************************************)
(* The nodes that a walk is inside of *)
Open(f, i, b) ==
  {k \in 1 .. i : /\ f[k].form # "primitive"
                  /\ LastOf(f, k) > i \/ (LastOf(f, k) = i /\ k < b)}

(* A walk is behind node i, has closed the nodes of b .. i that end there, *)
(* and is inside of the nodes o.                                           *)
WalkAt(f, i, b, o) ==
  i \in 0 .. Len(f) /\ b \in 1 .. (i + 1) /\ Ascending(o, Open(f, i, b))

(* No node that is open ends here. *)
NoneEnds(f, i, o) == o = << >> \/ LastOf(f, Last(o)) > i

(* The innermost open node *)
LEMMA WalkTop ==
  ASSUME NEW f \in AllForests, NEW i, NEW b, NEW o, WalkAt(f, i, b, o), o # << >>
  PROVE  LET k == Last(o)
         IN  /\ k \in 1 .. i /\ k \in 1 .. Len(f) /\ f[k].form # "primitive"
             /\ LastOf(f, k) \in Nat /\ LastOf(f, k) >= i
             /\ LastOf(f, k) = i => k < b
             /\ \A j \in Open(f, i, b) : j \in Nat /\ j <= k
<1>1. /\ Last(o) \in Open(f, i, b)
      /\ \A j \in Open(f, i, b) : j \in Nat /\ j <= Last(o)
  BY AscendingPop DEF WalkAt
<1>2. Len(f) \in Nat /\ i \in 0 .. Len(f)
  BY NodesTyped DEF WalkAt
<1> DEFINE k == Last(o)
<1> HIDE DEF k
<1>3. /\ k \in 1 .. i /\ f[k].form # "primitive"
      /\ LastOf(f, k) > i \/ (LastOf(f, k) = i /\ k < b)
  BY <1>1 DEF Open, k
<1>4. k \in 1 .. Len(f)
  BY <1>2, <1>3
<1>5. LastOf(f, k) \in Nat
  BY <1>2, <1>4, BelowBehind
<1> QED
  BY <1>1, <1>2, <1>3, <1>4, <1>5 DEF k

(* Then nothing is closed before the next node. *)
LEMMA WalkRest ==
  ASSUME NEW f \in AllForests, NEW i, NEW b, NEW o, WalkAt(f, i, b, o), NoneEnds(f, i, o)
  PROVE  /\ Walked(f, i, b) = Walked(f, i, 1) /\ At(f, i, b) = At(f, i, 1)
         /\ \A j \in Open(f, i, b) : LastOf(f, j) > i
         /\ i = Len(f) => o = << >> /\ Walked(f, i, b) = Units(f)
<1>1. Len(f) \in Nat /\ i \in 0 .. Len(f) /\ b \in 1 .. (i + 1) /\ i \in Nat /\ b \in Nat
      /\ 1 <= b /\ 1 \in Nat
  BY NodesTyped DEF WalkAt
<1>2. ASSUME NEW j \in Open(f, i, b) PROVE LastOf(f, j) > i
  <2>1. j \in 1 .. i /\ j \in 1 .. Len(f)
    BY <1>1 DEF Open
  <2>2. o # << >>
    BY <1>2, AscendingNone DEF WalkAt
  <2> DEFINE k == Last(o)
  <2>3. k \in 1 .. i /\ LastOf(f, k) > i /\ j <= k
    BY <2>2, WalkTop DEF NoneEnds
  <2> HIDE DEF k
  <2> SUFFICES ASSUME ~(LastOf(f, j) > i) PROVE FALSE
    OBVIOUS
  <2>4. LastOf(f, j) = i
    BY <1>2 DEF Open
  <2>5. k \in j .. LastOf(f, j)
    BY <2>1, <2>3, <2>4
  <2>6. LastOf(f, k) <= LastOf(f, j) /\ k \in 1 .. Len(f)
    BY <2>1, <2>5, Nested
  <2>7. LastOf(f, k) \in Nat
    BY <1>1, <2>6, BelowBehind
  <2> QED
    BY <1>1, <2>3, <2>4, <2>6, <2>7
<1>3. ASSUME NEW j \in 1 .. (b - 1), j <= i
      PROVE  ~(f[j].form = "indefinite" /\ LastOf(f, j) = i)
  <2> SUFFICES ASSUME f[j].form = "indefinite", LastOf(f, j) = i PROVE FALSE
    OBVIOUS
  <2>1. j \in Open(f, i, b)
    BY <1>1, <1>3 DEF Open
  <2>2. LastOf(f, j) > i
    BY <1>2, <2>1
  <2> QED
    BY <1>1, <2>2
<1>4. Walked(f, i, b) = Walked(f, i, 1) /\ At(f, i, b) = At(f, i, 1)
  BY <1>1, <1>3, WalkedSame
<1>5. ASSUME i = Len(f) PROVE o = << >> /\ Walked(f, i, b) = Units(f)
  <2>1. Open(f, i, b) = {}
    <3> SUFFICES ASSUME NEW j \in Open(f, i, b) PROVE FALSE
      OBVIOUS
    <3>1. j \in 1 .. Len(f) /\ LastOf(f, j) > Len(f)
      BY <1>1, <1>2, <1>5 DEF Open
    <3>2. LastOf(f, j) \in j .. Len(f)
      BY <3>1, LastIs DEF IsLast
    <3> QED
      BY <1>1, <3>1, <3>2
  <2>2. o = << >>
    <3>1. Ascending(o, {})
      BY <2>1 DEF WalkAt
    <3> SUFFICES ASSUME o # << >> PROVE FALSE
      OBVIOUS
    <3>2. Last(o) \in {}
      BY <3>1, AscendingPop
    <3> QED
      BY <3>2
  <2> QED
    BY <1>4, <1>5, <2>2, WalkedAll
<1> QED
  BY <1>2, <1>4, <1>5

(* The next node begins. *)
LEMMA WalkOpens ==
  ASSUME NEW f \in AllForests, NEW i, NEW b, NEW o, WalkAt(f, i, b, o), NoneEnds(f, i, o),
         i < Len(f)
  PROVE  LET h == HeadOf(f, i + 1)
         IN  /\ WalkAt(f, i + 1, i + 2, IF f[i + 1].form = "primitive" THEN o
                                                                     ELSE Append(o, i + 1))
             /\ Open(f, i + 1, i + 2) =
                  Open(f, i, b) \cup IF f[i + 1].form = "primitive" THEN {} ELSE {i + 1}
             /\ Walked(f, i + 1, i + 2) = Append(Walked(f, i, b), h)
             /\ At(f, i + 1, i + 2) = At(f, i, b) + Span(h)
             /\ i + 1 \in 1 .. Len(f)
<1> DEFINE k == i + 1
<1>1. /\ Len(f) \in Nat /\ i \in Nat /\ b \in Nat /\ k \in 1 .. Len(f) /\ k \in Nat
      /\ k - 1 = i /\ k + 1 = i + 2 /\ k \in 0 .. Len(f) /\ i + 2 \in 1 .. (k + 1)
      /\ i \in 0 .. Len(f) /\ b <= i + 1
      /\ Ascending(o, Open(f, i, b))
  BY NodesTyped DEF WalkAt
<1>2. Walked(f, k, k + 1) = Append(Walked(f, i, b), HeadOf(f, k))
      /\ At(f, k, k + 1) = At(f, i, b) + Span(HeadOf(f, k))
  <2>1. Walked(f, i, b) = Walked(f, i, 1) /\ At(f, i, b) = At(f, i, 1)
    BY WalkRest
  <2> QED
    BY <1>1, <2>1, WalkedHead
<1>3. \A j \in Open(f, i, b) : j \in 1 .. i /\ f[j].form # "primitive" /\ LastOf(f, j) > i
  BY WalkRest DEF Open
<1>4. \A j \in 1 .. k : j \in 1 .. Len(f) /\ LastOf(f, j) \in Nat
  BY <1>1, BelowBehind
<1>5. LastOf(f, k) >= k
  BY <1>1, BelowBehind
<1>6. Open(f, k, k + 1) = Open(f, i, b) \cup IF f[k].form = "primitive" THEN {} ELSE {k}
  <2>1. ASSUME NEW j \in Open(f, k, k + 1)
        PROVE  j \in Open(f, i, b) \cup IF f[k].form = "primitive" THEN {} ELSE {k}
    <3>1. j \in 1 .. k /\ f[j].form # "primitive" /\ LastOf(f, j) >= k /\ LastOf(f, j) \in Nat
      BY <1>1, <1>4 DEF Open
    <3>2. CASE j = k
      BY <3>1, <3>2
    <3>3. CASE j # k
      <4>1. j \in 1 .. i /\ LastOf(f, j) > i
        BY <1>1, <3>1, <3>3
      <4> QED
        BY <3>1, <4>1 DEF Open
    <3> QED
      BY <3>2, <3>3
  <2>2. ASSUME NEW j \in Open(f, i, b)
        PROVE  j \in Open(f, k, k + 1)
    <3>1. j \in 1 .. i /\ f[j].form # "primitive" /\ LastOf(f, j) > i
      BY <1>3
    <3>2. j \in 1 .. k /\ LastOf(f, j) >= k /\ j < k + 1 /\ LastOf(f, j) \in Nat
      BY <1>1, <1>4, <3>1
    <3> QED
      BY <1>1, <3>1, <3>2 DEF Open
  <2>3. ASSUME f[k].form # "primitive"
        PROVE  k \in Open(f, k, k + 1)
    <3>1. k \in 1 .. k /\ k < k + 1 /\ LastOf(f, k) \in Nat
      BY <1>1, <1>4
    <3> QED
      BY <1>1, <1>5, <2>3, <3>1 DEF Open
  <2> QED
    BY <2>1, <2>2, <2>3
<1>7. Ascending(IF f[k].form = "primitive" THEN o ELSE Append(o, k), Open(f, k, k + 1))
  <2>1. CASE f[k].form = "primitive"
    <3>1. Open(f, k, k + 1) = Open(f, i, b)
      BY <1>6, <2>1
    <3> QED
      BY <1>1, <2>1, <3>1
  <2>2. CASE f[k].form # "primitive"
    <3>1. Open(f, k, k + 1) = Open(f, i, b) \cup {k}
      BY <1>6, <2>2
    <3>2. \A j \in Open(f, i, b) : j < k
      BY <1>1, <1>3
    <3>3. Ascending(Append(o, k), Open(f, i, b) \cup {k})
      <4> HIDE DEF k
      <4> QED
        BY <1>1, <3>2, AscendingPush
    <3> QED
      BY <2>2, <3>1, <3>3
  <2> QED
    BY <2>1, <2>2
<1>8. WalkAt(f, k, k + 1, IF f[k].form = "primitive" THEN o ELSE Append(o, k))
  BY <1>1, <1>7 DEF WalkAt
<1> QED
  BY <1>1, <1>2, <1>6, <1>8

(* The innermost node ends. *)
LEMMA WalkCloses ==
  ASSUME NEW f \in AllForests, NEW i, NEW b, NEW o, WalkAt(f, i, b, o), ~NoneEnds(f, i, o)
  PROVE  LET k == Last(o)
         IN  /\ o # << >> /\ k \in 1 .. i /\ k \in 1 .. Len(f) /\ LastOf(f, k) = i
             /\ WalkAt(f, i, k, Front(o)) /\ Open(f, i, k) = Open(f, i, b) \ {k}
             /\ f[k].form = "indefinite" =>
                  /\ Walked(f, i, k) = Append(Walked(f, i, b), Eoc)
                  /\ At(f, i, k) = At(f, i, b) + 2
             /\ f[k].form # "indefinite" =>
                  /\ Walked(f, i, k) = Walked(f, i, b)
                  /\ At(f, i, k) = At(f, i, b)
<1> DEFINE k == Last(o)
<1>1. /\ o # << >> /\ k \in 1 .. i /\ k \in 1 .. Len(f) /\ LastOf(f, k) = i /\ k < b
      /\ f[k].form # "primitive"
      /\ \A j \in Open(f, i, b) : j \in Nat /\ j <= k
  <2>1. o # << >> /\ ~(LastOf(f, k) > i)
    BY DEF NoneEnds
  <2>2. /\ k \in 1 .. i /\ k \in 1 .. Len(f) /\ f[k].form # "primitive"
        /\ LastOf(f, k) \in Nat /\ LastOf(f, k) >= i
        /\ LastOf(f, k) = i => k < b
        /\ \A j \in Open(f, i, b) : j \in Nat /\ j <= k
    BY <2>1, WalkTop
  <2>3. i \in Nat
    BY NodesTyped DEF WalkAt
  <2> HIDE DEF k
  <2>4. LastOf(f, k) = i
    BY <2>1, <2>2, <2>3
  <2> QED
    BY <2>1, <2>2, <2>4
<1> HIDE DEF k
<1>2. /\ Len(f) \in Nat /\ i \in Nat /\ b \in Nat /\ k \in Nat /\ k + 1 \in Nat
      /\ i \in 0 .. Len(f) /\ i \in 1 .. Len(f) /\ k + 1 <= b /\ k \in 1 .. (i + 1)
      /\ b <= i + 1 /\ Ascending(o, Open(f, i, b))
  BY <1>1, NodesTyped DEF WalkAt
<1>3. ASSUME NEW j \in (k + 1) .. (b - 1), j <= i
      PROVE  ~(f[j].form # "primitive" /\ LastOf(f, j) = i)
  <2> SUFFICES ASSUME f[j].form # "primitive", LastOf(f, j) = i PROVE FALSE
    OBVIOUS
  <2>1. j \in Open(f, i, b)
    BY <1>2, <1>3 DEF Open
  <2>2. j <= k
    BY <1>1, <2>1
  <2> QED
    BY <1>2, <2>2
<1>4. Walked(f, i, k + 1) = Walked(f, i, b) /\ At(f, i, k + 1) = At(f, i, b)
  BY <1>2, <1>3, WalkedSame
<1>5. f[k].form = "indefinite" =>
        /\ Walked(f, i, k) = Append(Walked(f, i, b), Eoc)
        /\ At(f, i, k) = At(f, i, b) + 2
  BY <1>1, <1>2, <1>4, WalkedEoc
<1>6. f[k].form # "indefinite" =>
        /\ Walked(f, i, k) = Walked(f, i, b)
        /\ At(f, i, k) = At(f, i, b)
  <2> SUFFICES ASSUME f[k].form # "indefinite"
               PROVE  /\ Walked(f, i, k) = Walked(f, i, k + 1)
                      /\ At(f, i, k) = At(f, i, k + 1)
    BY <1>4
  <2>1. \A j \in k .. ((k + 1) - 1) :
          j <= i => ~(f[j].form = "indefinite" /\ LastOf(f, j) = i)
    BY <1>2
  <2>2. k <= k + 1
    BY <1>2
  <2> QED
    BY <1>2, <2>1, <2>2, WalkedSame
<1>7. Open(f, i, k) = Open(f, i, b) \ {k}
  <2>1. ASSUME NEW j \in Open(f, i, k) PROVE j \in Open(f, i, b) \ {k}
    <3>1. /\ j \in 1 .. i /\ f[j].form # "primitive"
          /\ LastOf(f, j) > i \/ (LastOf(f, j) = i /\ j < k)
      BY DEF Open
    <3>2. j # k
      BY <1>1, <1>2, <3>1
    <3>3. LastOf(f, j) > i \/ (LastOf(f, j) = i /\ j < b)
      BY <1>1, <1>2, <3>1
    <3> QED
      BY <3>1, <3>2, <3>3 DEF Open
  <2>2. ASSUME NEW j \in Open(f, i, b), j # k PROVE j \in Open(f, i, k)
    <3>1. /\ j \in 1 .. i /\ f[j].form # "primitive"
          /\ LastOf(f, j) > i \/ (LastOf(f, j) = i /\ j < b)
      BY DEF Open
    <3>2. j <= k
      BY <1>1
    <3>3. LastOf(f, j) = i => j < k
      BY <1>2, <2>2, <3>1, <3>2
    <3> QED
      BY <3>1, <3>3 DEF Open
  <2> QED
    BY <2>1, <2>2
<1>8. Ascending(Front(o), Open(f, i, k))
  BY <1>1, <1>2, <1>7, AscendingPop DEF k
<1>9. WalkAt(f, i, k, Front(o))
  BY <1>2, <1>8 DEF WalkAt
<1> QED
  BY <1>1, <1>5, <1>6, <1>7, <1>9 DEF k

(* A node that a walk is inside of has octets left, or ends there: then    *)
(* all that is left is to close those inside of it that end with it.       *)
LEMMA OpenInside ==
  ASSUME NEW f \in AllForests, NEW i \in 0 .. Len(f), NEW b \in 1 .. (i + 1),
         NEW k \in Open(f, i, b)
  PROVE  /\ At(f, i, b) <= At(f, k, k + 1) + Inner(f)[k]
         /\ At(f, i, b) = At(f, k, k + 1) + Inner(f)[k] =>
              /\ LastOf(f, k) = i
              /\ \A j \in Open(f, i, b) : j >= k => f[j].form # "indefinite"
         /\ LastOf(f, k) = i
              /\ (\A j \in k .. (b - 1) :
                     j <= i => ~(f[j].form = "indefinite" /\ LastOf(f, j) = i)) =>
              At(f, i, b) = At(f, k, k + 1) + Inner(f)[k]
<1> DEFINE l == LastOf(f, k)
<1>1. Len(f) \in Nat /\ i \in 0 .. Len(f) /\ b \in 1 .. (i + 1) /\ i \in Nat /\ b \in Nat
      /\ b > 0
  BY NodesTyped
<1>2. /\ k \in 1 .. i /\ k \in 1 .. Len(f) /\ f[k].form # "primitive"
      /\ l > i \/ (l = i /\ k < b)
  BY <1>1 DEF Open
<1>3. l \in 1 .. Len(f) /\ l \in 0 .. Len(f) /\ l \in Nat /\ k \in Nat /\ k + 1 \in Nat
      /\ i \in 1 .. Len(f)
  BY <1>1, <1>2, LastIs DEF IsLast
<1>4. At(f, l, k) = At(f, k, k + 1) + Inner(f)[k]
  BY <1>2, OctetsInside DEF Inside
<1>5. At(f, l, k) \in Nat /\ At(f, i, b) \in Nat
  BY <1>1, <1>3, WalkedTyped
<1> HIDE DEF l
<1>6. CASE l > i
  <2>1. l \in (i + 1) .. Len(f)
    BY <1>1, <1>3, <1>6
  <2>2. At(f, i, b) + 2 <= At(f, l, k)
    BY <1>1, <1>3, <2>1, AtGrows
  <2> QED
    BY <1>1, <1>3, <1>4, <1>5, <1>6, <2>2 DEF l
<1>7. CASE l = i /\ k < b
  <2>1. At(f, i, b) = At(f, i, k) \/ At(f, i, b) + 2 <= At(f, i, k)
    <3>1. k <= b
      BY <1>1, <1>3, <1>7
    <3> QED
      BY <1>1, <1>3, <3>1, AtGrows
  <2>2. At(f, i, k) = At(f, k, k + 1) + Inner(f)[k] /\ At(f, i, k) \in Nat
    BY <1>4, <1>5, <1>7
  <2>3. At(f, i, b) <= At(f, i, k)
    BY <1>5, <2>1, <2>2
  <2>4. ASSUME At(f, i, b) = At(f, i, k), NEW j \in Open(f, i, b), j >= k
        PROVE  f[j].form # "indefinite"
    <3> SUFFICES ASSUME f[j].form = "indefinite" PROVE FALSE
      OBVIOUS
    <3> DEFINE A == Ends(f, i, k)
               B == Ends(f, i, b)
    <3>1. /\ j \in 1 .. i /\ j \in 1 .. Len(f)
          /\ LastOf(f, j) > i \/ (LastOf(f, j) = i /\ j < b)
      BY <1>1 DEF Open
    <3>2. j \in k .. l
      BY <1>3, <1>7, <2>4, <3>1
    <3>3. LastOf(f, j) <= i /\ LastOf(f, j) \in Nat
      BY <1>1, <1>2, <1>7, <3>1, <3>2, Nested, BelowBehind DEF l
    <3>4. LastOf(f, j) = i /\ j < b
      BY <1>1, <3>1, <3>3
    <3>5. j \in A /\ j \notin B
      BY <1>1, <1>3, <2>4, <3>1, <3>4 DEF Ends
    <3>6. B \subseteq A
      BY <1>1, <1>3, <1>7 DEF Ends
    <3>7. IsFiniteSet(A) /\ Cardinality(A) \in Nat /\ Cardinality(B) \in Nat
      BY <1>1, <1>3, EndsFinite
    <3>8. /\ At(f, i, k) = At(f, i, i + 1) + 2 * Cardinality(A)
          /\ At(f, i, b) = At(f, i, i + 1) + 2 * Cardinality(B)
          /\ At(f, i, i + 1) \in Nat
      <4>1. i + 1 \in Nat
        BY <1>1
      <4> QED
        BY <1>1, <1>3, <4>1, AtIs, WalkedTyped
    <3>9. Cardinality(A) = Cardinality(B)
      <4> DEFINE x == Cardinality(A)
                 y == Cardinality(B)
                 z == At(f, i, i + 1)
      <4> HIDE DEF x, y, z
      <4>1. z + 2 * x = z + 2 * y /\ z \in Nat /\ x \in Nat /\ y \in Nat
        BY <2>4, <3>7, <3>8 DEF x, y, z
      <4>2. x = y
        BY <4>1
      <4> QED
        BY <4>2 DEF x, y
    <3>10. A = B
      BY <3>6, <3>7, <3>9, FS_Subset
    <3> QED
      BY <3>5, <3>10
  <2>5. ASSUME \A j \in k .. (b - 1) :
                 j <= i => ~(f[j].form = "indefinite" /\ LastOf(f, j) = i)
        PROVE  At(f, i, b) = At(f, i, k)
    <3>1. k <= b
      BY <1>1, <1>3, <1>7
    <3> QED
      BY <1>1, <1>3, <2>5, <3>1, WalkedSame
  <2> QED
    BY <1>1, <1>7, <2>2, <2>3, <2>4, <2>5 DEF l
<1> QED
  BY <1>2, <1>6, <1>7 DEF l

(* On a walk: the innermost node ends where it has none left. *)
LEMMA WalkInside ==
  ASSUME NEW f \in AllForests, NEW i, NEW b, NEW o, WalkAt(f, i, b, o),
         NEW k \in Open(f, i, b)
  PROVE  /\ At(f, i, b) <= At(f, k, k + 1) + Inner(f)[k]
         /\ At(f, i, b) = At(f, k, k + 1) + Inner(f)[k] =>
              /\ LastOf(f, k) = i
              /\ \A j \in Open(f, i, b) : j >= k => f[j].form # "indefinite"
         /\ k = Last(o) /\ LastOf(f, k) = i /\ f[k].form # "indefinite" =>
              At(f, i, b) = At(f, k, k + 1) + Inner(f)[k]
<1>1. Len(f) \in Nat /\ i \in 0 .. Len(f) /\ b \in 1 .. (i + 1)
  BY NodesTyped DEF WalkAt
<1>2. ASSUME k = Last(o), f[k].form # "indefinite", LastOf(f, k) = i, NEW j \in k .. (b - 1),
             j <= i, f[j].form = "indefinite", LastOf(f, j) = i
      PROVE  FALSE
  <2>1. k \in 1 .. i
    BY <1>1 DEF Open
  <2>2. j \in Open(f, i, b)
    <3>1. j \in 1 .. i /\ j < b /\ f[j].form # "primitive"
      BY <1>1, <1>2, <2>1
    <3> QED
      BY <1>2, <3>1 DEF Open
  <2>3. j <= Last(o)
    <3>1. o # << >>
      BY <2>2, AscendingNone DEF WalkAt
    <3> QED
      BY <2>2, <3>1, WalkTop
  <2>4. j = k
    BY <1>2, <2>1, <2>3
  <2> QED
    BY <1>2, <2>4
<1> QED
  BY <1>1, <1>2, OpenInside

(***************************************************************************)
(* The first trees of a forest                                             *)
(***************************************************************************)
(* The first nodes of a forest are a forest. *)
LEMMA FirstNodes ==
  ASSUME NEW f \in AllForests, NEW i \in 0 .. Len(f)
  PROVE  LET g == SubSeq(f, 1, i)
         IN  g \in AllForests /\ Len(g) = i /\ \A k \in 1 .. i : g[k] = f[k]
<1> DEFINE g == SubSeq(f, 1, i)
<1>1. /\ Len(f) \in Nat /\ IsForest(f) /\ f \in Seq(AnyNode) /\ i \in Nat /\ i <= Len(f)
  BY NodesTyped
<1>2. g \in Seq(AnyNode) /\ Len(g) = i /\ \A k \in 1 .. i : g[k] = f[k]
  BY <1>1
<1> HIDE DEF g
<1>4. IsForest(g)
  <2> SUFFICES ASSUME NEW k \in 1 .. i
               PROVE  g[k].depth <= IF k = 1 THEN 0
                                    ELSE IF g[k - 1].form = "primitive"
                                         THEN g[k - 1].depth ELSE g[k - 1].depth + 1
    BY <1>2 DEF IsForest
  <2>1. k \in 1 .. Len(f)
    BY <1>1
  <2>2. f[k].depth <= IF k = 1 THEN 0
                      ELSE IF f[k - 1].form = "primitive"
                           THEN f[k - 1].depth ELSE f[k - 1].depth + 1
    BY <1>1, <2>1 DEF IsForest
  <2>3. k # 1 => g[k - 1] = f[k - 1]
    BY <1>2
  <2> QED
    BY <1>2, <2>2, <2>3
<1>6. g \in AllForests
  BY <1>2, <1>4 DEF AllForests
<1> QED
  BY <1>2, <1>6 DEF g

(* No node is open behind node i. *)
AllEnd(f, i) == i \in 0 .. Len(f) /\ \A k \in 1 .. i : LastOf(f, k) <= i

(* Then another tree begins. *)
LEMMA NextTree ==
  ASSUME NEW f \in AllForests, NEW i, AllEnd(f, i), i < Len(f)
  PROVE  f[i + 1].depth = 0
<1>1. /\ Len(f) \in Nat /\ IsForest(f) /\ i \in Nat /\ i + 1 \in 1 .. Len(f)
      /\ \A k \in 1 .. Len(f) : f[k].depth \in Nat
      /\ f[1].depth <= 0 /\ 1 \in 1 .. Len(f)
  <2>1. /\ Len(f) \in Nat /\ IsForest(f) /\ i \in Nat /\ i + 1 \in 1 .. Len(f)
        /\ \A k \in 1 .. Len(f) : f[k].depth \in Nat
    BY NodesTyped DEF AllEnd
  <2>2. 1 \in 1 .. Len(f)
    BY <2>1
  <2>3. f[1].depth <= 0
    BY <2>1, <2>2 DEF IsForest
  <2> QED
    BY <2>1, <2>2, <2>3
<1> DEFINE D == f[i + 1].depth
<1> SUFFICES ASSUME D > 0 PROVE FALSE
  BY <1>1
<1>2. D \in Nat
  BY <1>1
<1> DEFINE T == {m \in Nat : m < i /\ f[i - m].depth < D}
<1> HIDE DEF D
<1>3. i # 0 /\ i - (i - 1) = 1
  BY <1>1, <1>2 DEF D
<1>4. T \in SUBSET Nat /\ T # {}
  <2>1. i - 1 \in Nat /\ i - 1 < i /\ f[1].depth < D
    BY <1>1, <1>2, <1>3
  <2>2. i - 1 \in T
    BY <1>3, <2>1
  <2> QED
    BY <2>2
<1>5. PICK m \in T : \A j \in T : m <= j
  <2> HIDE DEF T
  <2> QED
    BY <1>4, Smallest
<1> DEFINE k == i - m
           n == LastOf(f, k)
<1>6. m \in Nat /\ m < i /\ k \in 1 .. i /\ f[k].depth < D /\ k \in 1 .. Len(f)
  BY <1>1, <1>5
<1>7. ASSUME NEW j \in (k + 1) .. i PROVE f[j].depth >= D
  <2> DEFINE e == f[j].depth
  <2>0. j \in 1 .. Len(f) /\ j \in Nat /\ e \in Nat
    <3>1. j \in 1 .. Len(f)
      BY <1>1, <1>6
    <3> QED
      BY <1>1, <3>1
  <2> HIDE DEF e
  <2> SUFFICES ASSUME e < D PROVE FALSE
    BY <1>2, <2>0 DEF e
  <2>1. i - j \in Nat /\ i - j < i /\ i - (i - j) = j /\ i - j < m
    BY <1>1, <1>6
  <2>2. i - j \in T
    BY <2>1 DEF e
  <2> QED
    BY <1>5, <1>6, <2>1, <2>2
<1> HIDE DEF k, T, n
<1>8. IsLast(f, k, n) /\ n <= i
  BY <1>6, LastIs DEF AllEnd, n
<1>9. n \in k .. Len(f) /\ n < Len(f) /\ f[n + 1].depth <= f[k].depth
  BY <1>1, <1>6, <1>8 DEF IsLast
<1>10. n + 1 \in (k + 1) .. i \/ n + 1 = i + 1
  BY <1>1, <1>6, <1>8, <1>9
<1>11. f[n + 1].depth >= D
  BY <1>2, <1>7, <1>10 DEF D
<1>12. n + 1 \in 1 .. Len(f)
  BY <1>1, <1>6, <1>9
<1> QED
  BY <1>1, <1>2, <1>6, <1>9, <1>11, <1>12

(* What was read of the whole forest is the encoding of the first trees. *)
LEMMA FirstTrees ==
  ASSUME NEW f \in AllForests, NEW i, AllEnd(f, i)
  PROVE  /\ SubSeq(f, 1, i) \in AllForests
         /\ Units(SubSeq(f, 1, i)) = Walked(f, i, 1)
<1> DEFINE g == SubSeq(f, 1, i)
<1>1. /\ i \in 0 .. Len(f) /\ i \in Nat /\ Len(f) \in Nat
      /\ \A k \in 1 .. i : k \in 1 .. Len(f) /\ LastOf(f, k) <= i
      /\ \A k \in 1 .. Len(f) : f[k].depth \in Nat
  BY NodesTyped DEF AllEnd
<1>2. g \in AllForests /\ Len(g) = i /\ \A k \in 1 .. i : g[k] = f[k]
  BY <1>1, FirstNodes
<1> HIDE DEF g
<1>3. ASSUME NEW k \in 1 .. i PROVE LastOf(g, k) = LastOf(f, k)
  <2> DEFINE m == LastOf(f, k)
  <2>1. IsLast(f, k, m) /\ m <= i
    BY <1>1, LastIs
  <2> HIDE DEF m
  <2>2. m \in k .. i /\ \A j \in (k + 1) .. m : j \in 1 .. i /\ f[j].depth > f[k].depth
    BY <1>1, <2>1 DEF IsLast
  <2>3. m < i => m + 1 \in 1 .. i /\ f[m + 1].depth <= f[k].depth
    BY <1>1, <2>1 DEF IsLast
  <2>4. IsLast(g, k, m)
    BY <1>2, <2>2, <2>3 DEF IsLast
  <2>5. k \in 1 .. Len(g)
    BY <1>2
  <2> QED
    BY <1>2, <2>4, <2>5, LastUnique DEF m
<1>4. ASSUME NEW k \in 1 .. i, Inner(g)[k] = Inner(f)[k]
      PROVE  HeadOf(g, k) = HeadOf(f, k) /\ Inside(g, k) = Inside(f, k)
  BY <1>2, <1>4, Zenon DEF HeadOf, Inside
<1>5. PICK r : Rests(f, r)
  BY RestsExist
<1>6. PICK s : Rests(g, s)
  BY <1>2, RestsExist
<1> DEFINE Same(k) == /\ Inner(g)[k] = Inner(f)[k]
                      /\ f[k].depth > 0 => s[k] = r[k]
           S == {m \in Nat : \A k \in 1 .. i : k > i - m => Same(k)}
<1>7. 0 \in S
  BY <1>1
<1>8. ASSUME NEW m \in Nat, m \in S PROVE m + 1 \in S
  <2> SUFFICES ASSUME NEW k \in 1 .. i, k > i - (m + 1) PROVE Same(k)
    OBVIOUS
  <2>1. \A j \in (k + 1) .. i : Same(j)
    BY <1>1, <1>8
  <2> HIDE DEF S
  <2> DEFINE n  == LastOf(f, k) + 1
             rf == Span(HeadOf(f, k)) + Inside(f, k)
             rg == Span(HeadOf(g, k)) + Inside(g, k)
             x  == IF f[k].form = "indefinite" THEN 2 ELSE 0
  <2>2. k \in 1 .. Len(f) /\ k \in 1 .. Len(g) /\ g[k] = f[k] /\ LastOf(g, k) = LastOf(f, k)
        /\ LastOf(f, k) <= i
    BY <1>1, <1>2, <1>3
  <2>3. LastOf(f, k) \in Nat /\ LastOf(f, k) >= k
    BY <1>1, <2>2, BelowBehind
  <2>4. /\ n <= Len(f) /\ f[n].depth = f[k].depth => r[k] = rf + r[n]
        /\ ~(n <= Len(f) /\ f[n].depth = f[k].depth) => r[k] = rf
        /\ LastOf(f, k) = k => Inner(f)[k] = x
        /\ LastOf(f, k) > k => Inner(f)[k] = r[k + 1] + x
    BY <1>5, <2>2, RestIs
  <2>5. /\ n <= i /\ g[n].depth = f[k].depth => s[k] = rg + s[n]
        /\ ~(n <= i /\ g[n].depth = f[k].depth) => s[k] = rg
        /\ LastOf(f, k) = k => Inner(g)[k] = x
        /\ LastOf(f, k) > k => Inner(g)[k] = s[k + 1] + x
    <3>1. LET p == LastOf(g, k) + 1
          IN  /\ p <= Len(g) /\ g[p].depth = g[k].depth => s[k] = rg + s[p]
              /\ ~(p <= Len(g) /\ g[p].depth = g[k].depth) => s[k] = rg
              /\ LastOf(g, k) = k => Inner(g)[k] = IF g[k].form = "indefinite" THEN 2 ELSE 0
              /\ LastOf(g, k) > k =>
                   Inner(g)[k] = s[k + 1] + IF g[k].form = "indefinite" THEN 2 ELSE 0
      <4>1. g \in AllForests /\ Rests(g, s) /\ k \in 1 .. Len(g)
        BY <1>2, <1>6, <2>2
      <4> QED
        BY <4>1, RestIs, ZenonT(60)
    <3> QED
      BY <1>2, <2>2, <3>1
  <2>6. Inner(g)[k] = Inner(f)[k]
    <3>1. CASE LastOf(f, k) = k
      BY <2>4, <2>5, <3>1
    <3>2. CASE LastOf(f, k) > k
      <4>1. k + 1 \in (k + 1) .. i /\ k + 1 \in 1 .. Len(f)
        BY <1>1, <2>2, <2>3, <3>2
      <4>2. f[k + 1].depth = f[k].depth + 1
        BY <2>2, <3>2, FirstInside
      <4>3. f[k + 1].depth > 0
        BY <1>1, <2>2, <4>2
      <4>4. s[k + 1] = r[k + 1]
        BY <2>1, <4>1, <4>3
      <4> QED
        BY <2>4, <2>5, <3>2, <4>4
    <3> QED
      BY <2>2, <2>3, <3>1, <3>2
  <2>7. rg = rf
    BY <1>4, <2>6
  <2>8. ASSUME f[k].depth > 0 PROVE s[k] = r[k]
    <3> HIDE DEF rf, rg, x
    <3>1. CASE n <= i
      <4>1. n \in (k + 1) .. i /\ n \in 1 .. i /\ n <= Len(f)
        BY <1>1, <2>2, <2>3, <3>1
      <4>2. g[n] = f[n] /\ Same(n)
        BY <1>2, <2>1, <4>1
      <4> HIDE DEF n
      <4> QED
        BY <2>4, <2>5, <2>7, <2>8, <3>1, <4>1, <4>2
    <3>2. CASE n > i
      <4>1. n = i + 1
        BY <1>1, <2>2, <2>3, <3>2
      <4>2. n <= Len(f) => f[n].depth = 0
        <5>1. n <= Len(f) => i < Len(f)
          BY <1>1, <4>1
        <5> QED
          BY <4>1, <5>1, NextTree
      <4>3. ~(n <= i)
        BY <1>1, <4>1
      <4> HIDE DEF n
      <4>4. ~(n <= Len(f) /\ f[n].depth = f[k].depth)
        BY <2>8, <4>2
      <4> QED
        BY <2>4, <2>5, <2>7, <4>3, <4>4
    <3> QED
      BY <1>1, <2>3, <3>1, <3>2
  <2> QED
    BY <2>6, <2>8
<1>9. \A k \in 1 .. i : Inner(g)[k] = Inner(f)[k]
  <2> HIDE DEF S
  <2>1. \A m \in Nat : m \in S
    BY <1>7, <1>8, Induction
  <2>2. i \in S
    BY <1>1, <2>1
  <2> QED
    BY <1>1, <2>2 DEF S
<1> HIDE DEF S, Same
<1>10. ASSUME NEW k \in 1 .. i
       PROVE  HeadOf(g, k) = HeadOf(f, k) /\ EocsOf(g, k, 1) = EocsOf(f, k, 1)
  <2>1. \A j \in 1 .. k : g[j] = f[j] /\ LastOf(g, j) = LastOf(f, j)
    BY <1>1, <1>2, <1>3
  <2>2. Ends(g, k, 1) = Ends(f, k, 1)
    BY <2>1, Zenon DEF Ends
  <2> QED
    BY <1>4, <1>9, <2>2, Zenon DEF EocsOf
<1> DEFINE U == {m \in Nat : m <= i => Upto(g)[m] = Upto(f)[m]}
<1>11. 0 \in U
  BY <1>2, UptoIs
<1>12. ASSUME NEW m \in Nat, m \in U PROVE m + 1 \in U
  <2> SUFFICES ASSUME m + 1 <= i PROVE Upto(g)[m + 1] = Upto(f)[m + 1]
    OBVIOUS
  <2> DEFINE k == m + 1
  <2>1. k \in 1 .. i /\ k \in 1 .. Len(f) /\ k \in 1 .. Len(g) /\ k - 1 = m
    BY <1>1, <1>2
  <2>2. Upto(g)[m] = Upto(f)[m]
    BY <1>1, <1>12
  <2> HIDE DEF k
  <2>3. Upto(f)[k] = Upto(f)[k - 1] \o <<HeadOf(f, k)>> \o EocsOf(f, k, 1)
    BY <2>1, UptoIs
  <2>4. Upto(g)[k] = Upto(g)[k - 1] \o <<HeadOf(g, k)>> \o EocsOf(g, k, 1)
    BY <1>2, <2>1, UptoIs
  <2>5. HeadOf(g, k) = HeadOf(f, k) /\ EocsOf(g, k, 1) = EocsOf(f, k, 1)
    BY <1>10, <2>1
  <2>6. Upto(g)[k] = Upto(f)[k]
    BY <2>1, <2>2, <2>3, <2>4, <2>5
  <2> QED
    BY <2>6 DEF k
<1>13. Upto(g)[i] = Upto(f)[i]
  <2> HIDE DEF U
  <2>1. \A m \in Nat : m \in U
    BY <1>11, <1>12, Induction
  <2> QED
    BY <1>1, <2>1 DEF U
<1>14. Units(g) = Upto(g)[i]
  BY <1>2, UptoIs
<1>15. Walked(f, i, 1) = Upto(f)[i]
  BY <1>1, WalkedAll
<1> QED
  BY <1>2, <1>13, <1>14, <1>15 DEF g

(***************************************************************************)
(* The other encodings of a forest                                         *)
(***************************************************************************)
(* g has the nodes of f, the constructed ones with another form. *)
Reencodes(f, g, form) ==
  /\ Len(g) = Len(f)
  /\ \A i \in 1 .. Len(f) :
       /\ g[i].depth = f[i].depth
       /\ f[i].form = "primitive" => g[i] = f[i]
       /\ f[i].form # "primitive" => g[i].form = form /\ g[i].extra = 0

(* A constructed node of another form *)
NewForm(v, form) ==
  IF v.form = "primitive" THEN v ELSE [v EXCEPT !.form = form, !.extra = 0]

(* It is a node, and primitive ones stay what they are. *)
LEMMA NewFormIs ==
  ASSUME NEW v \in AnyNode, NEW form \in {"definite", "indefinite"}
  PROVE  /\ NewForm(v, form) \in AnyNode /\ NewForm(v, form).depth = v.depth
         /\ v.form = "primitive" => NewForm(v, form) = v
         /\ v.form # "primitive" =>
              NewForm(v, form).form = form /\ NewForm(v, form).extra = 0
<1> DEFINE w == [v EXCEPT !.form = form, !.extra = 0]
           r == [depth |-> v.depth, form |-> form, extra |-> 0, length |-> v.length]
<1>1. CASE v.form = "primitive"
  BY <1>1 DEF NewForm
<1>2. CASE v.form # "primitive"
  <2>1. v \in [depth : Nat, form : {"definite", "indefinite"}, extra : {0, 1},
               length : {0}]
    BY <1>2 DEF AnyNode
  <2>2. w = r
    <3> DEFINE q == [v EXCEPT !.form = form]
               F == {"definite", "indefinite"}
               D == Nat
               Nodes == [depth : D, form : F, extra : {0, 1}, length : {0}]
    <3>1. w = [q EXCEPT !.extra = 0]
      BY Zenon
    <3>2. v \in Nodes /\ form \in F
      BY <2>1
    <3> HIDE DEF D, F
    <3>3. q \in Nodes /\ q.depth = v.depth /\ q.form = form /\ q.length = v.length
      BY <3>2
    <3> HIDE DEF q
    <3>4. [q EXCEPT !.extra = 0] =
            [depth |-> q.depth, form |-> q.form, extra |-> 0, length |-> q.length]
      BY <3>3
    <3> QED
      BY <3>1, <3>3, <3>4, Zenon
  <2>3. v.depth \in Nat /\ v.length = 0
    BY <2>1
  <2> HIDE DEF w
  <2>4. r \in AnyNode
    <3>1. CASE form = "definite"
      BY <2>3, <3>1 DEF AnyNode
    <3>2. CASE form = "indefinite"
      BY <2>3, <3>2 DEF AnyNode
    <3> QED
      BY <3>1, <3>2
  <2>5. r.depth = v.depth /\ r.form = form /\ r.extra = 0
    OBVIOUS
  <2>6. NewForm(v, form) = w
    BY <1>2, Zenon DEF NewForm, w
  <2> QED
    BY <1>2, <2>2, <2>4, <2>5, <2>6, Zenon
<1> QED
  BY <1>1, <1>2

(* All nodes of a forest in another form are a forest. *)
LEMMA ReencodedIs ==
  ASSUME NEW f \in AllForests, NEW form \in {"definite", "indefinite"}
  PROVE  LET g == [i \in 1 .. Len(f) |-> NewForm(f[i], form)]
         IN  g \in AllForests /\ Reencodes(f, g, form)
<1> DEFINE g == [i \in 1 .. Len(f) |-> NewForm(f[i], form)]
<1>2. Len(f) \in Nat /\ IsForest(f) /\ \A i \in 1 .. Len(f) : f[i] \in AnyNode
  BY NodesTyped
<1> DEFINE n == Len(f)
<1>4. n \in Nat /\ Len(f) = n
  BY <1>2
<1>5. \A i \in 1 .. Len(f) : g[i] = NewForm(f[i], form)
  BY Zenon
<1>6. ASSUME NEW i \in 1 .. Len(f)
      PROVE  /\ g[i] \in AnyNode /\ g[i].depth = f[i].depth
             /\ f[i].form = "primitive" => g[i] = f[i]
             /\ f[i].form # "primitive" => g[i].form = form /\ g[i].extra = 0
             /\ g[i].form = "primitive" <=> f[i].form = "primitive"
  <2> DEFINE v == f[i]
  <2>1. v \in AnyNode /\ g[i] = NewForm(v, form) /\ form # "primitive"
    BY <1>2, <1>5
  <2> HIDE DEF v, g
  <2> QED
    BY <2>1, NewFormIs DEF v
<1>7. g \in Seq(AnyNode) /\ Len(g) = Len(f)
  <2> HIDE DEF n
  <2>1. \A i \in 1 .. n : NewForm(f[i], form) \in AnyNode
    BY <1>4, <1>5, <1>6
  <2> QED
    BY <1>4, <2>1
<1> HIDE DEF g
<1>9. IsForest(g)
  <2>1. ASSUME NEW i \in 1 .. Len(f)
        PROVE  g[i].depth <= IF i = 1 THEN 0
                        ELSE IF g[i - 1].form = "primitive" THEN g[i - 1].depth
                                                            ELSE g[i - 1].depth + 1
    <3>1. f[i].depth <= IF i = 1 THEN 0
                        ELSE IF f[i - 1].form = "primitive" THEN f[i - 1].depth
                                                            ELSE f[i - 1].depth + 1
      BY <1>2, Zenon DEF IsForest
    <3>2. i # 1 => i - 1 \in 1 .. Len(f)
      BY <1>2
    <3>3. /\ g[i].depth = f[i].depth
          /\ i # 1 => /\ g[i - 1].depth = f[i - 1].depth
                      /\ g[i - 1].form = "primitive" <=> f[i - 1].form = "primitive"
      BY <1>6, <3>2
    <3> QED
      BY <3>1, <3>3, Zenon
  <2> QED
    BY <1>7, <2>1, Zenon DEF IsForest
<1>10. g \in AllForests
  BY <1>7, <1>9, Zenon DEF AllForests
<1> QED
  BY <1>6, <1>7, <1>10, Zenon DEF Reencodes, g

(* Those of AsIndefinite() and AsDefinite() are. *)
LEMMA Reencoded ==
  ASSUME NEW f \in AllForests
  PROVE  /\ AsIndefinite(f) \in AllForests /\ Reencodes(f, AsIndefinite(f), "indefinite")
         /\ AsDefinite(f) \in AllForests /\ Reencodes(f, AsDefinite(f), "definite")
BY ReencodedIs, Zenon DEF AsIndefinite, AsDefinite, NewForm

(* A walk is the same in each encoding. *)
LEMMA SameWalk ==
  ASSUME NEW f \in AllForests, NEW g \in AllForests, NEW form, form # "primitive",
         Reencodes(f, g, form)
  PROVE  /\ \A i \in 1 .. Len(f) : LastOf(g, i) = LastOf(f, i)
         /\ \A i, b, o : WalkAt(f, i, b, o) =>
              WalkAt(g, i, b, o) /\ (NoneEnds(f, i, o) <=> NoneEnds(g, i, o))
<1>1. Len(f) \in Nat /\ Len(g) = Len(f)
  BY NodesTyped DEF Reencodes
<1>2. \A i \in 1 .. Len(f) : /\ g[i].depth = f[i].depth
                             /\ g[i].form = "primitive" <=> f[i].form = "primitive"
  BY DEF Reencodes
<1>3. ASSUME NEW i \in 1 .. Len(f) PROVE LastOf(g, i) = LastOf(f, i)
  <2>1. \A j \in (i + 1) .. Len(f) : \A k \in (i + 1) .. j :
          k \in 1 .. Len(f) /\ g[k].depth = f[k].depth
    BY <1>1, <1>2
  <2>2. g[i].depth = f[i].depth
    BY <1>2
  <2>3. Below(g, i) = Below(f, i)
    BY <1>1, <2>1, <2>2 DEF Below
  <2> QED
    BY <2>3, Zenon DEF LastOf
<1>4. ASSUME NEW i, NEW b, NEW o, WalkAt(f, i, b, o)
      PROVE  WalkAt(g, i, b, o) /\ (NoneEnds(f, i, o) <=> NoneEnds(g, i, o))
  <2>1. i \in 0 .. Len(f) /\ b \in 1 .. (i + 1) /\ Ascending(o, Open(f, i, b))
    BY <1>4 DEF WalkAt
  <2>2. \A k \in 1 .. i : k \in 1 .. Len(f)
    BY <1>1, <2>1
  <2>3. Open(g, i, b) = Open(f, i, b)
    BY <1>2, <1>3, <2>2, Zenon DEF Open
  <2>4. WalkAt(g, i, b, o)
    BY <1>1, <2>1, <2>3 DEF WalkAt
  <2>5. o # << >> => Last(o) \in 1 .. Len(f)
    BY <1>4, WalkTop
  <2>6. NoneEnds(f, i, o) <=> NoneEnds(g, i, o)
    BY <1>3, <2>5, Zenon DEF NoneEnds
  <2> QED
    BY <2>4, <2>6
<1> QED
  BY <1>3, <1>4

(* With definite lengths, there is one unit for each node. *)
LEMMA DefiniteUnits ==
  ASSUME NEW g \in AllForests, \A i \in 1 .. Len(g) : g[i].form # "indefinite"
  PROVE  /\ Units(g) \in Seq(EncodedUnit) /\ Units(g) \in Seq(Unit)
         /\ Len(Units(g)) = Len(g)
         /\ \A i \in 1 .. Len(g) : Units(g)[i] = HeadOf(g, i)
         /\ \A i \in 0 .. Len(g), b \in Nat :
              b >= 1 => /\ Walked(g, i, b) = SubSeq(Units(g), 1, i)
                        /\ At(g, i, b) = SpanOf(SubSeq(Units(g), 1, i))
<1> DEFINE N == Len(g)
           T == EncodedUnit
           h(i) == [j \in 1 .. i |-> HeadOf(g, j)]
           S == {n \in Nat : n <= N => Upto(g)[n] = h(n)}
<1>1. N \in Nat /\ N \in 0 .. N
  BY NodesTyped
<1>2. ASSUME NEW i \in 1 .. N, NEW b \in Nat, b >= 1
      PROVE  EocsOf(g, i, b) = << >>
  <2>1. Ends(g, i, b) = {}
    BY <1>1, <1>2 DEF Ends
  <2>2. Cardinality(Ends(g, i, b)) = 0
    BY <2>1, FS_EmptySet, Zenon
  <2>3. EocsOf(g, i, b) = [n \in 1 .. 0 |-> Eoc]
    BY <2>2, Zenon DEF EocsOf
  <2> QED
    BY <2>3
<1>3. \A i \in 1 .. N : HeadOf(g, i) \in T
  BY HeadTyped
<1>4. 0 \in S
  BY UptoIs
<1>5. ASSUME NEW n \in Nat, n \in S PROVE n + 1 \in S
  <2> SUFFICES ASSUME n + 1 <= N PROVE Upto(g)[n + 1] = h(n + 1)
    OBVIOUS
  <2> DEFINE k == n + 1
             x == HeadOf(g, k)
  <2>1. k \in 1 .. N /\ k - 1 = n /\ 1 \in Nat
    BY <1>1
  <2>2. Upto(g)[k] = Upto(g)[k - 1] \o <<HeadOf(g, k)>> \o EocsOf(g, k, 1)
    BY <2>1, UptoIs
  <2>3. EocsOf(g, k, 1) = << >>
    BY <1>2, <2>1
  <2>4. Upto(g)[n] = h(n)
    BY <1>1, <1>5, <2>1
  <2>5. Upto(g)[k] = h(n) \o <<x>> \o << >>
    BY <2>1, <2>2, <2>3, <2>4
  <2>6. \A j \in 1 .. n : j \in 1 .. N
    BY <1>1, <2>1
  <2>7. h(n) \in Seq(T) /\ x \in T
    <3>1. x \in T /\ \A j \in 1 .. n : HeadOf(g, j) \in T
      BY <1>3, <2>1, <2>6
    <3> HIDE DEF T, x, N
    <3> QED
      BY <3>1
  <2> DEFINE y == h(n)
  <2>8. y \in Seq(T) /\ Len(y) = n /\ \A j \in 1 .. n : y[j] = HeadOf(g, j)
    BY <2>7
  <2> HIDE DEF x, y, T
  <2>9. y \o <<x>> \o << >> = Append(y, x)
    BY <2>7, <2>8
  <2> DEFINE z == h(n + 1)
             a == Append(y, x)
  <2>10. z \in Seq(T) /\ Len(z) = n + 1 /\ \A j \in 1 .. (n + 1) : z[j] = HeadOf(g, j)
    <3>1. \A j \in 1 .. (n + 1) : HeadOf(g, j) \in T
      BY <1>1, <1>3
    <3> QED
      BY <3>1
  <2>11. a \in Seq(T) /\ Len(a) = n + 1 /\ \A j \in 1 .. (n + 1) : a[j] = HeadOf(g, j)
    <3>1. a \in Seq(T) /\ Len(a) = n + 1 /\ a[n + 1] = x /\ \A j \in 1 .. n : a[j] = y[j]
      BY <2>7, <2>8
    <3>2. \A j \in 1 .. (n + 1) : j \in 1 .. n \/ j = n + 1
      OBVIOUS
    <3> HIDE DEF a
    <3> QED
      BY <2>8, <3>1, <3>2 DEF x
  <2> HIDE DEF z, a
  <2>12. a = z
    BY <2>10, <2>11, SameElements
  <2> QED
    BY <2>5, <2>9, <2>12 DEF y, z, a
<1> HIDE DEF S
<1>6. \A n \in Nat : n \in S
  BY <1>4, <1>5, Induction
<1>7. \A i \in 0 .. N : Upto(g)[i] = h(i)
  BY <1>1, <1>6 DEF S
<1>8. Units(g) = h(N)
  BY <1>1, <1>7, UptoIs
<1>9. /\ Units(g) \in Seq(T) /\ Len(Units(g)) = N
      /\ \A i \in 1 .. N : Units(g)[i] = HeadOf(g, i)
  BY <1>1, <1>3, <1>8
<1>10. ASSUME NEW i \in 0 .. N
       PROVE  Upto(g)[i] = SubSeq(Units(g), 1, i)
  <2> DEFINE u == Units(g)
  <2>1. u \in Seq(T) /\ Len(u) = N /\ \A j \in 1 .. N : u[j] = HeadOf(g, j)
    BY <1>9
  <2>2. i <= N /\ i \in Nat /\ \A j \in 1 .. i : j \in 1 .. N
    BY <1>1
  <2>3. Upto(g)[i] = h(i)
    BY <1>7
  <2> HIDE DEF u, N
  <2>4. SubSeq(u, 1, i) = [j \in 1 .. i |-> u[j]]
    BY <2>1, <2>2
  <2>5. SubSeq(u, 1, i) = h(i)
    BY <2>1, <2>2, <2>4
  <2> QED
    BY <2>3, <2>5 DEF u
<1>11. ASSUME NEW i \in 0 .. N, NEW b \in Nat, b >= 1
       PROVE  Walked(g, i, b) = Walked(g, i, 1)
  <2>1. CASE i = 0
    BY <2>1, Zenon DEF Walked
  <2>2. CASE i # 0
    <3>1. i \in 1 .. N /\ 1 \in Nat /\ 1 >= 1
      BY <1>1, <2>2
    <3>2. EocsOf(g, i, b) = EocsOf(g, i, 1)
      BY <1>2, <1>11, <3>1
    <3> QED
      BY <3>2, Zenon DEF Walked
  <2> QED
    BY <2>1, <2>2
<1>12. \A i \in 0 .. N : Walked(g, i, 1) = Upto(g)[i]
  BY WalkedAll
<1>13. \A i \in 0 .. N, b \in Nat :
         b >= 1 => Walked(g, i, b) = SubSeq(Units(g), 1, i)
  BY <1>10, <1>11, <1>12, Zenon
<1>14. Units(g) \in Seq(Unit)
  <2>1. \A x \in T : x \in Unit
    BY EncodedParts
  <2> QED
    BY <1>9, <2>1
<1> QED
  BY <1>9, <1>13, <1>14, Zenon DEF At

(* Then a length counts the units inside of the node. *)
LEMMA DefiniteInside ==
  ASSUME NEW g \in AllForests, \A i \in 1 .. Len(g) : g[i].form # "indefinite",
         NEW k \in 1 .. Len(g), g[k].form # "primitive"
  PROVE  SpanOf(SubSeq(Units(g), k + 1, LastOf(g, k))) = Inner(g)[k]
<1> DEFINE l == LastOf(g, k)
           u == Units(g)
           s == SubSeq(u, 1, k)
           t == SubSeq(u, k + 1, l)
<1>1. Len(g) \in Nat /\ l \in k .. Len(g)
  BY NodesTyped, LastIs DEF IsLast
<1>2. At(g, l, k) = At(g, k, k + 1) + Inner(g)[k]
  BY OctetsInside, Zenon DEF Inside
<1>3. /\ k \in Nat /\ k >= 1 /\ k + 1 \in Nat /\ k + 1 >= 1
      /\ k \in 0 .. Len(g) /\ l \in 0 .. Len(g)
  BY <1>1
<1>4. /\ At(g, l, k) = SpanOf(SubSeq(u, 1, l)) /\ At(g, k, k + 1) = SpanOf(s)
      /\ u \in Seq(Unit) /\ Len(u) = Len(g)
  BY <1>3, DefiniteUnits
<1> HIDE DEF l, u
<1>5. s \in Seq(Unit) /\ t \in Seq(Unit) /\ SubSeq(u, 1, l) = s \o t
  <2>1. /\ k \in Nat /\ l \in Nat /\ 1 \in Nat /\ 1 <= 1 /\ 1 <= k + 1 /\ k <= l
        /\ l <= Len(u) /\ k + 1 \in Nat /\ k + 1 <= l + 1 /\ k <= Len(u)
    BY <1>1, <1>4
  <2>2. s \in Seq(Unit) /\ t \in Seq(Unit)
    BY <1>4, <2>1, SubSeqElements
  <2>3. s \o t = SubSeq(u, 1, l)
    BY <1>4, <2>1, SubSeqJoined
  <2> QED
    BY <2>2, <2>3
<1>6. SpanOf(s \o t) = SpanOf(s) + SpanOf(t)
  <2> HIDE DEF s, t
  <2> QED
    BY <1>5, SpanOfConcat
<1>7. SpanOf(s) \in Nat /\ SpanOf(t) \in Nat /\ Inner(g)[k] \in Nat
  <2> HIDE DEF s, t
  <2> QED
    BY <1>5, RightIs, HeadTyped
<1>8. SpanOf(s) + SpanOf(t) = SpanOf(s) + Inner(g)[k]
  BY <1>2, <1>4, <1>5, <1>6, Zenon
<1> HIDE DEF s, t
<1>9. SpanOf(t) = Inner(g)[k]
  BY <1>7, <1>8
<1> QED
  BY <1>9 DEF t, u, l

(***************************************************************************)
(* Where the nodes begin in an encoding                                    *)
(***************************************************************************)
Begin(f, k) == Len(Walked(f, k, k + 1))

(* The units of node i are its first one and EOCs. *)
LEMMA WalkedElements ==
  ASSUME NEW f \in AllForests, NEW i \in 1 .. Len(f), NEW b \in Nat
  PROVE  LET u == Upto(f)[i - 1]
             w == Walked(f, i, b)
         IN  /\ Len(u) \in Nat /\ Len(w) \in Nat /\ Len(w) >= Len(u) + 1
             /\ \A x \in 1 .. Len(u) : w[x] = u[x]
             /\ w[Len(u) + 1] = HeadOf(f, i)
             /\ \A x \in (Len(u) + 2) .. Len(w) : w[x] = Eoc
             /\ Begin(f, i) = Len(u) + 1
<1> DEFINE u == Upto(f)[i - 1]
           w == Walked(f, i, b)
           T == EncodedUnit
           h == HeadOf(f, i)
           e == EocsOf(f, i, b)
           n == Cardinality(Ends(f, i, b))
<1>1. Len(f) \in Nat /\ i - 1 \in 0 .. Len(f) /\ i # 0 /\ i \in Nat
  BY NodesTyped
<1>2. u \in Seq(T) /\ h \in T /\ w = u \o <<h>> \o e
  BY <1>1, UptoIs, HeadTyped, Zenon DEF Walked
<1>3. e \in Seq(T) /\ Len(e) = n /\ n \in Nat /\ \A x \in 1 .. n : e[x] = Eoc
  <2>1. e = [x \in 1 .. n |-> Eoc]
    BY Zenon DEF EocsOf
  <2>2. e \in Seq(T) /\ Len(e) = n /\ n \in Nat
    BY <1>1, EndsFinite
  <2> HIDE DEF n, e
  <2> QED
    BY <2>1, <2>2
<1>4. Begin(f, i) = Len(u) + 1
  <2>1. Walked(f, i, i + 1) = Append(Walked(f, i - 1, 1), h) /\ Walked(f, i - 1, 1) = u
    BY <1>1, WalkedHead, WalkedAll
  <2>2. Walked(f, i, i + 1) = Append(u, h)
    BY <2>1, Zenon
  <2> HIDE DEF u, h
  <2>3. Len(Append(u, h)) = Len(u) + 1
    BY <1>2
  <2> QED
    BY <2>2, <2>3, Zenon DEF Begin
<1> HIDE DEF u, w, h, e, n, T
<1> DEFINE v == u \o <<h>>
<1>5. v \in Seq(T) /\ Len(v) = Len(u) + 1 /\ v[Len(u) + 1] = h /\ Len(u) \in Nat
      /\ \A x \in 1 .. Len(u) : v[x] = u[x]
  BY <1>2
<1>6. w = v \o e
  BY <1>2
<1> HIDE DEF v
<1>7. /\ w \in Seq(T) /\ Len(w) = Len(v) + n
      /\ \A x \in 1 .. Len(v) : w[x] = v[x]
      /\ \A x \in 1 .. n : w[Len(v) + x] = e[x]
  <2>1. v \in Seq(T) /\ e \in Seq(T)
    BY <1>3, <1>5
  <2>2. /\ v \o e \in Seq(T) /\ Len(v \o e) = Len(v) + Len(e)
        /\ \A x \in 1 .. Len(v) : (v \o e)[x] = v[x]
        /\ \A x \in 1 .. Len(e) : (v \o e)[Len(v) + x] = e[x]
    BY <2>1
  <2> QED
    BY <1>3, <1>6, <2>2, Zenon
<1>8. ASSUME NEW x \in (Len(u) + 2) .. Len(w)
      PROVE  w[x] = Eoc
  <2> DEFINE y == x - (Len(u) + 1)
  <2>1. y \in 1 .. n /\ x = Len(v) + y
    BY <1>3, <1>5, <1>7
  <2> HIDE DEF y
  <2> QED
    BY <1>3, <1>7, <2>1
<1>9. /\ Len(w) \in Nat /\ Len(w) >= Len(u) + 1
      /\ \A x \in 1 .. Len(u) : w[x] = u[x]
      /\ w[Len(u) + 1] = h
  <2>1. Len(w) = Len(u) + 1 + n
    BY <1>5, <1>7
  <2>2. Len(u) + 1 \in 1 .. Len(v) /\ \A x \in 1 .. Len(u) : x \in 1 .. Len(v)
    BY <1>5
  <2> QED
    BY <1>3, <1>5, <1>7, <2>1, <2>2
<1> QED
  BY <1>4, <1>5, <1>8, <1>9 DEF u, w, h

(* Nodes begin one behind the other. *)
LEMMA BeginsGrow ==
  ASSUME NEW f \in AllForests, NEW i \in 1 .. Len(f), NEW b \in Nat, NEW k \in 1 .. i
  PROVE  /\ k \in 1 .. Len(f) /\ Begin(f, k) \in 1 .. Len(Walked(f, i, b))
         /\ k < i => Begin(f, k) < Begin(f, i) /\ Begin(f, k) <= Len(Upto(f)[i - 1])
<1>1. Len(f) \in Nat /\ i \in Nat /\ k \in 1 .. Len(f) /\ k \in Nat /\ 1 \in Nat
      /\ i - 1 \in 0 .. Len(f) /\ k \in 0 .. Len(f)
  BY NodesTyped
<1>2. /\ Len(Upto(f)[i - 1]) \in Nat /\ Len(Walked(f, i, b)) \in Nat
      /\ Len(Walked(f, i, b)) >= Len(Upto(f)[i - 1]) + 1
      /\ Begin(f, i) = Len(Upto(f)[i - 1]) + 1
  BY WalkedElements
<1>3. /\ Len(Upto(f)[k - 1]) \in Nat /\ Begin(f, k) = Len(Upto(f)[k - 1]) + 1
      /\ Len(Walked(f, k, 1)) \in Nat
      /\ Len(Walked(f, k, 1)) >= Len(Upto(f)[k - 1]) + 1
  BY <1>1, WalkedElements
<1>4. ASSUME k < i
      PROVE  Begin(f, k) <= Len(Upto(f)[i - 1])
  <2>1. i - 1 \in k .. Len(f)
    BY <1>1, <1>4
  <2>2. IsPrefix(Upto(f)[k], Upto(f)[i - 1])
    BY <1>1, <2>1, UptoPrefix
  <2>3. Upto(f)[k] \in Seq(EncodedUnit) /\ Upto(f)[i - 1] \in Seq(EncodedUnit)
        /\ Walked(f, k, 1) = Upto(f)[k]
    BY <1>1, UptoIs, WalkedAll
  <2>4. Len(Upto(f)[k]) <= Len(Upto(f)[i - 1])
    BY <2>2, <2>3, PrefixIs
  <2> QED
    BY <1>2, <1>3, <2>3, <2>4, SMTT(40)
<1> QED
  BY <1>1, <1>2, <1>3, <1>4, SMTT(40)

(* A unit that is not primitive is the first one of a node. *)
LEMMA HeadsFound ==
  ASSUME NEW f \in AllForests, NEW i \in 0 .. Len(f), NEW b \in Nat,
         NEW x \in 1 .. Len(Walked(f, i, b)), Walked(f, i, b)[x].shape = "constructed"
  PROVE  \E k \in 1 .. i : x = Begin(f, k)
<1> DEFINE N == Len(f)
           S == {n \in Nat : n <= N =>
                   \A y \in 1 .. Len(Upto(f)[n]) :
                     Upto(f)[n][y].shape = "constructed" =>
                       \E k \in 1 .. n : y = Begin(f, k)}
<1>1. N \in Nat /\ i \in Nat
  BY NodesTyped
<1>2. ASSUME NEW n \in 1 .. N, NEW c \in Nat, n - 1 \in S,
             NEW y \in 1 .. Len(Walked(f, n, c)),
             Walked(f, n, c)[y].shape = "constructed"
      PROVE  \E k \in 1 .. n : y = Begin(f, k)
  <2> DEFINE u == Upto(f)[n - 1]
             w == Walked(f, n, c)
  <2>1. /\ Len(u) \in Nat /\ Len(w) \in Nat
        /\ \A z \in 1 .. Len(u) : w[z] = u[z]
        /\ \A z \in (Len(u) + 2) .. Len(w) : w[z] = Eoc
        /\ Begin(f, n) = Len(u) + 1
    BY WalkedElements
  <2>2. n - 1 <= N /\ n \in 1 .. n /\ \A k \in 1 .. (n - 1) : k \in 1 .. n
    BY <1>1
  <2>3. \A z \in 1 .. Len(u) : u[z].shape = "constructed" =>
          \E k \in 1 .. (n - 1) : z = Begin(f, k)
    BY <1>2, <2>2
  <2>4. Eoc.shape # "constructed"
    BY DEF Eoc
  <2> HIDE DEF u, w, S
  <2>5. y \in 1 .. Len(u) \/ y = Len(u) + 1 \/ y \in (Len(u) + 2) .. Len(w)
    BY <2>1 DEF w
  <2> QED
    BY <1>2, <2>1, <2>2, <2>3, <2>4, <2>5 DEF w
<1>3. 0 \in S
  <2>1. Len(Upto(f)[0]) = 0
    BY UptoIs
  <2> QED
    BY <2>1
<1>4. ASSUME NEW n \in Nat, n \in S PROVE n + 1 \in S
  <2> SUFFICES ASSUME n + 1 <= N, NEW y \in 1 .. Len(Upto(f)[n + 1]),
                      Upto(f)[n + 1][y].shape = "constructed"
               PROVE  \E k \in 1 .. (n + 1) : y = Begin(f, k)
    OBVIOUS
  <2>1. n + 1 \in 1 .. N /\ (n + 1) - 1 = n /\ n + 1 \in 0 .. N /\ 1 \in Nat
    BY <1>1
  <2>2. Upto(f)[n + 1] = Walked(f, n + 1, 1)
    BY <2>1, WalkedAll
  <2>3. (n + 1) - 1 \in S
    BY <1>4, <2>1, Zenon
  <2>4. y \in 1 .. Len(Walked(f, n + 1, 1)) /\ Walked(f, n + 1, 1)[y].shape = "constructed"
    BY <2>2, Zenon
  <2> HIDE DEF S
  <2> QED
    BY <1>2, <2>1, <2>3, <2>4, Zenon
<1> HIDE DEF S
<1>5. \A n \in Nat : n \in S
  BY <1>3, <1>4, Induction
<1>6. i # 0
  BY DEF Walked
<1>7. i \in 1 .. N /\ i - 1 \in S
  BY <1>1, <1>5, <1>6
<1> QED
  BY <1>2, <1>7

(* What was read behind the first unit of a node *)
LEMMA ReadInside ==
  ASSUME NEW f \in AllForests, NEW i \in 1 .. Len(f), NEW b \in Nat, b >= 1, NEW k \in 1 .. i
  PROVE  LET w == Walked(f, i, b)
         IN  /\ w[Begin(f, k)] = HeadOf(f, k)
             /\ SpanOf(SubSeq(w, Begin(f, k) + 1, Len(w))) \in Nat
             /\ At(f, i, b) = At(f, k, k + 1)
                                + SpanOf(SubSeq(w, Begin(f, k) + 1, Len(w)))
<1> DEFINE w == Walked(f, i, b)
           v == Walked(f, k, k + 1)
           n == Begin(f, k)
           all == Units(f)
           T == EncodedUnit
<1>1. Len(f) \in Nat /\ k \in 1 .. Len(f) /\ k \in 0 .. Len(f) /\ i \in 0 .. Len(f)
      /\ k + 1 \in Nat /\ k + 1 >= 1
  BY NodesTyped
<1>2. /\ IsPrefix(w, all) /\ IsPrefix(v, all) /\ all \in Seq(T)
      /\ w \in Seq(T) /\ v \in Seq(T)
  BY <1>1, WalkedPrefix, WalkedTyped
<1>3. n \in 1 .. Len(w)
  BY BeginsGrow
<1>4. n = Len(v)
  BY DEF Begin
<1>5. v[n] = HeadOf(f, k)
  <2>1. n = Len(Upto(f)[k - 1]) + 1 /\ v[Len(Upto(f)[k - 1]) + 1] = HeadOf(f, k)
    BY <1>1, WalkedElements
  <2> QED
    BY <2>1, Zenon
<1>6. \A u \in T : u \in Unit
  BY EncodedParts
<1>7. SpanOf(w) = At(f, i, b) /\ SpanOf(v) = At(f, k, k + 1)
  BY Zenon DEF At
<1> HIDE DEF w, v, n, all, T
<1>8. /\ Len(w) <= Len(all) /\ \A x \in 1 .. Len(w) : w[x] = all[x]
      /\ Len(v) <= Len(all) /\ \A x \in 1 .. Len(v) : v[x] = all[x]
  BY <1>2, PrefixIs
<1>9. /\ n \in Nat /\ n >= 1 /\ n <= Len(w) /\ Len(w) \in Nat
      /\ \A x \in 1 .. n : x \in 1 .. Len(w)
  BY <1>2, <1>3
<1>10. \A x \in 1 .. n : v[x] = w[x]
  BY <1>4, <1>8, <1>9
<1> DEFINE t == SubSeq(w, n + 1, Len(w))
<1>11. t \in Seq(T) /\ v \o t = w
  <2>1. SubSeq(w, 1, n) = v
    <3> DEFINE r == SubSeq(w, 1, n)
    <3>1. r \in Seq(T) /\ Len(r) = n /\ \A x \in 1 .. n : r[x] = w[x]
      BY <1>2, <1>9
    <3> HIDE DEF r
    <3>2. r = v
      BY <1>2, <1>4, <1>10, <3>1, SameElements
    <3> QED
      BY <3>2 DEF r
  <2>2. SubSeq(w, 1, n) \o SubSeq(w, n + 1, Len(w)) = SubSeq(w, 1, Len(w))
    BY <1>2, <1>9, SubSeqJoined
  <2>3. SubSeq(w, 1, Len(w)) = w
    BY <1>2
  <2>4. t \in Seq(T)
    <3>1. n + 1 \in Nat /\ 1 <= n + 1 /\ n + 1 <= Len(w) + 1 /\ Len(w) <= Len(w)
      BY <1>9
    <3> QED
      BY <1>2, <1>9, <3>1, SubSeqElements
  <2> QED
    BY <2>1, <2>2, <2>3, <2>4
<1> HIDE DEF t
<1>12. v \in Seq(Unit) /\ t \in Seq(Unit)
  BY <1>2, <1>6, <1>11
<1>13. SpanOf(w) = SpanOf(v) + SpanOf(t) /\ SpanOf(t) \in Nat
  BY <1>11, <1>12, SpanOfConcat, RightIs
<1>14. w[n] = HeadOf(f, k)
  BY <1>5, <1>9, <1>10
<1> QED
  BY <1>7, <1>13, <1>14 DEF w, n, t

(***************************************************************************)
(* The parts of a header                                                   *)
(***************************************************************************)
(* A header with all of its parts *)
Record(shape, eoc, indefinite, tl, length) ==
  [shape |-> shape, eoc |-> eoc, indefinite |-> indefinite, tl |-> tl,
   length |-> length]

No == FALSE

Yes == TRUE

(* A header with another form of length *)
SetForm(u, e) == [u EXCEPT !.indefinite = e]

(* One part of a header changes. *)
LEMMA RecordParts ==
  ASSUME NEW s, NEW c, NEW e, NEW t, NEW l, NEW u, u = Record(s, c, e, t, l)
  PROVE  /\ \A d : SetForm(u, d) = Record(s, c, d, t, l)
         /\ \A n : SetTl(u, n) = Record(s, c, e, n, l)
         /\ \A n : SetLength(u, n) = Record(s, c, e, t, n)
         /\ u.shape = s /\ u.eoc = c /\ u.indefinite = e /\ u.tl = t /\ u.length = l
<1>1. ASSUME NEW d PROVE SetForm(u, d) = Record(s, c, d, t, l)
  BY DEF SetForm, Record
<1>2. ASSUME NEW n PROVE SetTl(u, n) = Record(s, c, e, n, l)
  BY DEF SetTl, Record
<1>3. ASSUME NEW n PROVE SetLength(u, n) = Record(s, c, e, t, n)
  BY DEF SetLength, Record
<1>4. u.shape = s /\ u.eoc = c /\ u.indefinite = e /\ u.tl = t /\ u.length = l
  BY DEF Record
<1> QED
  BY <1>1, <1>2, <1>3, <1>4

(* The headers of a forest as records *)
LEMMA HeadIs ==
  ASSUME NEW f \in AllForests, NEW i \in 1 .. Len(f)
  PROVE  /\ f[i].form \in {"primitive", "definite", "indefinite"}
         /\ f[i].form = "primitive" =>
              HeadOf(f, i) = Record("primitive", No, No,
                                    MinimalTl(f[i].length) + f[i].extra, f[i].length)
         /\ f[i].form = "definite" =>
              HeadOf(f, i) = Record("constructed", No, No,
                                    MinimalTl(Inner(f)[i]) + f[i].extra, Inner(f)[i])
         /\ f[i].form = "indefinite" =>
              HeadOf(f, i) = Record("constructed", No, Yes, MinimalTl(0) + f[i].extra, 0)
<1>1. f[i].form \in {"primitive", "definite", "indefinite"}
  BY ForestTyped DEF Forms
<1>2. CASE f[i].form = "primitive"
  BY <1>2 DEF HeadOf, UnitOf, Record, No, Yes
<1>3. CASE f[i].form = "definite"
  BY <1>3 DEF HeadOf, UnitOf, Record, No, Yes
<1>4. CASE f[i].form = "indefinite"
  BY <1>4 DEF HeadOf, UnitOf, Record, No, Yes
<1> QED
  BY <1>1, <1>2, <1>3, <1>4

(* What the converters look at in a header *)
LEMMA HeadParts ==
  ASSUME NEW f \in AllForests, NEW i \in 1 .. Len(f)
  PROVE  LET h == HeadOf(f, i)
         IN  /\ h \in EncodedUnit /\ h \in Unit /\ ~h.eoc
             /\ h.tl \in Nat /\ h.length \in Nat /\ Inner(f)[i] \in Nat
             /\ f[i].form = "primitive" =>
                  h.shape = "primitive" /\ Span(h) = h.tl + h.length
             /\ f[i].form # "primitive" =>
                  /\ h.shape = "constructed" /\ Span(h) = h.tl
                  /\ h.indefinite <=> f[i].form = "indefinite"
                  /\ f[i].form = "definite" <=> ~h.indefinite
             /\ f[i].form = "definite" => h.length = Inner(f)[i]
<1> DEFINE h == HeadOf(f, i)
<1>1. h \in EncodedUnit /\ Inner(f)[i] \in Nat
  BY HeadTyped
<1>2. h \in Unit /\ h.tl \in Nat /\ h.length \in Nat
  BY <1>1, EncodedParts
<1>3. f[i].form \in {"primitive", "definite", "indefinite"}
  BY HeadIs
<1>4. CASE f[i].form = "primitive"
  <2>1. h.shape = "primitive" /\ h.eoc = No
    BY <1>4, HeadIs DEF Record, No, Yes
  <2> QED
    BY <1>1, <1>2, <1>4, <2>1 DEF Span, No, Yes
<1>5. CASE f[i].form = "definite"
  <2>1. /\ h.shape = "constructed" /\ h.eoc = No /\ h.indefinite = No
        /\ h.length = Inner(f)[i]
    BY <1>5, HeadIs DEF Record, No, Yes
  <2> QED
    BY <1>1, <1>2, <1>5, <2>1 DEF Span, No, Yes
<1>6. CASE f[i].form = "indefinite"
  <2>1. h.shape = "constructed" /\ h.eoc = No /\ h.indefinite = Yes
    BY <1>6, HeadIs DEF Record, No, Yes
  <2> QED
    BY <1>1, <1>2, <1>6, <2>1 DEF Span, No, Yes
<1> QED
  BY <1>3, <1>4, <1>5, <1>6

(* Superfluous octets are in definite lengths only. *)
LEMMA NoExtra ==
  ASSUME NEW f \in AllForests, NEW i \in 1 .. Len(f), f[i].form = "indefinite"
  PROVE  f[i].extra = 0
<1>1. f[i] \in AnyNode
  BY NodesTyped
<1> QED
  BY <1>1 DEF AnyNode

(***************************************************************************)
(* Counters of a walk                                                      *)
(***************************************************************************)
(* The octets that are read when the content of the definite tag that      *)
(* entry n of the counters stands for begins; the first stands for none.   *)
ContentFrom(f, d, n) == IF n = 1 THEN 0 ELSE At(f, d[n - 1], d[n - 1] + 1)

(* After p octets the counters hold the lengths of the definite tags d,    *)
(* which are those of inner, and what was read of each in front of the     *)
(* next one.                                                               *)
CountingOf(f, inner, d, ls, ws, p) ==
  /\ d \in Seq(Nat) /\ \A n \in 1 .. Len(d) : d[n] \in 1 .. Len(f)
  /\ ls \in Seq(Nat) /\ ws \in Seq(Nat) /\ p \in Nat
  /\ Len(ls) = Len(d) + 1 /\ Len(ws) = Len(d) + 1 /\ ls[1] = 0
  /\ \A n \in 1 .. Len(d) : ls[n + 1] = inner[d[n]]
  /\ \A n \in 1 .. Len(d) : ws[n] = At(f, d[n], d[n] + 1) - ContentFrom(f, d, n)
  /\ ws[Len(d) + 1] = p - ContentFrom(f, d, Len(d) + 1)

(* as they are in the forest *)
Counting(f, d, ls, ws, p) == CountingOf(f, Inner(f), d, ls, ws, p)

(* The octets in front of a content *)
LEMMA ContentTyped ==
  ASSUME NEW f \in AllForests, NEW d \in Seq(Nat), \A n \in 1 .. Len(d) : d[n] \in 1 .. Len(f)
  PROVE  /\ \A n \in 1 .. (Len(d) + 1) : ContentFrom(f, d, n) \in Nat
         /\ \A n \in 1 .. Len(d) : At(f, d[n], d[n] + 1) \in Nat
<1>1. ASSUME NEW n \in 1 .. Len(d) PROVE At(f, d[n], d[n] + 1) \in Nat
  <2>1. d[n] \in 1 .. Len(f) /\ d[n] \in 0 .. Len(f) /\ d[n] + 1 \in Nat
    OBVIOUS
  <2> QED
    BY <2>1, WalkedTyped
<1>2. ASSUME NEW n \in 1 .. (Len(d) + 1) PROVE ContentFrom(f, d, n) \in Nat
  <2>1. CASE n = 1
    BY <2>1 DEF ContentFrom
  <2>2. CASE n # 1
    <3>1. n - 1 \in 1 .. Len(d)
      BY <2>2
    <3> QED
      BY <1>1, <2>2, <3>1 DEF ContentFrom
  <2> QED
    BY <2>1, <2>2
<1> QED
  BY <1>1, <1>2

(* written_stack.back() += n *)
LEMMA CountMore ==
  ASSUME NEW f \in AllForests, NEW inner \in [1 .. Len(f) -> Nat],
         NEW d, NEW ls, NEW ws, NEW p, CountingOf(f, inner, d, ls, ws, p),
         NEW n \in Nat
  PROVE  CountingOf(f, inner, d, ls, AddToTop(ws, n), p + n)
<1> DEFINE vs == AddToTop(ws, n)
<1>1. /\ d \in Seq(Nat) /\ ws \in Seq(Nat) /\ p \in Nat /\ Len(d) \in Nat
      /\ Len(ws) = Len(d) + 1
      /\ ws[Len(d) + 1] = p - ContentFrom(f, d, Len(d) + 1)
  BY DEF CountingOf
<1>2. /\ vs \in Seq(Nat) /\ Len(vs) = Len(ws)
      /\ \A m \in 1 .. Len(d) : vs[m] = ws[m]
      /\ vs[Len(d) + 1] = ws[Len(d) + 1] + n
  BY <1>1 DEF AddToTop
<1>3. ContentFrom(f, d, Len(d) + 1) \in Nat
  <2>1. \A m \in 1 .. Len(d) : d[m] \in 1 .. Len(f)
    BY DEF CountingOf
  <2>2. Len(d) + 1 \in 1 .. (Len(d) + 1)
    BY <1>1
  <2> QED
    BY <1>1, <2>1, <2>2, ContentTyped
<1> HIDE DEF vs
<1>4. vs[Len(d) + 1] = (p + n) - ContentFrom(f, d, Len(d) + 1) /\ p + n \in Nat
  BY <1>1, <1>2, <1>3
<1>5. \A m \in 1 .. Len(d) : vs[m] = At(f, d[m], d[m] + 1) - ContentFrom(f, d, m)
  BY <1>2 DEF CountingOf
<1>6. /\ \A m \in 1 .. Len(d) : d[m] \in 1 .. Len(f)
      /\ \A m \in 1 .. Len(d) : ls[m + 1] = inner[d[m]]
      /\ ls \in Seq(Nat) /\ Len(ls) = Len(d) + 1 /\ ls[1] = 0
  BY DEF CountingOf
<1>7. Len(vs) = Len(d) + 1 /\ vs \in Seq(Nat)
  BY <1>1, <1>2
<1> DEFINE q == p + n
<1>8. q \in Nat /\ vs[Len(d) + 1] = q - ContentFrom(f, d, Len(d) + 1)
  BY <1>4
<1> HIDE DEF q
<1>9. CountingOf(f, inner, d, ls, vs, q)
  BY <1>1, <1>5, <1>6, <1>7, <1>8 DEF CountingOf
<1> QED
  BY <1>9 DEF vs, q

(* A definite tag begins: its length is pushed, and nothing of it is read. *)
LEMMA CountPush ==
  ASSUME NEW f \in AllForests, NEW inner \in [1 .. Len(f) -> Nat],
         NEW d, NEW ls, NEW ws, NEW p, CountingOf(f, inner, d, ls, ws, p),
         NEW k \in 1 .. Len(f), p = At(f, k, k + 1)
  PROVE  CountingOf(f, inner, Append(d, k), Append(ls, inner[k]), Append(ws, 0), p)
<1> DEFINE e  == Append(d, k)
           l  == inner[k]
           ks == Append(ls, l)
           vs == Append(ws, 0)
<1>1. /\ d \in Seq(Nat) /\ ls \in Seq(Nat) /\ ws \in Seq(Nat) /\ p \in Nat
      /\ Len(d) \in Nat /\ Len(ls) = Len(d) + 1 /\ Len(ws) = Len(d) + 1 /\ ls[1] = 0
      /\ \A n \in 1 .. Len(d) : d[n] \in 1 .. Len(f)
  BY DEF CountingOf
<1>2. l \in Nat /\ k \in Nat
  OBVIOUS
<1> HIDE DEF l
<1>3. /\ e \in Seq(Nat) /\ Len(e) = Len(d) + 1 /\ e[Len(d) + 1] = k
      /\ \A n \in 1 .. Len(d) : e[n] = d[n]
  BY <1>1, <1>2
<1>4. /\ ks \in Seq(Nat) /\ Len(ks) = Len(e) + 1 /\ ks[1] = 0 /\ ks[Len(d) + 2] = l
      /\ \A n \in 1 .. (Len(d) + 1) : ks[n] = ls[n]
  BY <1>1, <1>2, <1>3
<1>5. /\ vs \in Seq(Nat) /\ Len(vs) = Len(e) + 1 /\ vs[Len(d) + 2] = 0
      /\ \A n \in 1 .. (Len(d) + 1) : vs[n] = ws[n]
  BY <1>1, <1>3
<1> HIDE DEF e, ks, vs
<1>6. ASSUME NEW n \in 1 .. Len(e) PROVE e[n] \in 1 .. Len(f)
  <2>1. n \in 1 .. Len(d) \/ n = Len(d) + 1
    BY <1>1, <1>3
  <2> QED
    BY <1>1, <1>3, <2>1
<1>7. ASSUME NEW n \in 1 .. (Len(d) + 1) PROVE ContentFrom(f, e, n) = ContentFrom(f, d, n)
  <2>1. CASE n = 1
    BY <2>1 DEF ContentFrom
  <2>2. CASE n # 1
    <3>1. n - 1 \in 1 .. Len(d)
      BY <1>1, <2>2
    <3> QED
      BY <1>3, <2>2, <3>1 DEF ContentFrom
  <2> QED
    BY <2>1, <2>2
<1>8. ContentFrom(f, e, Len(e) + 1) = p
  <2>1. Len(e) + 1 # 1 /\ Len(e) + 1 - 1 = Len(d) + 1
    BY <1>1, <1>3
  <2> QED
    BY <1>3, <2>1 DEF ContentFrom
<1>9. ASSUME NEW n \in 1 .. Len(e)
      PROVE  /\ ks[n + 1] = inner[e[n]]
             /\ vs[n] = At(f, e[n], e[n] + 1) - ContentFrom(f, e, n)
  <2>1. CASE n \in 1 .. Len(d)
    <3>1. n + 1 \in 1 .. (Len(d) + 1) /\ n \in 1 .. (Len(d) + 1)
      BY <1>1, <2>1
    <3>2. /\ ls[n + 1] = inner[d[n]]
          /\ ws[n] = At(f, d[n], d[n] + 1) - ContentFrom(f, d, n)
      BY <2>1 DEF CountingOf
    <3> QED
      BY <1>3, <1>4, <1>5, <1>7, <2>1, <3>1, <3>2
  <2>2. CASE n = Len(d) + 1
    <3>1. n \in 1 .. (Len(d) + 1) /\ n + 1 = Len(d) + 2
      BY <1>1, <2>2
    <3>2. ws[n] = p - ContentFrom(f, d, n)
      BY <2>2 DEF CountingOf
    <3> QED
      BY <1>3, <1>4, <1>5, <1>7, <2>2, <3>1, <3>2 DEF l
  <2> QED
    BY <1>1, <1>3, <2>1, <2>2
<1>10. vs[Len(e) + 1] = p - ContentFrom(f, e, Len(e) + 1)
  <2>1. vs[Len(e) + 1] = 0
    BY <1>1, <1>3, <1>5
  <2> QED
    BY <1>1, <1>8, <2>1
<1>11. CountingOf(f, inner, e, ks, vs, p)
  BY <1>1, <1>3, <1>4, <1>5, <1>6, <1>9, <1>10 DEF CountingOf
<1> QED
  BY <1>11 DEF e, ks, vs, l

(* The innermost definite tag ends where its counters agree. *)
LEMMA CountEnds ==
  ASSUME NEW f \in AllForests, NEW inner \in [1 .. Len(f) -> Nat],
         NEW d, NEW ls, NEW ws, NEW p, CountingOf(f, inner, d, ls, ws, p)
  PROVE  /\ d = << >> => (Last(ls) = Last(ws) <=> p = 0)
         /\ d # << >> =>
              /\ Last(d) \in 1 .. Len(f)
              /\ Last(ls) = inner[Last(d)]
              /\ Last(ws) = p - At(f, Last(d), Last(d) + 1)
              /\ Last(ls) = Last(ws) <=>
                   p = At(f, Last(d), Last(d) + 1) + inner[Last(d)]
<1> DEFINE m == Len(d)
<1>1. /\ d \in Seq(Nat) /\ ls \in Seq(Nat) /\ ws \in Seq(Nat) /\ p \in Nat
      /\ m \in Nat /\ Len(ls) = m + 1 /\ Len(ws) = m + 1 /\ ls[1] = 0
      /\ ws[m + 1] = p - ContentFrom(f, d, m + 1)
      /\ \A n \in 1 .. m : d[n] \in 1 .. Len(f)
  BY DEF CountingOf
<1>2. Last(ls) = ls[m + 1] /\ Last(ws) = ws[m + 1] /\ Last(d) = d[m]
  BY <1>1 DEF Last
<1>3. CASE d = << >>
  <2>1. m + 1 = 1 /\ ContentFrom(f, d, 1) = 0
    BY <1>3 DEF ContentFrom
  <2> QED
    BY <1>1, <1>2, <1>3, <2>1
<1>4. CASE d # << >>
  <2>1. m \in 1 .. m /\ m + 1 # 1 /\ m + 1 - 1 = m
    BY <1>1, <1>4
  <2>2. d[m] \in 1 .. Len(f) /\ ContentFrom(f, d, m + 1) = At(f, d[m], d[m] + 1)
    BY <1>1, <2>1 DEF ContentFrom
  <2>3. ls[m + 1] = inner[d[m]]
    BY <2>1 DEF CountingOf
  <2>4. inner[d[m]] \in Nat
    BY <2>2
  <2>5. At(f, d[m], d[m] + 1) \in Nat
    BY <1>1, <2>1, ContentTyped
  <2> DEFINE k == d[m]
             a == At(f, k, k + 1)
             l == inner[k]
  <2>6. /\ Last(d) = k /\ k \in 1 .. Len(f) /\ a \in Nat /\ l \in Nat
        /\ Last(ls) = l /\ Last(ws) = p - a
    BY <1>1, <1>2, <2>2, <2>3, <2>4, <2>5
  <2> HIDE DEF a, l, k
  <2>7. l = p - a <=> p = a + l
    BY <1>1, <2>6
  <2> QED
    BY <1>4, <2>6, <2>7 DEF a, l
<1> QED
  BY <1>3, <1>4

(* All but the last element *)
LEMMA AllButLast ==
  ASSUME NEW T, NEW s \in Seq(T), Len(s) >= 1
  PROVE  /\ Front(s) \in Seq(T) /\ Len(Front(s)) = Len(s) - 1
         /\ \A n \in 1 .. (Len(s) - 1) : Front(s)[n] = s[n]
<1> DEFINE k == Len(s) - 1
           t == SubSeq(s, 1, k)
<1>1. k \in Nat /\ k <= Len(s) /\ s \in Seq(T)
  OBVIOUS
<1> HIDE DEF k
<1>2. t \in Seq(T) /\ Len(t) = k /\ \A n \in 1 .. k : t[n] = s[n]
  BY <1>1
<1> QED
  BY <1>2, Zenon DEF Front, t, k

(* Its counters are popped, and what was read of it is read of the next    *)
(* one, too.                                                               *)
LEMMA CountPop ==
  ASSUME NEW f \in AllForests, NEW inner \in [1 .. Len(f) -> Nat],
         NEW d, NEW ls, NEW ws, NEW p, CountingOf(f, inner, d, ls, ws, p),
         d # << >>, Last(ls) = Last(ws)
  PROVE  CountingOf(f, inner, Front(d), Front(ls), AddToTop(Front(ws), Last(ls)), p)
<1> DEFINE m  == Len(d)
           e  == Front(d)
           ks == Front(ls)
           us == Front(ws)
           l  == Last(ls)
           vs == AddToTop(us, l)
           q  == At(f, d[m], d[m] + 1)
<1>1. /\ d \in Seq(Nat) /\ ls \in Seq(Nat) /\ ws \in Seq(Nat) /\ p \in Nat
      /\ m \in Nat /\ m >= 1 /\ Len(ls) = m + 1 /\ Len(ws) = m + 1 /\ ls[1] = 0
      /\ \A n \in 1 .. m : d[n] \in 1 .. Len(f)
  BY DEF CountingOf
<1>2. Last(d) = d[m] /\ m \in 1 .. m
  BY <1>1 DEF Last
<1>3. q \in Nat /\ l = inner[d[m]] /\ l \in Nat /\ p = q + l
  <2>1. q \in Nat
    BY <1>1, <1>2, ContentTyped
  <2>2. Last(d) \in 1 .. Len(f) /\ l = inner[Last(d)] /\ p = q + l
    BY <1>2, CountEnds
  <2> QED
    BY <1>2, <2>1, <2>2
<1>4. ws[m] = q - ContentFrom(f, d, m) /\ ContentFrom(f, d, m) \in Nat
  <2>1. m \in 1 .. (Len(d) + 1)
    BY <1>1
  <2>2. ContentFrom(f, d, m) \in Nat
    BY <1>1, <2>1, ContentTyped
  <2>3. \A n \in 1 .. m : ws[n] = At(f, d[n], d[n] + 1) - ContentFrom(f, d, n)
    BY DEF CountingOf
  <2> QED
    BY <1>2, <2>2, <2>3
<1>5. e \in Seq(Nat) /\ Len(e) = m - 1 /\ \A n \in 1 .. (m - 1) : e[n] = d[n]
  BY <1>1, AllButLast
<1>6. ks \in Seq(Nat) /\ Len(ks) = m /\ \A n \in 1 .. m : ks[n] = ls[n]
  <2>1. Len(ls) >= 1 /\ Len(ls) - 1 = m
    BY <1>1
  <2> QED
    BY <1>1, <2>1, AllButLast
<1>7. us \in Seq(Nat) /\ Len(us) = m /\ \A n \in 1 .. m : us[n] = ws[n]
  <2>1. Len(ws) >= 1 /\ Len(ws) - 1 = m
    BY <1>1
  <2> QED
    BY <1>1, <2>1, AllButLast
<1> HIDE DEF q, l, e, ks, us, m
<1>8. /\ vs \in Seq(Nat) /\ Len(vs) = m /\ vs[m] = ws[m] + l
      /\ \A n \in 1 .. (m - 1) : vs[n] = ws[n]
  <2>1. vs = [us EXCEPT ![m] = us[m] + l]
    BY <1>7, Zenon DEF AddToTop
  <2>2. m \in 1 .. m /\ us[m] = ws[m] /\ us[m] \in Nat /\ us[m] + l \in Nat
    <3>1. m \in 1 .. m
      BY <1>2
    <3>2. us[m] = ws[m] /\ us[m] \in Nat
      BY <1>7, <3>1
    <3> QED
      BY <1>3, <3>1, <3>2
  <2> HIDE DEF vs
  <2>3. /\ vs \in Seq(Nat) /\ Len(vs) = m /\ vs[m] = us[m] + l
        /\ \A n \in 1 .. m : n # m => vs[n] = us[n]
    BY <1>1, <1>7, <2>1, <2>2
  <2>4. \A n \in 1 .. (m - 1) : n \in 1 .. m /\ n # m
    BY <1>1
  <2> QED
    BY <1>7, <2>2, <2>3, <2>4
<1> HIDE DEF vs
<1>9. ASSUME NEW n \in 1 .. m PROVE ContentFrom(f, e, n) = ContentFrom(f, d, n)
  <2>1. CASE n = 1
    BY <2>1 DEF ContentFrom
  <2>2. CASE n # 1
    <3>1. n - 1 \in 1 .. (m - 1)
      BY <1>1, <2>2
    <3> QED
      BY <1>5, <2>2, <3>1 DEF ContentFrom
  <2> QED
    BY <2>1, <2>2
<1>10. ASSUME NEW n \in 1 .. Len(e)
       PROVE  /\ e[n] \in 1 .. Len(f) /\ ks[n + 1] = inner[e[n]]
              /\ vs[n] = At(f, e[n], e[n] + 1) - ContentFrom(f, e, n)
  <2>1. n \in 1 .. m /\ n + 1 \in 1 .. m /\ n \in 1 .. (m - 1)
    BY <1>1, <1>5
  <2>2. /\ d[n] \in 1 .. Len(f) /\ ls[n + 1] = inner[d[n]]
        /\ ws[n] = At(f, d[n], d[n] + 1) - ContentFrom(f, d, n)
    BY <2>1 DEF CountingOf, m
  <2> QED
    BY <1>5, <1>6, <1>8, <1>9, <2>1, <2>2
<1>11. Len(ks) = Len(e) + 1 /\ Len(vs) = Len(e) + 1 /\ ks[1] = 0 /\ Len(e) + 1 = m
  BY <1>1, <1>5, <1>6, <1>8
<1>12. vs[Len(e) + 1] = p - ContentFrom(f, e, Len(e) + 1)
  <2>1. ContentFrom(f, e, m) = ContentFrom(f, d, m)
    BY <1>2, <1>9
  <2>2. vs[m] = (q - ContentFrom(f, d, m)) + l
    BY <1>4, <1>8
  <2>3. vs[m] = p - ContentFrom(f, d, m)
    BY <1>3, <1>4, <2>2
  <2> QED
    BY <1>11, <2>1, <2>3
<1>13. CountingOf(f, inner, e, ks, vs, p)
  BY <1>1, <1>5, <1>6, <1>8, <1>10, <1>11, <1>12 DEF CountingOf
<1> QED
  BY <1>13 DEF e, ks, us, vs, l

(***************************************************************************)
(* Definite tags of a walk                                                 *)
(***************************************************************************)
(* The definite ones of the nodes that a walk is inside of *)
OpenDefinites(f, i, b) == {k \in Open(f, i, b) : f[k].form = "definite"}

Place(f, i, b, o, d) == WalkAt(f, i, b, o) /\ Ascending(d, OpenDefinites(f, i, b))

(* No open definite node ends here: the next unit is read. *)
Settled(f, i, o) ==
  o = << >> \/ LastOf(f, Last(o)) > i \/ f[Last(o)].form # "definite"

(* What a place is made of *)
LEMMA PlaceTyped ==
  ASSUME NEW f \in AllForests, NEW i, NEW b, NEW o, NEW d, Place(f, i, b, o, d)
  PROVE  /\ WalkAt(f, i, b, o) /\ i \in Nat /\ i \in 0 .. Len(f)
         /\ b \in Nat /\ b >= 1 /\ b <= i + 1
         /\ o \in Seq(Nat) /\ d \in Seq(Nat)
         /\ \A n \in 1 .. Len(o) : /\ o[n] \in 1 .. i /\ o[n] \in 1 .. Len(f)
                                   /\ f[o[n]].form # "primitive"
         /\ \A n \in 1 .. Len(d) : /\ d[n] \in 1 .. i /\ d[n] \in 1 .. Len(f)
                                   /\ d[n] \in Open(f, i, b)
                                   /\ f[d[n]].form = "definite"
         /\ \A k \in Open(f, i, b) :
              /\ k \in 1 .. i /\ k \in 1 .. Len(f) /\ f[k].form # "primitive"
              /\ f[k].form = "definite" => \E n \in 1 .. Len(d) : d[n] = k
<1>1. /\ WalkAt(f, i, b, o) /\ i \in 0 .. Len(f) /\ b \in 1 .. (i + 1)
      /\ Ascending(o, Open(f, i, b)) /\ Ascending(d, OpenDefinites(f, i, b))
  BY DEF Place, WalkAt
<1>2. Len(f) \in Nat
  BY NodesTyped
<1>3. \A k \in Open(f, i, b) :
        k \in 1 .. i /\ k \in 1 .. Len(f) /\ f[k].form # "primitive"
  BY <1>1, <1>2 DEF Open
<1>4. \A k \in OpenDefinites(f, i, b) : k \in Open(f, i, b) /\ f[k].form = "definite"
  BY DEF OpenDefinites
<1>5. \A k \in Open(f, i, b) : f[k].form = "definite" => k \in OpenDefinites(f, i, b)
  BY DEF OpenDefinites
<1>6. /\ o \in Seq(Nat) /\ \A n \in 1 .. Len(o) : o[n] \in Open(f, i, b)
      /\ d \in Seq(Nat) /\ \A n \in 1 .. Len(d) : d[n] \in OpenDefinites(f, i, b)
      /\ \A k \in OpenDefinites(f, i, b) : \E n \in 1 .. Len(d) : d[n] = k
  BY <1>1 DEF Ascending
<1>7. i \in Nat /\ b \in Nat /\ b >= 1 /\ b <= i + 1
  BY <1>1, <1>2
<1> QED
  BY <1>1, <1>3, <1>4, <1>5, <1>6, <1>7

(* The walk begins. *)
LEMMA PlaceBegins ==
  ASSUME NEW f \in AllForests
  PROVE  Place(f, 0, 1, << >>, << >>) /\ Walked(f, 0, 1) = << >>
<1>1. Open(f, 0, 1) = {} /\ OpenDefinites(f, 0, 1) = {}
  BY DEF Open, OpenDefinites
<1>2. Ascending(<< >>, Open(f, 0, 1)) /\ Ascending(<< >>, OpenDefinites(f, 0, 1))
  BY <1>1, AscendingNone
<1>3. 0 \in 0 .. Len(f) /\ 1 \in 1 .. (0 + 1)
  BY NodesTyped
<1>4. Walked(f, 0, 1) = << >>
  BY DEF Walked
<1> QED
  BY <1>2, <1>3, <1>4 DEF Place, WalkAt

(* A node begins. *)
LEMMA PlaceOpens ==
  ASSUME NEW f \in AllForests, NEW i, NEW b, NEW o, NEW d, Place(f, i, b, o, d),
         NoneEnds(f, i, o), i < Len(f)
  PROVE  LET k == i + 1
         IN  /\ k \in 1 .. Len(f)
             /\ f[k].form = "primitive" => Place(f, k, k + 1, o, d)
             /\ f[k].form = "indefinite" => Place(f, k, k + 1, Append(o, k), d)
             /\ f[k].form = "definite" => Place(f, k, k + 1, Append(o, k), Append(d, k))
<1> DEFINE k == i + 1
           S == Open(f, i, b)
           D == OpenDefinites(f, i, b)
<1>1. /\ WalkAt(f, i, b, o) /\ i \in Nat /\ \A j \in S : j \in 1 .. i
      /\ Ascending(d, D)
  BY PlaceTyped DEF Place
<1>2. /\ k \in 1 .. Len(f) /\ k + 1 = i + 2
      /\ WalkAt(f, k, i + 2, IF f[k].form = "primitive" THEN o ELSE Append(o, k))
      /\ Open(f, k, i + 2) = S \cup IF f[k].form = "primitive" THEN {} ELSE {k}
  BY <1>1, WalkOpens
<1>3. D \subseteq S /\ k \in Nat /\ \A j \in D : j < k
  BY <1>1 DEF OpenDefinites
<1> HIDE DEF S, D, k
<1>4. CASE f[k].form = "primitive"
  <2>1. Open(f, k, k + 1) = S /\ WalkAt(f, k, k + 1, o)
    BY <1>2, <1>4
  <2>2. OpenDefinites(f, k, k + 1) = D
    BY <2>1 DEF OpenDefinites, S, D
  <2> QED
    BY <1>1, <1>2, <1>4, <2>1, <2>2 DEF Place, k
<1>5. CASE f[k].form = "indefinite"
  <2>1. Open(f, k, k + 1) = S \cup {k} /\ WalkAt(f, k, k + 1, Append(o, k))
    BY <1>2, <1>5
  <2>2. OpenDefinites(f, k, k + 1) = D
    BY <1>5, <2>1 DEF OpenDefinites, S, D
  <2> QED
    BY <1>1, <1>2, <1>5, <2>1, <2>2 DEF Place, k
<1>6. CASE f[k].form = "definite"
  <2>1. Open(f, k, k + 1) = S \cup {k} /\ WalkAt(f, k, k + 1, Append(o, k))
    BY <1>2, <1>6
  <2>2. OpenDefinites(f, k, k + 1) = D \cup {k}
    BY <1>6, <2>1 DEF OpenDefinites, S, D
  <2>3. Ascending(Append(d, k), D \cup {k})
    BY <1>1, <1>3, AscendingPush
  <2> QED
    BY <1>2, <1>6, <2>1, <2>2, <2>3 DEF Place, k
<1>7. f[k].form \in {"primitive", "definite", "indefinite"}
  BY <1>2, HeadIs
<1> QED
  BY <1>2, <1>4, <1>5, <1>6, <1>7 DEF k

(* The innermost node ends. *)
LEMMA PlaceCloses ==
  ASSUME NEW f \in AllForests, NEW i, NEW b, NEW o, NEW d, Place(f, i, b, o, d),
         ~NoneEnds(f, i, o)
  PROVE  LET k == Last(o)
         IN  /\ o # << >> /\ k \in 1 .. i /\ k \in 1 .. Len(f) /\ LastOf(f, k) = i
             /\ f[k].form # "primitive"
             /\ f[k].form = "definite" =>
                  /\ d # << >> /\ Last(d) = k /\ Place(f, i, k, Front(o), Front(d))
             /\ f[k].form # "definite" => Place(f, i, k, Front(o), d)
<1> DEFINE k == Last(o)
           S == Open(f, i, b)
           D == OpenDefinites(f, i, b)
<1>1. /\ WalkAt(f, i, b, o) /\ Ascending(o, S) /\ Ascending(d, D)
  BY DEF Place, WalkAt
<1>2. /\ o # << >> /\ k \in 1 .. i /\ k \in 1 .. Len(f) /\ LastOf(f, k) = i
      /\ WalkAt(f, i, k, Front(o)) /\ Open(f, i, k) = S \ {k}
  BY <1>1, WalkCloses
<1>3. k \in S /\ \A j \in S : j \in Nat /\ j <= k
  BY <1>1, <1>2, AscendingPop
<1>4. f[k].form # "primitive"
  BY <1>3 DEF Open
<1> HIDE DEF S, D, k
<1>5. OpenDefinites(f, i, k) = D \ {k}
  BY <1>2 DEF OpenDefinites, S, D
<1>6. CASE f[k].form = "definite"
  <2>1. k \in D /\ D \subseteq S
    BY <1>3, <1>6 DEF OpenDefinites, S, D
  <2>2. d # << >>
    BY <1>1, <2>1, AscendingNone
  <2>3. /\ Last(d) \in D /\ Last(d) \in Nat /\ \A y \in D : y <= Last(d)
        /\ Ascending(Front(d), D \ {Last(d)})
    BY <1>1, <2>2, AscendingPop
  <2>4. Last(d) = k
    BY <1>3, <2>1, <2>3
  <2> QED
    BY <1>2, <1>4, <1>5, <1>6, <2>2, <2>3, <2>4 DEF Place, k
<1>7. CASE f[k].form # "definite"
  <2>1. D \ {k} = D
    BY <1>7 DEF OpenDefinites, D
  <2> QED
    BY <1>1, <1>2, <1>4, <1>5, <1>7, <2>1 DEF Place, k
<1> QED
  BY <1>6, <1>7

(* The innermost definite tag is complete exactly if it is the innermost   *)
(* tag of all and ends here.                                               *)
LEMMA PlaceEnds ==
  ASSUME NEW f \in AllForests, NEW i, NEW b, NEW o, NEW d, Place(f, i, b, o, d)
  PROVE  /\ d # << >> /\ At(f, i, b) = At(f, Last(d), Last(d) + 1) + Inner(f)[Last(d)] =>
              /\ ~NoneEnds(f, i, o) /\ Last(o) = Last(d)
              /\ f[Last(o)].form = "definite"
         /\ ~Settled(f, i, o) =>
              /\ d # << >>
              /\ At(f, i, b) = At(f, Last(d), Last(d) + 1) + Inner(f)[Last(d)]
         /\ Settled(f, i, o) =>
              \A n \in 1 .. Len(d) :
                At(f, i, b) < At(f, d[n], d[n] + 1) + Inner(f)[d[n]]
<1>1. /\ WalkAt(f, i, b, o) /\ Ascending(o, Open(f, i, b)) /\ i \in Nat
      /\ Ascending(d, OpenDefinites(f, i, b)) /\ i \in 0 .. Len(f) /\ b \in Nat
  BY PlaceTyped DEF Place, WalkAt
<1>2. ASSUME NEW k \in OpenDefinites(f, i, b),
             At(f, i, b) = At(f, k, k + 1) + Inner(f)[k]
      PROVE  /\ o # << >> /\ Last(o) \in Open(f, i, b) /\ Last(o) \in Nat
             /\ k \in Nat /\ k <= Last(o) /\ LastOf(f, Last(o)) = i
             /\ f[Last(o)].form = "definite" /\ ~NoneEnds(f, i, o)
  <2>1. k \in Open(f, i, b) /\ k \in 1 .. Len(f) /\ k \in Nat
    BY PlaceTyped DEF OpenDefinites
  <2>2. o # << >>
    BY <1>1, <2>1, AscendingNone
  <2> DEFINE t == Last(o)
  <2>3. t \in Open(f, i, b) /\ t \in Nat /\ k <= t /\ t <= i
    <3>1. t \in Open(f, i, b) /\ \A y \in Open(f, i, b) : y \in Nat /\ y <= t
      BY <1>1, <2>2, AscendingPop
    <3>2. t \in 1 .. i
      BY <3>1, PlaceTyped
    <3> QED
      BY <2>1, <3>1, <3>2
  <2>4. LastOf(f, k) = i /\ \A j \in Open(f, i, b) : j >= k => f[j].form # "indefinite"
    BY <1>1, <1>2, <2>1, WalkInside
  <2>5. t \in 1 .. Len(f) /\ f[t].form # "primitive" /\ LastOf(f, t) \in Nat
        /\ LastOf(f, t) >= i
    BY <1>1, <2>2, WalkTop
  <2> HIDE DEF t
  <2>6. t \in k .. LastOf(f, k)
    BY <1>1, <2>1, <2>3, <2>4
  <2>7. LastOf(f, t) = i
    BY <1>1, <2>1, <2>4, <2>5, <2>6, Nested
  <2>8. f[t].form = "definite"
    BY <2>1, <2>3, <2>4, <2>5, HeadIs
  <2>9. ~NoneEnds(f, i, o)
    BY <1>1, <2>2, <2>7 DEF NoneEnds, t
  <2> QED
    BY <2>1, <2>2, <2>3, <2>7, <2>8, <2>9 DEF t
<1>3. ASSUME d # << >>, At(f, i, b) = At(f, Last(d), Last(d) + 1) + Inner(f)[Last(d)]
      PROVE  /\ ~NoneEnds(f, i, o) /\ Last(o) = Last(d) /\ f[Last(o)].form = "definite"
  <2>1. /\ Last(d) \in OpenDefinites(f, i, b)
        /\ \A y \in OpenDefinites(f, i, b) : y <= Last(d)
    BY <1>1, <1>3, AscendingPop
  <2>2. /\ Last(o) \in Open(f, i, b) /\ Last(o) \in Nat /\ Last(d) \in Nat
        /\ Last(d) <= Last(o) /\ f[Last(o)].form = "definite" /\ ~NoneEnds(f, i, o)
    BY <1>2, <1>3, <2>1
  <2>3. Last(o) \in OpenDefinites(f, i, b)
    BY <2>2 DEF OpenDefinites
  <2> QED
    BY <2>1, <2>2, <2>3
<1>4. ASSUME ~Settled(f, i, o)
      PROVE  /\ d # << >>
             /\ At(f, i, b) = At(f, Last(d), Last(d) + 1) + Inner(f)[Last(d)]
  <2>1. /\ o # << >> /\ ~(LastOf(f, Last(o)) > i) /\ f[Last(o)].form = "definite"
    BY <1>4 DEF Settled
  <2>2. ~NoneEnds(f, i, o)
    BY <2>1 DEF NoneEnds
  <2>3. d # << >> /\ Last(d) = Last(o) /\ LastOf(f, Last(o)) = i
    BY <2>1, <2>2, PlaceCloses
  <2>4. Last(o) \in Open(f, i, b)
    BY <1>1, <2>1, AscendingPop
  <2>5. At(f, i, b) = At(f, Last(o), Last(o) + 1) + Inner(f)[Last(o)]
    <3>1. f[Last(o)].form # "indefinite"
      BY <2>1
    <3> QED
      BY <1>1, <2>3, <2>4, <3>1, WalkInside
  <2> QED
    BY <2>3, <2>5
<1>5. ASSUME Settled(f, i, o), NEW n \in 1 .. Len(d)
      PROVE  At(f, i, b) < At(f, d[n], d[n] + 1) + Inner(f)[d[n]]
  <2> DEFINE k == d[n]
             p == At(f, i, b)
             q == At(f, k, k + 1) + Inner(f)[k]
  <2>1. k \in Open(f, i, b) /\ k \in 1 .. Len(f) /\ f[k].form = "definite" /\ k \in Nat
    BY PlaceTyped
  <2>2. p <= q
    BY <1>1, <2>1, WalkInside
  <2>3. p \in Nat /\ q \in Nat
    <3>1. k \in 0 .. Len(f) /\ k + 1 \in Nat
      BY <2>1
    <3>2. At(f, k, k + 1) \in Nat /\ p \in Nat
      BY <1>1, <3>1, WalkedTyped
    <3> QED
      BY <2>1, <3>2, HeadTyped
  <2>4. k \in OpenDefinites(f, i, b)
    BY <2>1 DEF OpenDefinites
  <2>5. p # q
    <3> SUFFICES ASSUME p = q PROVE FALSE
      OBVIOUS
    <3>1. o # << >> /\ LastOf(f, Last(o)) = i /\ f[Last(o)].form = "definite"
      BY <1>2, <2>4
    <3> QED
      BY <1>1, <1>5, <3>1 DEF Settled
  <2> HIDE DEF p, q
  <2>6. p < q
    BY <2>2, <2>3, <2>5
  <2> QED
    BY <2>6 DEF p, q
<1> QED
  BY <1>3, <1>4, <1>5

(* The next unit of an input that is as encoded: an end-of-content unit if *)
(* an indefinite node ends, or the header of the next node.                *)
LEMMA ReadNext ==
  ASSUME NEW f \in AllForests, NEW us \in Seq(EncodedUnit), IsPrefix(us, Units(f)),
         NEW i, NEW b, NEW o, NEW d, Place(f, i, b, o, d), Settled(f, i, o),
         NEW n \in Nat, n < Len(us), SubSeq(us, 1, n) = Walked(f, i, b)
  PROVE  \/ /\ NoneEnds(f, i, o) /\ i < Len(f) /\ us[n + 1] = HeadOf(f, i + 1)
            /\ SubSeq(us, 1, n + 1) = Walked(f, i + 1, i + 2)
         \/ /\ ~NoneEnds(f, i, o) /\ f[Last(o)].form = "indefinite"
            /\ us[n + 1] = Eoc /\ SubSeq(us, 1, n + 1) = Walked(f, i, Last(o))
<1> DEFINE all == Units(f)
           w   == SubSeq(us, 1, n)
<1>1. /\ WalkAt(f, i, b, o) /\ i \in Nat /\ i \in 0 .. Len(f) /\ b \in Nat /\ b >= 1
  BY PlaceTyped
<1>2. Len(f) \in Nat
  BY NodesTyped
<1>3. all \in Seq(EncodedUnit)
  BY UnitsTyped
<1>4. w = Walked(f, i, b) /\ Len(w) = n
  <2>1. SubSeq(us, 1, n) \in Seq(EncodedUnit) /\ Len(SubSeq(us, 1, n)) = n
    OBVIOUS
  <2> QED
    BY <2>1
<1> HIDE DEF w, all
<1>5. CASE NoneEnds(f, i, o)
  <2>1. i < Len(f)
    <3> SUFFICES ASSUME i = Len(f) PROVE FALSE
      BY <1>1, <1>2
    <3>1. w = all
      BY <1>1, <1>4, <1>5, WalkRest DEF all
    <3>2. Len(us) <= Len(all)
      BY <1>3, PrefixIs DEF all
    <3>3. Len(us) \in Nat
      OBVIOUS
    <3> QED
      BY <1>4, <3>1, <3>2, <3>3
  <2> DEFINE k == i + 1
             h == HeadOf(f, k)
  <2>2. k \in 1 .. Len(f) /\ k \in 0 .. Len(f) /\ i + 2 \in Nat /\ i + 2 >= 1
    BY <1>1, <1>2, <2>1
  <2>3. Walked(f, k, i + 2) = Append(w, h)
    BY <1>1, <1>4, <1>5, <2>1, WalkOpens
  <2>4. h \in EncodedUnit
    BY <2>2, HeadParts
  <2>5. IsPrefix(Walked(f, k, i + 2), all)
    BY <2>2, WalkedPrefix DEF all
  <2> HIDE DEF h
  <2>6. us[n + 1] = h /\ SubSeq(us, 1, n + 1) = Append(w, h)
    <3>1. IsPrefix(Append(w, h), all)
      BY <2>3, <2>5, Zenon
    <3> QED
      BY <1>3, <2>4, <3>1, PrefixNext DEF w, all
  <2> QED
    BY <1>5, <2>1, <2>3, <2>6 DEF h
<1>6. CASE ~NoneEnds(f, i, o)
  <2> DEFINE k == Last(o)
  <2>1. k \in 1 .. i /\ k \in Nat /\ k >= 1 /\ LastOf(f, k) = i /\ o # << >>
        /\ f[k].form # "primitive" /\ k \in 1 .. Len(f)
    BY <1>1, <1>6, PlaceCloses
  <2>2. f[k].form = "indefinite"
    <3>1. ~(LastOf(f, k) > i)
      BY <1>1, <2>1
    <3>2. f[k].form # "definite"
      BY <2>1, <3>1 DEF Settled
    <3> QED
      BY <2>1, <3>2, HeadIs
  <2>3. Walked(f, i, k) = Append(w, Eoc)
    BY <1>1, <1>4, <1>6, <2>2, WalkCloses
  <2>4. IsPrefix(Walked(f, i, k), all)
    BY <1>1, <2>1, WalkedPrefix DEF all
  <2> HIDE DEF k
  <2>5. us[n + 1] = Eoc /\ SubSeq(us, 1, n + 1) = Append(w, Eoc)
    BY <1>3, <2>3, <2>4, EocTyped, PrefixNext DEF w, all
  <2> QED
    BY <1>6, <2>2, <2>3, <2>5 DEF k
<1> QED
  BY <1>5, <1>6

(* Where everything is read, the walk is behind the last node, and inside  *)
(* of none.                                                                *)
LEMMA AllRead ==
  ASSUME NEW f \in AllForests, NEW i, NEW b, NEW o, NEW d, Place(f, i, b, o, d),
         Settled(f, i, o), Walked(f, i, b) = Units(f)
  PROVE  i = Len(f) /\ o = << >>
<1> DEFINE N == Len(f)
           p == At(f, i, b)
           q == At(f, N, 1)
<1>1. /\ WalkAt(f, i, b, o) /\ i \in Nat /\ i \in 0 .. N /\ b \in Nat /\ b >= 1
      /\ N \in Nat
  BY PlaceTyped, NodesTyped
<1>2. p = q
  BY WalkedAll DEF At
<1>3. p \in Nat
  BY <1>1, WalkedTyped
<1> HIDE DEF p, q
<1>4. i = N
  <2> SUFFICES ASSUME i # N PROVE FALSE
    OBVIOUS
  <2>1. N \in (i + 1) .. N /\ 1 \in Nat /\ b > 0
    BY <1>1
  <2>2. p + 2 <= q
    BY <1>1, <2>1, AtGrows DEF p, q, N
  <2> QED
    BY <1>2, <1>3, <2>2
<1>5. o = << >>
  <2> SUFFICES ASSUME o # << >> PROVE FALSE
    OBVIOUS
  <2> DEFINE k == Last(o)
             r == At(f, i, k)
  <2>1. k \in 1 .. Len(f) /\ LastOf(f, k) \in Nat /\ LastOf(f, k) >= i
    BY <1>1, WalkTop
  <2>2. LastOf(f, k) <= N
    BY <2>1, LastIs DEF IsLast, N
  <2>3. ~NoneEnds(f, i, o) /\ ~(LastOf(f, k) > i)
    BY <1>1, <1>4, <2>1, <2>2 DEF NoneEnds
  <2>4. f[k].form = "indefinite"
    <3>1. f[k].form # "definite" /\ f[k].form # "primitive"
      BY <2>3, PlaceCloses DEF Settled
    <3> QED
      BY <2>1, <3>1, HeadIs
  <2>5. r = p + 2
    BY <1>1, <2>3, <2>4, WalkCloses DEF p
  <2>6. r = q \/ r + 2 <= q
    <3>1. 1 \in Nat /\ k \in Nat /\ 1 <= k
      BY <2>1
    <3> QED
      BY <1>1, <1>4, <3>1, AtGrows DEF q
  <2> HIDE DEF r
  <2> QED
    BY <1>2, <1>3, <2>5, <2>6
<1> QED
  BY <1>4, <1>5 DEF N

(***************************************************************************)
(* Levels of a walk                                                        *)
(***************************************************************************)
(* The writers in use *)
LEMMA UsedWriters ==
  ASSUME NEW ws, NEW top, InUse(ws, top)
  PROVE  /\ ws \in Seq(Writer) /\ top \in 1 .. Len(ws) /\ top \in Nat /\ Len(ws) \in Nat
         /\ \A n \in 1 .. top : n \in DOMAIN ws /\ ws[n].pos = SpanOf(ws[n].items)
         /\ \A n \in (top + 1) .. Len(ws) : ws[n] = EmptyWriter
<1>1. /\ ws \in Seq(Writer) /\ top \in 1 .. Len(ws) /\ top \in Nat /\ Len(ws) \in Nat
      /\ \A n \in 1 .. Len(ws) : Right(ws[n])
      /\ \A n \in (top + 1) .. Len(ws) : ws[n] = EmptyWriter
  BY DEF InUse
<1>2. \A n \in 1 .. top : n \in 1 .. Len(ws) /\ n \in DOMAIN ws
  BY <1>1
<1> QED
  BY <1>1, <1>2, RightParts

(* What is in a writer *)
LEMMA PairItems == \A s, n : Pair(s, n).items = s
BY DEF Pair

(* What is in the writers after write_tag() to the one on top *)
LEMMA ItemsWritten ==
  ASSUME NEW ws, NEW top, InUse(ws, top), NEW u
  PROVE  LET vs == WriteTo(ws, top, u)
         IN  /\ vs[top].items = Append(ws[top].items, u)
             /\ \A m \in 1 .. (top - 1) : vs[m] = ws[m]
<1> DEFINE o == WriteItem(ws[top], u)
<1>1. top \in DOMAIN ws /\ \A m \in 1 .. (top - 1) : m \in DOMAIN ws /\ m # top
  BY UsedWriters
<1>2. WriteTo(ws, top, u) = [ws EXCEPT ![top] = o]
  BY Zenon DEF WriteTo
<1>3. o.items = Append(ws[top].items, u)
  BY PairItems, Zenon DEF WriteItem, Pair
<1> HIDE DEF o
<1> QED
  BY <1>1, <1>2, <1>3

(* What is in the writers with one more of them *)
LEMMA ItemsEntered ==
  ASSUME NEW ws, NEW top, InUse(ws, top)
  PROVE  LET vs == WithLevel(ws, top)
         IN  /\ vs[top + 1].items = << >>
             /\ \A m \in 1 .. top : vs[m] = ws[m]
<1>1. EmptyWriter.items = << >>
  BY DEF EmptyWriter
<1>2. /\ ws \in Seq(Writer) /\ top \in 1 .. Len(ws) /\ top \in Nat /\ Len(ws) \in Nat
      /\ \A n \in (top + 1) .. Len(ws) : ws[n] = EmptyWriter
  BY UsedWriters
<1>3. CASE top >= Len(ws)
  <2>1. WithLevel(ws, top) = Append(ws, EmptyWriter) /\ top = Len(ws)
    BY <1>2, <1>3 DEF WithLevel
  <2>2. Append(ws, EmptyWriter)[top + 1] = EmptyWriter
    BY <1>2, <2>1
  <2>3. \A m \in 1 .. top : Append(ws, EmptyWriter)[m] = ws[m]
    BY <1>2, <2>1
  <2> QED
    BY <1>1, <2>1, <2>2, <2>3
<1>4. CASE ~(top >= Len(ws))
  <2>1. WithLevel(ws, top) = ws
    BY <1>4 DEF WithLevel
  <2>2. ws[top + 1] = EmptyWriter
    BY <1>2, <1>4
  <2> QED
    BY <1>1, <2>1, <2>2
<1> QED
  BY <1>3, <1>4

(* What is in the writers after the one on top is written to the one below *)
LEMMA ItemsPoured ==
  ASSUME NEW ws, NEW top, InUse(ws, top), top > 1, NEW u
  PROVE  Pour(ws, top, u)[top - 1].items = (Append(ws[top - 1].items, u) \o ws[top].items)
<1> DEFINE inner == ws[top]
           outer == WriteItem(ws[top - 1], u)
           p     == Pair(outer.items \o inner.items, outer.pos + inner.pos)
           vs    == [ws EXCEPT ![top - 1] = p]
<1>1. outer.items = Append(ws[top - 1].items, u)
  BY PairItems, Zenon DEF WriteItem, Pair
<1>2. p.items = (Append(ws[top - 1].items, u) \o ws[top].items)
  BY <1>1, PairItems, Zenon
<1>3. Pour(ws, top, u) = [vs EXCEPT ![top] = EmptyWriter]
  BY Zenon DEF Pour, Pair
<1> HIDE DEF p
<1>4. top \in Nat /\ \A n \in 1 .. top : n \in DOMAIN ws
  BY UsedWriters
<1>5. top - 1 \in DOMAIN ws /\ top - 1 # top
  BY <1>4
<1>6. DOMAIN vs = DOMAIN ws /\ vs[top - 1] = p
  BY <1>5
<1>7. [vs EXCEPT ![top] = EmptyWriter][top - 1] = p
  BY <1>5, <1>6
<1> QED
  BY <1>2, <1>3, <1>7

(* What is in the writers further below *)
LEMMA ItemsBelow ==
  ASSUME NEW ws, NEW top, InUse(ws, top), top > 1, NEW u, NEW m \in 1 .. (top - 2)
  PROVE  Pour(ws, top, u)[m] = ws[m]
<1> DEFINE inner == ws[top]
           outer == WriteItem(ws[top - 1], u)
           p     == Pair(outer.items \o inner.items, outer.pos + inner.pos)
           vs    == [ws EXCEPT ![top - 1] = p]
<1>1. Pour(ws, top, u) = [vs EXCEPT ![top] = EmptyWriter]
  BY Zenon DEF Pour, Pair
<1> HIDE DEF p
<1>2. top \in Nat /\ \A n \in 1 .. top : n \in DOMAIN ws
  BY UsedWriters
<1>3. m \in DOMAIN ws /\ m # top /\ m # top - 1
  BY <1>2
<1> QED
  BY <1>1, <1>3

(* The last unit of a part of a sequence *)
LEMMA SubSeqAppend ==
  ASSUME NEW T, NEW s \in Seq(T), NEW a \in Nat, NEW n \in Nat, 1 <= a, a <= n + 1,
         n + 1 <= Len(s)
  PROVE  Append(SubSeq(s, a, n), s[n + 1]) = SubSeq(s, a, n + 1)
<1> DEFINE r == SubSeq(s, a, n)
           t == SubSeq(s, a, n + 1)
           e == s[n + 1]
<1>1. /\ Len(s) \in Nat /\ n <= Len(s) /\ n + 1 \in Nat /\ a <= (n + 1) + 1
      /\ n + 1 \in 1 .. Len(s)
  OBVIOUS
<1>2. e \in T
  BY <1>1
<1>3. /\ r \in Seq(T) /\ Len(r) = n - a + 1
      /\ \A m \in 1 .. (n - a + 1) : r[m] = s[a + m - 1]
  BY <1>1, SubSeqElements
<1>4. /\ t \in Seq(T) /\ Len(t) = n + 1 - a + 1
      /\ \A m \in 1 .. (n + 1 - a + 1) : t[m] = s[a + m - 1]
  BY <1>1, SubSeqElements
<1> HIDE DEF r, t, e
<1> DEFINE q == Append(r, e)
           l == n - a + 1
<1>5. l \in Nat /\ n + 1 - a + 1 = l + 1 /\ a + (l + 1) - 1 = n + 1
  OBVIOUS
<1>6. /\ q \in Seq(T) /\ Len(q) = l + 1 /\ q[l + 1] = e
      /\ \A m \in 1 .. l : q[m] = r[m]
  <2>1. Len(r) = l /\ l \in Nat
    BY <1>3, <1>5
  <2> HIDE DEF l
  <2> QED
    BY <1>2, <1>3, <2>1
<1> HIDE DEF q, l
<1>7. ASSUME NEW m \in 1 .. Len(q) PROVE q[m] = t[m]
  <2>1. m \in 1 .. l \/ m = l + 1
    BY <1>5, <1>6
  <2>2. t[m] = s[a + m - 1]
    BY <1>4, <1>5, <1>6
  <2>3. CASE m \in 1 .. l
    BY <1>3, <1>6, <2>2, <2>3 DEF l
  <2>4. CASE m = l + 1
    BY <1>5, <1>6, <2>2, <2>4 DEF e
  <2> QED
    BY <2>1, <2>3, <2>4
<1>8. Len(q) = Len(t)
  BY <1>4, <1>5, <1>6
<1>9. q = t
  BY <1>4, <1>6, <1>7, <1>8, SameElements
<1> QED
  BY <1>9 DEF q, r, t, e

(* The node whose content level n is for; the first level is the output.   *)
From(o, n) == IF n = 1 THEN 0 ELSE o[n - 1]

(* Where levels begin *)
LEMMA FromTyped ==
  ASSUME NEW f \in AllForests, NEW i, NEW b, NEW o, NEW d, Place(f, i, b, o, d)
  PROVE  /\ \A n \in 1 .. (Len(o) + 1) : From(o, n) \in Nat /\ From(o, n) <= i
         /\ \A n \in 1 .. Len(o) : From(o, n) < o[n] /\ From(o, n + 1) = o[n]
<1>1. /\ o \in Seq(Nat) /\ i \in Nat /\ Len(o) \in Nat
      /\ \A n \in 1 .. Len(o) : o[n] \in 1 .. i
  BY PlaceTyped
<1>2. \A n \in 1 .. Len(o), m \in 1 .. Len(o) : n < m => o[n] < o[m]
  BY Zenon DEF Place, WalkAt, Ascending
<1>3. \A n \in 1 .. (Len(o) + 1) : n = 1 \/ n - 1 \in 1 .. Len(o)
  BY <1>1
<1>4. \A n \in 1 .. (Len(o) + 1) : From(o, n) \in Nat /\ From(o, n) <= i
  BY <1>1, <1>3 DEF From
<1>5. ASSUME NEW n \in 1 .. Len(o)
      PROVE  From(o, n) < o[n] /\ From(o, n + 1) = o[n]
  <2>1. n + 1 # 1 /\ n + 1 - 1 = n /\ n \in 1 .. (Len(o) + 1)
    OBVIOUS
  <2>2. From(o, n + 1) = o[n]
    BY <2>1 DEF From
  <2>3. CASE n = 1
    BY <1>1, <2>2, <2>3 DEF From
  <2>4. CASE n # 1
    <3>1. n - 1 \in 1 .. Len(o) /\ n - 1 < n
      BY <1>3, <2>1, <2>4
    <3> QED
      BY <1>2, <2>2, <2>4, <3>1 DEF From
  <2> QED
    BY <2>3, <2>4
<1> QED
  BY <1>4, <1>5

(***************************************************************************)
(* What is read and what ends                                              *)
(***************************************************************************)
(* The parts of an end-of-content unit *)
LEMMA EocParts ==
  /\ Eoc.shape = "primitive" /\ Eoc.eoc /\ Eoc.tl = 2 /\ Eoc.length = 0
BY DEF Eoc

(* The two units that the walk can meet behind a place of it where nothing *)
(* is left to close, with the place behind them and the counters there:    *)
(* the first one of the next node, and the end of the innermost tag.       *)
WalksInto(f, i, o, d, ls, ws, us, n, u) ==
  LET k == i + 1
  IN  /\ NoneEnds(f, i, o) /\ i < Len(f) /\ k \in 1 .. Len(f)
      /\ u = HeadOf(f, k) /\ ~u.eoc
      /\ SubSeq(us, 1, n + 1) = Walked(f, k, k + 1)
      /\ f[k].form \in {"primitive", "definite", "indefinite"}
      /\ f[k].form = "primitive" =>
           /\ u.shape = "primitive" /\ Place(f, k, k + 1, o, d)
           /\ Counting(f, d, ls, AddToTop(ws, u.tl + u.length), At(f, k, k + 1))
      /\ f[k].form = "indefinite" =>
           /\ u.shape = "constructed" /\ u.indefinite
           /\ Place(f, k, k + 1, Append(o, k), d)
           /\ Counting(f, d, ls, AddToTop(ws, u.tl), At(f, k, k + 1))
      /\ f[k].form = "definite" =>
           /\ u.shape = "constructed" /\ ~u.indefinite
           /\ Place(f, k, k + 1, Append(o, k), Append(d, k))
           /\ Counting(f, Append(d, k), Append(ls, u.length),
                       Append(AddToTop(ws, u.tl), 0), At(f, k, k + 1))

WalksOut(f, i, o, d, ls, ws, us, n, u) ==
  /\ ~NoneEnds(f, i, o) /\ u = Eoc /\ u.shape = "primitive" /\ u.eoc
  /\ SubSeq(us, 1, n + 1) = Walked(f, i, Last(o))
  /\ Place(f, i, Last(o), Front(o), d)
  /\ Counting(f, d, ls, AddToTop(ws, u.tl + u.length), At(f, i, Last(o)))

(* The place behind the next unit, and the counters after it *)
LEMMA ReadPlaces ==
  ASSUME NEW f \in AllForests, NEW us \in Seq(EncodedUnit), IsPrefix(us, Units(f)),
         NEW i, NEW b, NEW o, NEW d, Place(f, i, b, o, d), Settled(f, i, o),
         NEW n \in Nat, n < Len(us), SubSeq(us, 1, n) = Walked(f, i, b),
         NEW ls, NEW ws, Counting(f, d, ls, ws, At(f, i, b)),
         NEW u, u = us[n + 1]
  PROVE  \/ WalksInto(f, i, o, d, ls, ws, us, n, u)
         \/ WalksOut(f, i, o, d, ls, ws, us, n, u)
<1> DEFINE k == i + 1
           h == HeadOf(f, k)
           p == At(f, i, b)
<1>0. i \in Nat /\ k \in Nat /\ i + 2 = k + 1 /\ p \in Nat /\ WalkAt(f, i, b, o)
  BY PlaceTyped, SMTT(40) DEF Counting, CountingOf
<1>1. CASE /\ NoneEnds(f, i, o) /\ i < Len(f) /\ u = h
           /\ SubSeq(us, 1, n + 1) = Walked(f, k, i + 2)
  <2>1. /\ k \in 1 .. Len(f)
        /\ f[k].form = "primitive" => Place(f, k, k + 1, o, d)
        /\ f[k].form = "indefinite" => Place(f, k, k + 1, Append(o, k), d)
        /\ f[k].form = "definite" => Place(f, k, k + 1, Append(o, k), Append(d, k))
    BY <1>1, PlaceOpens
  <2>2. At(f, k, i + 2) = p + Span(h)
    BY <1>0, <1>1, WalkOpens
  <2>3. At(f, k, k + 1) = p + Span(h)
    BY <1>0, <2>2
  <2>4. /\ ~h.eoc /\ h.tl \in Nat /\ h.length \in Nat
        /\ f[k].form = "primitive" => h.shape = "primitive" /\ Span(h) = h.tl + h.length
        /\ f[k].form # "primitive" => h.shape = "constructed" /\ Span(h) = h.tl
        /\ f[k].form # "primitive" => (h.indefinite <=> f[k].form = "indefinite")
        /\ f[k].form = "definite" => h.length = Inner(f)[k]
    BY <2>1, HeadParts
  <2>5. f[k].form \in {"primitive", "definite", "indefinite"}
    BY <2>1, HeadIs
  <2> HIDE DEF k, h, p
  <2>6. f[k].form = "primitive" =>
          Counting(f, d, ls, AddToTop(ws, h.tl + h.length), At(f, k, k + 1))
    <3>1. h.tl + h.length \in Nat
      BY <2>4
    <3>2. Counting(f, d, ls, AddToTop(ws, h.tl + h.length), p + (h.tl + h.length))
      BY <3>1, CountMore, InnerTyped DEF Counting, p
    <3> QED
      BY <2>3, <2>4, <3>2
  <2>7. Counting(f, d, ls, AddToTop(ws, h.tl), p + h.tl)
    BY <2>4, CountMore, InnerTyped DEF Counting, p
  <2>8. f[k].form = "indefinite" =>
          Counting(f, d, ls, AddToTop(ws, h.tl), At(f, k, k + 1))
    BY <2>3, <2>4, <2>7
  <2>9. f[k].form = "definite" =>
          Counting(f, Append(d, k), Append(ls, h.length),
                   Append(AddToTop(ws, h.tl), 0), At(f, k, k + 1))
    <3> SUFFICES ASSUME f[k].form = "definite"
                 PROVE  Counting(f, Append(d, k), Append(ls, h.length),
                                 Append(AddToTop(ws, h.tl), 0), At(f, k, k + 1))
      OBVIOUS
    <3>1. Counting(f, d, ls, AddToTop(ws, h.tl), At(f, k, k + 1))
      BY <2>3, <2>4, <2>7
    <3>2. h.length = Inner(f)[k]
      BY <2>4
    <3> QED
      BY <2>1, <3>1, <3>2, CountPush, InnerTyped DEF Counting
  <2>10. SubSeq(us, 1, n + 1) = Walked(f, k, k + 1)
    BY <1>0, <1>1 DEF k
  <2>11. u = h /\ NoneEnds(f, i, o) /\ i < Len(f)
    BY <1>1 DEF h, k
  <2>12. /\ NoneEnds(f, i, o) /\ i < Len(f) /\ k \in 1 .. Len(f)
         /\ u = HeadOf(f, k) /\ ~u.eoc
         /\ SubSeq(us, 1, n + 1) = Walked(f, k, k + 1)
         /\ f[k].form \in {"primitive", "definite", "indefinite"}
    BY <2>1, <2>4, <2>5, <2>10, <2>11 DEF h
  <2>13. f[k].form = "primitive" =>
           /\ u.shape = "primitive" /\ Place(f, k, k + 1, o, d)
           /\ Counting(f, d, ls, AddToTop(ws, u.tl + u.length), At(f, k, k + 1))
    BY <2>1, <2>4, <2>6, <2>11, Zenon
  <2>14. f[k].form = "indefinite" =>
           /\ u.shape = "constructed" /\ u.indefinite
           /\ Place(f, k, k + 1, Append(o, k), d)
           /\ Counting(f, d, ls, AddToTop(ws, u.tl), At(f, k, k + 1))
    <3>1. "indefinite" # "primitive"
      OBVIOUS
    <3> QED
      BY <2>1, <2>4, <2>8, <2>11, <3>1, Zenon
  <2>15. f[k].form = "definite" =>
           /\ u.shape = "constructed" /\ ~u.indefinite
           /\ Place(f, k, k + 1, Append(o, k), Append(d, k))
           /\ Counting(f, Append(d, k), Append(ls, u.length),
                       Append(AddToTop(ws, u.tl), 0), At(f, k, k + 1))
    <3>1. "definite" # "primitive" /\ "definite" # "indefinite"
      OBVIOUS
    <3> QED
      BY <2>1, <2>4, <2>9, <2>11, <3>1, Zenon
  <2> QED
    BY <2>12, <2>13, <2>14, <2>15, Zenon DEF k, WalksInto
<1>2. CASE /\ ~NoneEnds(f, i, o) /\ f[Last(o)].form = "indefinite"
           /\ u = Eoc /\ SubSeq(us, 1, n + 1) = Walked(f, i, Last(o))
  <2>1. Place(f, i, Last(o), Front(o), d)
    <3>1. f[Last(o)].form # "definite"
      BY <1>2
    <3> QED
      BY <1>2, <3>1, PlaceCloses
  <2>2. At(f, i, Last(o)) = p + 2
    BY <1>0, <1>2, WalkCloses
  <2>3. u.shape = "primitive" /\ u.eoc /\ u.tl + u.length = 2
    <3>1. Eoc.shape = "primitive" /\ Eoc.tl + Eoc.length = 2
      BY EocParts
    <3> QED
      BY <1>2, <3>1, EocParts
  <2>4. Counting(f, d, ls, AddToTop(ws, 2), p + 2)
    <3>1. 2 \in Nat
      OBVIOUS
    <3> QED
      BY <3>1, CountMore, InnerTyped DEF Counting
  <2> HIDE DEF p
  <2>5. Counting(f, d, ls, AddToTop(ws, u.tl + u.length), At(f, i, Last(o)))
    BY <2>2, <2>3, <2>4
  <2>6. /\ ~NoneEnds(f, i, o) /\ u = Eoc
        /\ SubSeq(us, 1, n + 1) = Walked(f, i, Last(o))
    BY <1>2
  <2> QED
    BY <2>1, <2>3, <2>5, <2>6, Zenon DEF WalksOut
<1>3. \/ /\ NoneEnds(f, i, o) /\ i < Len(f) /\ u = h
         /\ SubSeq(us, 1, n + 1) = Walked(f, k, i + 2)
      \/ /\ ~NoneEnds(f, i, o) /\ f[Last(o)].form = "indefinite"
         /\ u = Eoc /\ SubSeq(us, 1, n + 1) = Walked(f, i, Last(o))
  BY ReadNext
<1> QED
  BY <1>1, <1>2, <1>3, Zenon

(* The innermost definite tag is complete: it ends, and its counters are   *)
(* popped.                                                                 *)
LEMMA EndPlaces ==
  ASSUME NEW f \in AllForests, NEW i, NEW b, NEW o, NEW d, Place(f, i, b, o, d),
         NEW ls, NEW ws, Counting(f, d, ls, ws, At(f, i, b)),
         Last(ls) = Last(ws), Len(ls) > 1
  PROVE  LET k == Last(o)
         IN  /\ ~NoneEnds(f, i, o) /\ o # << >> /\ LastOf(f, k) = i
             /\ Place(f, i, k, Front(o), Front(d)) /\ Walked(f, i, k) = Walked(f, i, b)
             /\ Counting(f, Front(d), Front(ls), AddToTop(Front(ws), Last(ls)),
                         At(f, i, k))
<1> DEFINE k == Last(o)
<1>1. d # << >>
  <2>1. Len(ls) = Len(d) + 1
    BY DEF Counting, CountingOf
  <2> QED
    BY <2>1
<1>2. At(f, i, b) = At(f, Last(d), Last(d) + 1) + Inner(f)[Last(d)]
  BY <1>1, CountEnds, InnerTyped DEF Counting
<1>3. ~NoneEnds(f, i, o) /\ f[k].form = "definite"
  BY <1>1, <1>2, PlaceEnds
<1>4. o # << >> /\ LastOf(f, k) = i /\ Place(f, i, k, Front(o), Front(d))
  BY <1>3, PlaceCloses
<1>5. Walked(f, i, k) = Walked(f, i, b) /\ At(f, i, k) = At(f, i, b)
  <2>1. WalkAt(f, i, b, o)
    BY PlaceTyped
  <2>2. f[k].form # "indefinite"
    BY <1>3
  <2> QED
    BY <1>3, <2>1, <2>2, WalkCloses
<1>6. Counting(f, Front(d), Front(ls), AddToTop(Front(ws), Last(ls)), At(f, i, b))
  BY <1>1, CountPop, InnerTyped DEF Counting
<1> QED
  BY <1>3, <1>4, <1>5, <1>6

(* It is not complete: no definite tag ends here.                          *)
LEMMA NoneComplete ==
  ASSUME NEW f \in AllForests, NEW i, NEW b, NEW o, NEW d, Place(f, i, b, o, d),
         NEW ls, NEW ws, Counting(f, d, ls, ws, At(f, i, b)), Last(ls) # Last(ws)
  PROVE  Settled(f, i, o)
<1> SUFFICES ASSUME ~Settled(f, i, o) PROVE FALSE
  OBVIOUS
<1>1. d # << >> /\ At(f, i, b) = At(f, Last(d), Last(d) + 1) + Inner(f)[Last(d)]
  BY PlaceEnds
<1> QED
  BY <1>1, CountEnds, InnerTyped DEF Counting

(* A part from the first element on is a prefix, and all of it if it is as *)
(* long.                                                                   *)
LEMMA FirstPart ==
  ASSUME NEW T, NEW s \in Seq(T), NEW n \in Nat, n <= Len(s)
  PROVE  IsPrefix(SubSeq(s, 1, n), s) /\ (n = Len(s) => SubSeq(s, 1, n) = s)
<1> DEFINE w == SubSeq(s, 1, n)
<1>1. /\ n \in Nat /\ Len(s) \in Nat /\ n <= Len(s) /\ 1 \in Nat /\ 1 <= 1 /\ 1 <= n + 1
      /\ n - 1 + 1 = n /\ \A x \in 1 .. n : 1 + x - 1 = x
  OBVIOUS
<1>2. w \in Seq(T) /\ Len(w) = n /\ \A x \in 1 .. n : w[x] = s[x]
  <2>1. /\ w \in Seq(T) /\ Len(w) = n - 1 + 1
        /\ \A x \in 1 .. (n - 1 + 1) : w[x] = s[1 + x - 1]
    BY <1>1, SubSeqElements
  <2> HIDE DEF w
  <2> QED
    BY <1>1, <2>1
<1> HIDE DEF w
<1>3. IsPrefix(w, s)
  BY <1>1, <1>2, PrefixIs
<1>4. n = Len(s) => w = s
  BY <1>2, SameElements
<1> QED
  BY <1>3, <1>4 DEF w

(***************************************************************************)
(* Levels that are poured into each other                                  *)
(***************************************************************************)
(* q: where the headers of the open levels are in the units us, of which p *)
(* were written so far.                                                    *)
Headers(q, p) ==
  /\ q \in Seq(Nat) /\ p \in Nat
  /\ \A n \in 1 .. Len(q) : From(q, n) < q[n] /\ q[n] <= p

(* Each level holds the units behind its header, up to the next header or  *)
(* to the last unit.                                                       *)
Filled(us, q, p, ws) ==
  /\ \A n \in 1 .. Len(q) : ws[n].items = SubSeq(us, From(q, n) + 1, q[n] - 1)
  /\ ws[Len(q) + 1].items = SubSeq(us, From(q, Len(q) + 1) + 1, p)

(* Where levels begin *)
LEMMA HeadersAre ==
  ASSUME NEW q, NEW p, Headers(q, p)
  PROVE  /\ q \in Seq(Nat) /\ p \in Nat /\ Len(q) \in Nat
         /\ \A n \in 1 .. Len(q) :
              /\ From(q, n) \in Nat /\ From(q, n) < q[n] /\ q[n] <= p /\ q[n] \in 1 .. p
              /\ From(q, n + 1) = q[n]
         /\ From(q, Len(q) + 1) \in Nat /\ From(q, Len(q) + 1) <= p
<1>1. /\ q \in Seq(Nat) /\ p \in Nat /\ Len(q) \in Nat
      /\ \A n \in 1 .. Len(q) : From(q, n) < q[n] /\ q[n] <= p /\ q[n] \in Nat
  BY DEF Headers
<1>2. \A n \in 1 .. Len(q) + 1 : n = 1 \/ n - 1 \in 1 .. Len(q)
  BY <1>1
<1>3. \A n \in 1 .. Len(q) + 1 : From(q, n) \in Nat /\ From(q, n) <= p
  BY <1>1, <1>2 DEF From
<1>4. ASSUME NEW n \in 1 .. Len(q) PROVE From(q, n + 1) = q[n] /\ n \in 1 .. Len(q) + 1
  <2>1. n + 1 # 1 /\ (n + 1) - 1 = n /\ n \in 1 .. Len(q) + 1
    BY <1>1
  <2> QED
    BY <2>1 DEF From
<1>5. \A n \in 1 .. Len(q) : From(q, n) \in Nat /\ q[n] \in 1 .. p
  BY <1>1, <1>3, <1>4
<1>6. Len(q) + 1 \in 1 .. Len(q) + 1
  BY <1>1
<1> QED
  BY <1>1, <1>3, <1>4, <1>5, <1>6

(* A unit is written to the innermost level. *)
LEMMA FillItem ==
  ASSUME NEW us \in Seq(Unit), NEW q, NEW p, Headers(q, p), p < Len(us),
         NEW ws, Filled(us, q, p, ws), InUse(ws, Len(q) + 1)
  PROVE  /\ Headers(q, p + 1)
         /\ Filled(us, q, p + 1, WriteTo(ws, Len(q) + 1, us[p + 1]))
<1> DEFINE m == Len(q)
           t == m + 1
           u == us[p + 1]
           vs == WriteTo(ws, t, u)
           a == From(q, t)
<1>1. /\ q \in Seq(Nat) /\ p \in Nat /\ m \in Nat /\ t \in Nat /\ t - 1 = m
      /\ a \in Nat /\ a <= p /\ \A n \in 1 .. m : n < t
  BY HeadersAre
<1>2. Headers(q, p + 1)
  <2>1. \A n \in 1 .. m : From(q, n) < q[n] /\ q[n] <= p + 1
    BY HeadersAre
  <2> QED
    BY <1>1, <2>1 DEF Headers
<1> HIDE DEF a, u, t
<1>3. /\ vs[t].items = Append(ws[t].items, u)
      /\ \A n \in 1 .. (t - 1) : vs[n] = ws[n]
  BY ItemsWritten DEF t
<1>4. ws[t].items = SubSeq(us, a + 1, p)
  BY DEF Filled, t, a
<1>5. Append(SubSeq(us, a + 1, p), u) = SubSeq(us, a + 1, p + 1)
  <2>1. a + 1 \in Nat /\ 1 <= a + 1 /\ a + 1 <= p + 1 /\ p + 1 <= Len(us)
    BY <1>1
  <2> QED
    BY <1>1, <2>1, SubSeqAppend DEF u
<1> HIDE DEF vs
<1>6. Filled(us, q, p + 1, vs)
  <2>1. \A n \in 1 .. m : vs[n].items = SubSeq(us, From(q, n) + 1, q[n] - 1)
    BY <1>1, <1>3 DEF Filled
  <2> QED
    BY <1>3, <1>4, <1>5, <2>1 DEF Filled, t, a
<1> QED
  BY <1>2, <1>6 DEF vs, t, u

(* A level is entered: its header is the next unit. *)
LEMMA FillEnter ==
  ASSUME NEW us \in Seq(Unit), NEW q, NEW p, Headers(q, p), p < Len(us),
         NEW ws, Filled(us, q, p, ws), InUse(ws, Len(q) + 1)
  PROVE  /\ Headers(Append(q, p + 1), p + 1)
         /\ Filled(us, Append(q, p + 1), p + 1, WithLevel(ws, Len(q) + 1))
<1> DEFINE m == Len(q)
           t == m + 1
           k == p + 1
           e == Append(q, k)
           vs == WithLevel(ws, t)
<1>1. /\ q \in Seq(Nat) /\ p \in Nat /\ m \in Nat /\ t \in Nat /\ t - 1 = m
      /\ k \in Nat /\ k - 1 = p
      /\ \A n \in 1 .. m : From(q, n) < q[n] /\ q[n] <= p /\ q[n] \in Nat
      /\ From(q, t) \in Nat /\ From(q, t) <= p
  BY HeadersAre
<1>2. e \in Seq(Nat) /\ Len(e) = t /\ e[t] = k /\ \A n \in 1 .. m : e[n] = q[n]
  BY <1>1
<1> HIDE DEF e
<1>3. \A n \in 1 .. t : From(e, n) = From(q, n)
  <2>1. \A n \in 1 .. t : n = 1 \/ n - 1 \in 1 .. m
    BY <1>1
  <2> QED
    BY <1>2, <2>1 DEF From
<1>4. From(e, t + 1) = k
  <2>1. t + 1 # 1 /\ (t + 1) - 1 = t
    BY <1>1
  <2> QED
    BY <1>2, <2>1 DEF From
<1>5. ASSUME NEW n \in 1 .. t PROVE n \in 1 .. m \/ n = t
  BY <1>1
<1> HIDE DEF t
<1>6. Headers(e, k)
  <2> SUFFICES ASSUME NEW n \in 1 .. t PROVE From(e, n) < e[n] /\ e[n] <= k
    BY <1>1, <1>2 DEF Headers
  <2>1. CASE n \in 1 .. m
    BY <1>1, <1>2, <1>3, <2>1
  <2>2. CASE n = t
    <3>1. From(e, n) = From(q, t) /\ e[n] = k
      BY <1>2, <1>3, <2>2
    <3>2. From(q, t) \in Nat /\ From(q, t) <= p /\ p \in Nat /\ k = p + 1
      BY <1>1
    <3> QED
      BY <3>1, <3>2
  <2> QED
    BY <1>5, <2>1, <2>2
<1>7. vs[t + 1].items = << >> /\ \A n \in 1 .. t : vs[n] = ws[n]
  BY ItemsEntered DEF t
<1> HIDE DEF vs
<1>8. SubSeq(us, k + 1, k) = << >>
  BY <1>1
<1>9. ASSUME NEW n \in 1 .. t
      PROVE  vs[n].items = SubSeq(us, From(e, n) + 1, e[n] - 1)
  <2>1. CASE n \in 1 .. m
    <3>1. ws[n].items = SubSeq(us, From(q, n) + 1, q[n] - 1)
      BY <2>1 DEF Filled
    <3> QED
      BY <1>2, <1>3, <1>7, <2>1, <3>1
  <2>2. CASE n = t
    <3>1. ws[t].items = SubSeq(us, From(q, t) + 1, p)
      BY DEF Filled, t
    <3> QED
      BY <1>1, <1>2, <1>3, <1>7, <2>2, <3>1
  <2> QED
    BY <1>5, <2>1, <2>2
<1>10. Filled(us, e, k, vs)
  BY <1>2, <1>4, <1>7, <1>8, <1>9 DEF Filled
<1> QED
  BY <1>6, <1>10 DEF e, vs, t

(* A level is left: its header and what is in it go to the one below.      *)
LEMMA FillLeave ==
  ASSUME NEW us \in Seq(Unit), NEW q, NEW p, Headers(q, p), p <= Len(us), q # << >>,
         NEW ws, Filled(us, q, p, ws), InUse(ws, Len(q) + 1)
  PROVE  /\ Headers(Front(q), p)
         /\ Filled(us, Front(q), p, Pour(ws, Len(q) + 1, us[Last(q)]))
         /\ ws[Len(q) + 1].items = SubSeq(us, Last(q) + 1, p)
         /\ ws[Len(q) + 1].pos = SpanOf(SubSeq(us, Last(q) + 1, p))
<1> DEFINE m == Len(q)
           t == m + 1
           k == Last(q)
           e == Front(q)
           h == us[k]
           vs == Pour(ws, t, h)
           a == From(q, m)
<1>1. /\ q \in Seq(Nat) /\ p \in Nat /\ m \in Nat /\ t \in Nat /\ t - 1 = m /\ t - 2 = m - 1
      /\ \A n \in 1 .. m : From(q, n) < q[n] /\ q[n] <= p /\ q[n] \in Nat
      /\ t \in 1 .. t
  BY HeadersAre
<1>2. m >= 1 /\ m \in 1 .. m /\ k = q[m] /\ t > 1 /\ (m - 1) + 1 = m
  BY <1>1 DEF Last
<1>3. e \in Seq(Nat) /\ Len(e) = m - 1 /\ \A n \in 1 .. m - 1 : e[n] = q[n]
  <2>1. Len(q) >= 1
    BY <1>2
  <2> QED
    BY <1>1, <2>1, AllButLast
<1>4. /\ a \in Nat /\ a < k /\ k <= p /\ From(q, t) = k /\ k \in Nat
  BY <1>2, HeadersAre
<1> HIDE DEF e, k
<1>5. \A n \in 1 .. m : From(e, n) = From(q, n)
  <2>1. \A n \in 1 .. m : n = 1 \/ n - 1 \in 1 .. m - 1
    BY <1>1
  <2> QED
    BY <1>3, <2>1 DEF From
<1>6. Headers(e, p)
  <2> SUFFICES ASSUME NEW n \in 1 .. m - 1 PROVE From(e, n) < e[n] /\ e[n] <= p
    BY <1>1, <1>3 DEF Headers
  <2>1. n \in 1 .. m
    BY <1>1
  <2> QED
    BY <1>1, <1>3, <1>5, <2>1
<1> HIDE DEF t, h, a
<1>7. /\ vs[m].items = (Append(ws[m].items, h) \o ws[t].items)
      /\ \A n \in 1 .. m - 1 : vs[n] = ws[n]
  <2>0. InUse(ws, t) /\ t > 1
    BY <1>2 DEF t
  <2>1. Pour(ws, t, h)[t - 1].items = (Append(ws[t - 1].items, h) \o ws[t].items)
    BY <2>0, ItemsPoured
  <2>2. \A n \in 1 .. t - 2 : Pour(ws, t, h)[n] = ws[n]
    BY <2>0, ItemsBelow
  <2> QED
    BY <1>1, <2>1, <2>2
<1> HIDE DEF vs
<1>8. /\ ws[m].items = SubSeq(us, a + 1, k - 1) /\ ws[t].items = SubSeq(us, k + 1, p)
  <2>1. ws[m].items = SubSeq(us, From(q, m) + 1, q[m] - 1)
    BY <1>2 DEF Filled
  <2>2. ws[t].items = SubSeq(us, From(q, t) + 1, p)
    BY DEF Filled, t
  <2> QED
    BY <1>2, <1>4, <2>1, <2>2 DEF a
<1>9. Append(SubSeq(us, a + 1, k - 1), h) \o SubSeq(us, k + 1, p) = SubSeq(us, a + 1, p)
  <2> DEFINE j == k - 1
             c == a + 1
  <2>1. /\ j \in Nat /\ c \in Nat /\ 1 <= c /\ c <= j + 1 /\ j + 1 <= Len(us) /\ j + 1 = k
        /\ c <= k + 1 /\ Len(us) \in Nat
    BY <1>1, <1>4
  <2>2. Append(SubSeq(us, c, j), us[j + 1]) = SubSeq(us, c, j + 1)
    <3> HIDE DEF j, c
    <3> QED
      BY <2>1, SubSeqAppend
  <2>3. SubSeq(us, c, k) \o SubSeq(us, k + 1, p) = SubSeq(us, c, p)
    <3> HIDE DEF j, c
    <3> QED
      BY <1>1, <1>4, <2>1, SubSeqJoined
  <2> QED
    BY <2>1, <2>2, <2>3 DEF h
<1>10. Filled(us, e, p, vs)
  <2>1. ASSUME NEW n \in 1 .. m - 1
        PROVE  vs[n].items = SubSeq(us, From(e, n) + 1, e[n] - 1)
    <3>1. n \in 1 .. m
      BY <1>1
    <3>2. ws[n].items = SubSeq(us, From(q, n) + 1, q[n] - 1)
      BY <3>1 DEF Filled
    <3> QED
      BY <1>3, <1>5, <1>7, <3>1, <3>2
  <2>2. vs[m].items = SubSeq(us, From(e, m) + 1, p)
    BY <1>2, <1>5, <1>7, <1>8, <1>9 DEF a
  <2> QED
    BY <1>2, <1>3, <2>1, <2>2 DEF Filled
<1>11. ws[t].pos = SpanOf(ws[t].items)
  <2>1. InUse(ws, t) /\ t \in 1 .. t
    BY <1>1 DEF t
  <2> QED
    BY <2>1, UsedWriters
<1> QED
  BY <1>6, <1>8, <1>10, <1>11 DEF e, k, h, vs, t

(* What was walked so far and one more unit *)
LEMMA UnitWalked ==
  ASSUME NEW f \in AllForests, NEW i \in 0 .. Len(f), NEW b \in Nat, b >= 1,
         NEW j \in 0 .. Len(f), NEW c \in Nat, c >= 1,
         NEW u, Walked(f, j, c) = Append(Walked(f, i, b), u)
  PROVE  LET p == Len(Walked(f, i, b))
         IN  /\ Units(f) \in Seq(Unit) /\ p \in Nat /\ p < Len(Units(f))
             /\ Units(f)[p + 1] = u /\ Len(Walked(f, j, c)) = p + 1
<1> DEFINE v == Walked(f, i, b)
           w == Walked(f, j, c)
           all == Units(f)
           T == EncodedUnit
<1>1. /\ IsPrefix(w, all) /\ all \in Seq(T) /\ v \in Seq(T) /\ w \in Seq(T)
  BY WalkedPrefix, WalkedTyped
<1>2. \A e \in T : e \in Unit
  BY EncodedParts
<1>3. w = Append(v, u)
  OBVIOUS
<1> HIDE DEF v, w, all, T
<1>4. Len(w) <= Len(all) /\ \A n \in 1 .. Len(w) : w[n] = all[n]
  BY <1>1, PrefixIs
<1>5. Len(w) = Len(v) + 1 /\ w[Len(v) + 1] = u /\ Len(v) \in Nat
  BY <1>1, <1>3
<1>6. Len(v) + 1 \in 1 .. Len(w) /\ Len(all) \in Nat
  BY <1>1, <1>5
<1>7. all \in Seq(Unit)
  BY <1>1, <1>2
<1> QED
  BY <1>4, <1>5, <1>6, <1>7 DEF v, w, all

(***************************************************************************)
(* Levels of a walk                                                        *)
(***************************************************************************)
(* There is a level for the output and one for each definite tag d that    *)
(* the walk is inside of, with the units behind the header of that tag.    *)
Held(f, i, b, d, q, top, ws) ==
  /\ top = Len(d) + 1 /\ Len(q) = Len(d)
  /\ \A n \in 1 .. Len(d) : q[n] = Begin(f, d[n])
  /\ Headers(q, Len(Walked(f, i, b)))
  /\ Filled(Units(f), q, Len(Walked(f, i, b)), ws)

LEMMA HeldBegins ==
  ASSUME NEW f \in AllForests
  PROVE  Held(f, 0, 1, << >>, << >>, 1, <<EmptyWriter>>)
<1>1. Walked(f, 0, 1) = << >> /\ Units(f) \in Seq(EncodedUnit)
  BY PlaceBegins, UnitsTyped
<1>2. Headers(<< >>, 0)
  BY DEF Headers
<1>3. SubSeq(Units(f), 1, 0) = << >>
  BY <1>1
<1>4. Filled(Units(f), << >>, 0, <<EmptyWriter>>)
  <2> DEFINE q == << >>
             ws == <<EmptyWriter>>
             us == Units(f)
  <2>1. Len(q) = 0 /\ From(q, Len(q) + 1) = 0
    BY DEF From
  <2>2. ws[1].items = << >>
    BY DEF EmptyWriter
  <2>3. SubSeq(us, 1, 0) = << >>
    BY <1>3
  <2> HIDE DEF q, ws, us
  <2>4. /\ 1 .. Len(q) = {}
        /\ ws[Len(q) + 1].items = SubSeq(us, From(q, Len(q) + 1) + 1, 0)
    <3>1. 1 .. Len(q) = {} /\ Len(q) + 1 = 1 /\ From(q, Len(q) + 1) + 1 = 1
      BY <2>1
    <3> QED
      BY <2>2, <2>3, <3>1, Zenon
  <2>5. Filled(us, q, 0, ws)
    BY <2>4, Zenon DEF Filled
  <2> QED
    BY <2>5 DEF q, ws, us
<1> QED
  BY <1>1, <1>2, <1>4 DEF Held

(* A node begins: its header goes to the innermost level, or a level is    *)
(* entered if its length is not known yet.                                 *)
LEMMA HeldOpens ==
  ASSUME NEW f \in AllForests, NEW i, NEW b, NEW o, NEW d, Place(f, i, b, o, d),
         NoneEnds(f, i, o), i < Len(f),
         NEW q, NEW top, NEW ws, Held(f, i, b, d, q, top, ws), InUse(ws, top)
  PROVE  LET k == i + 1
             p == Len(Walked(f, i, b))
         IN  /\ f[k].form # "definite" =>
                  Held(f, k, k + 1, d, q, top, WriteTo(ws, top, HeadOf(f, k)))
             /\ f[k].form = "definite" =>
                  Held(f, k, k + 1, Append(d, k), Append(q, p + 1), top + 1,
                       WithLevel(ws, top))
<1> DEFINE k == i + 1
           p == Len(Walked(f, i, b))
           us == Units(f)
           u == HeadOf(f, k)
<1>1. /\ i \in 0 .. Len(f) /\ i \in Nat /\ b \in Nat /\ b >= 1 /\ k \in 1 .. Len(f)
      /\ k \in 0 .. Len(f) /\ k + 1 \in Nat /\ k + 1 >= 1 /\ d \in Seq(Nat) /\ Len(d) \in Nat
      /\ k + 1 = i + 2
  <2>1. /\ i \in 0 .. Len(f) /\ i \in Nat /\ b \in Nat /\ b >= 1 /\ d \in Seq(Nat)
    BY PlaceTyped
  <2>2. Len(f) \in Nat /\ Len(d) \in Nat
    BY <2>1, NodesTyped
  <2> QED
    BY <2>1, <2>2
<1>2. Walked(f, k, k + 1) = Append(Walked(f, i, b), u)
  <2>1. WalkAt(f, i, b, o)
    BY PlaceTyped
  <2>2. Walked(f, i + 1, i + 2) = Append(Walked(f, i, b), HeadOf(f, i + 1))
    BY <2>1, WalkOpens
  <2> QED
    BY <1>1, <2>2
<1> HIDE DEF k, u
<1>3. /\ us \in Seq(Unit) /\ p \in Nat /\ p < Len(us) /\ us[p + 1] = u
      /\ Len(Walked(f, k, k + 1)) = p + 1
  BY <1>1, <1>2, UnitWalked
<1>4. /\ top = Len(q) + 1 /\ top = Len(d) + 1 /\ Len(q) = Len(d)
      /\ \A n \in 1 .. Len(d) : q[n] = Begin(f, d[n])
      /\ Headers(q, p) /\ Filled(us, q, p, ws)
  BY DEF Held
<1> HIDE DEF p, us
<1>5. /\ Headers(q, p + 1) /\ Filled(us, q, p + 1, WriteTo(ws, top, u))
      /\ Headers(Append(q, p + 1), p + 1)
      /\ Filled(us, Append(q, p + 1), p + 1, WithLevel(ws, top))
  <2>1. InUse(ws, Len(q) + 1)
    BY <1>4
  <2>2. /\ Headers(q, p + 1) /\ Filled(us, q, p + 1, WriteTo(ws, Len(q) + 1, us[p + 1]))
    BY <1>3, <1>4, <2>1, FillItem
  <2>3. /\ Headers(Append(q, p + 1), p + 1)
        /\ Filled(us, Append(q, p + 1), p + 1, WithLevel(ws, Len(q) + 1))
    BY <1>3, <1>4, <2>1, FillEnter
  <2> QED
    BY <1>3, <1>4, <2>2, <2>3
<1>6. Held(f, k, k + 1, d, q, top, WriteTo(ws, top, u))
  BY <1>3, <1>4, <1>5 DEF Held, us
<1>7. Held(f, k, k + 1, Append(d, k), Append(q, p + 1), top + 1, WithLevel(ws, top))
  <2> DEFINE e == Append(d, k)
             r == Append(q, p + 1)
             m == Len(d)
  <2>1. /\ Len(e) = m + 1 /\ e[m + 1] = k /\ \A n \in 1 .. m : e[n] = d[n]
        /\ m \in Nat
    BY <1>1
  <2>2. q \in Seq(Nat)
    BY <1>4 DEF Headers
  <2>3. Len(r) = m + 1 /\ r[m + 1] = p + 1 /\ \A n \in 1 .. m : r[n] = q[n]
    BY <1>3, <1>4, <2>2
  <2>4. Begin(f, k) = p + 1
    BY <1>3 DEF Begin
  <2> HIDE DEF e, r, m
  <2>5. ASSUME NEW n \in 1 .. Len(e) PROVE r[n] = Begin(f, e[n])
    <3>1. n \in 1 .. m \/ n = m + 1
      BY <2>1
    <3> QED
      BY <1>4, <2>1, <2>3, <2>4, <3>1 DEF m
  <2>6. top + 1 = Len(e) + 1 /\ Len(r) = Len(e)
    BY <1>4, <2>1, <2>3 DEF m
  <2>7. Headers(r, p + 1) /\ Filled(us, r, p + 1, WithLevel(ws, top))
    BY <1>5 DEF r
  <2>8. Held(f, k, k + 1, e, r, top + 1, WithLevel(ws, top))
    BY <1>3, <2>5, <2>6, <2>7 DEF Held, us
  <2> QED
    BY <2>8 DEF e, r
<1> QED
  BY <1>6, <1>7 DEF k, p, u

(* The innermost node ends: an end-of-content unit goes to the innermost   *)
(* level, or that level is left.                                           *)
LEMMA HeldCloses ==
  ASSUME NEW f \in AllForests, NEW i, NEW b, NEW o, NEW d, Place(f, i, b, o, d),
         ~NoneEnds(f, i, o),
         NEW q, NEW top, NEW ws, Held(f, i, b, d, q, top, ws), InUse(ws, top)
  PROVE  LET k == Last(o)
         IN  /\ f[k].form = "indefinite" => Held(f, i, k, d, q, top, WriteTo(ws, top, Eoc))
             /\ f[k].form = "definite" =>
                  /\ top > 1 /\ ws[top].pos = Inner(f)[k]
                  /\ Held(f, i, k, Front(d), Front(q), top - 1,
                          Pour(ws, top, HeadOf(f, k)))
<1> DEFINE k == Last(o)
           p == Len(Walked(f, i, b))
           us == Units(f)
<1>1. /\ i \in 0 .. Len(f) /\ i \in Nat /\ b \in Nat /\ b >= 1
      /\ d \in Seq(Nat) /\ Len(d) \in Nat /\ WalkAt(f, i, b, o)
  BY PlaceTyped
<1>2. /\ k \in 1 .. i /\ k \in 1 .. Len(f) /\ LastOf(f, k) = i
      /\ f[k].form = "definite" => d # << >> /\ Last(d) = k
  BY PlaceCloses
<1>3. /\ f[k].form = "indefinite" => Walked(f, i, k) = Append(Walked(f, i, b), Eoc)
      /\ f[k].form # "indefinite" => Walked(f, i, k) = Walked(f, i, b)
  BY <1>1, WalkCloses
<1>4. /\ top = Len(q) + 1 /\ top = Len(d) + 1 /\ Len(q) = Len(d)
      /\ \A n \in 1 .. Len(d) : q[n] = Begin(f, d[n])
      /\ Headers(q, p) /\ Filled(us, q, p, ws)
  BY DEF Held
<1>5. k \in Nat /\ k >= 1 /\ i \in 1 .. Len(f)
  BY <1>1, <1>2
<1> HIDE DEF k
<1>6. ASSUME f[k].form = "indefinite"
      PROVE  Held(f, i, k, d, q, top, WriteTo(ws, top, Eoc))
  <2>1. /\ us \in Seq(Unit) /\ p \in Nat /\ p < Len(us) /\ us[p + 1] = Eoc
        /\ Len(Walked(f, i, k)) = p + 1
    <3>1. Walked(f, i, k) = Append(Walked(f, i, b), Eoc)
      BY <1>3, <1>6
    <3>2. i \in 0 .. Len(f) /\ b \in Nat /\ b >= 1 /\ k \in Nat /\ k >= 1
      BY <1>1, <1>5
    <3> HIDE DEF p, us
    <3>3. LET n == Len(Walked(f, i, b))
          IN  /\ Units(f) \in Seq(Unit) /\ n \in Nat /\ n < Len(Units(f))
              /\ Units(f)[n + 1] = Eoc /\ Len(Walked(f, i, k)) = n + 1
      BY <3>1, <3>2, UnitWalked
    <3> QED
      BY <3>3, Zenon DEF p, us
  <2> HIDE DEF p, us
  <2>2. InUse(ws, Len(q) + 1)
    BY <1>4
  <2>3. /\ Headers(q, p + 1) /\ Filled(us, q, p + 1, WriteTo(ws, Len(q) + 1, us[p + 1]))
    BY <1>4, <2>1, <2>2, FillItem
  <2> QED
    BY <1>4, <2>1, <2>3 DEF Held, us
<1>7. ASSUME f[k].form = "definite"
      PROVE  /\ top > 1 /\ ws[top].pos = Inner(f)[k]
             /\ Held(f, i, k, Front(d), Front(q), top - 1, Pour(ws, top, HeadOf(f, k)))
  <2> DEFINE w == Walked(f, i, b)
             m == Len(d)
  <2>1. /\ w \in Seq(EncodedUnit) /\ us \in Seq(EncodedUnit) /\ IsPrefix(w, us)
        /\ us \in Seq(Unit)
    <3>1. w \in Seq(EncodedUnit) /\ us \in Seq(EncodedUnit) /\ IsPrefix(w, us)
      BY <1>1, WalkedPrefix, WalkedTyped
    <3>2. \A e \in EncodedUnit : e \in Unit
      BY EncodedParts
    <3> QED
      BY <3>1, <3>2
  <2>2. w = Walked(f, i, k) /\ p = Len(w)
    BY <1>3, <1>7
  <2>3. /\ d # << >> /\ m >= 1 /\ m \in 1 .. m /\ Last(d) = k /\ d[m] = k
    BY <1>1, <1>2, <1>7 DEF Last
  <2>4. Len(Front(d)) = m - 1 /\ \A n \in 1 .. m - 1 : Front(d)[n] = d[n]
    BY <1>1, <2>3, AllButLast
  <2>5. q \in Seq(Nat) /\ Len(q) >= 1 /\ q # << >> /\ Last(q) = Begin(f, k)
    <3>1. q \in Seq(Nat)
      BY <1>4 DEF Headers
    <3>2. Len(q) >= 1 /\ q[Len(q)] = Begin(f, k)
      BY <1>4, <2>3
    <3> QED
      BY <3>1, <3>2 DEF Last
  <2>6. Len(Front(q)) = m - 1 /\ \A n \in 1 .. m - 1 : Front(q)[n] = q[n]
    <3>1. /\ Len(Front(q)) = Len(q) - 1
          /\ \A n \in 1 .. Len(q) - 1 : Front(q)[n] = q[n]
      BY <2>5, AllButLast
    <3> QED
      BY <1>4, <3>1
  <2>7. /\ w[Begin(f, k)] = HeadOf(f, k)
        /\ At(f, i, b) = At(f, k, k + 1)
                           + SpanOf(SubSeq(w, Begin(f, k) + 1, Len(w)))
        /\ SpanOf(SubSeq(w, Begin(f, k) + 1, Len(w))) \in Nat
    BY <1>1, <1>2, <1>5, ReadInside
  <2>8. At(f, i, k) = At(f, k, k + 1) + Inner(f)[k] /\ At(f, k, k + 1) \in Nat
        /\ Inner(f)[k] \in Nat
    <3>1. At(f, i, k) = At(f, k, k + 1) + Inside(f, k)
      BY <1>2, OctetsInside
    <3>2. Inside(f, k) = Inner(f)[k]
      BY <1>7 DEF Inside
    <3>3. k \in 0 .. Len(f) /\ k + 1 \in Nat
      BY <1>2
    <3> QED
      BY <1>2, <3>1, <3>2, <3>3, WalkedTyped, HeadTyped
  <2>9. At(f, i, k) = At(f, i, b)
    BY <2>2, Zenon DEF At
  <2> DEFINE h == Last(q)
  <2>10. h \in 1 .. Len(w) /\ h = Begin(f, k)
    BY <1>2, <1>5, <1>1, <2>5, BeginsGrow
  <2> HIDE DEF w, us, p, h, m
  <2>11. Len(w) <= Len(us) /\ (\A n \in 1 .. Len(w) : w[n] = us[n]) /\ Len(w) \in Nat
         /\ Len(us) \in Nat
    BY <2>1, PrefixIs
  <2>12. us[h] = HeadOf(f, k)
    BY <2>7, <2>10, <2>11
  <2>13. SubSeq(us, h + 1, p) = SubSeq(w, h + 1, Len(w))
    <3> DEFINE a == h + 1
               s == SubSeq(us, a, p)
               t == SubSeq(w, a, p)
    <3>1. /\ a \in Nat /\ p \in Nat /\ 1 <= a /\ a <= p + 1 /\ p <= Len(us) /\ p <= Len(w)
          /\ p = Len(w)
      BY <2>2, <2>10, <2>11
    <3> HIDE DEF a
    <3>2. /\ s \in Seq(EncodedUnit) /\ Len(s) = p - a + 1
          /\ \A n \in 1 .. (p - a + 1) : s[n] = us[a + n - 1]
      BY <2>1, <3>1, SubSeqElements
    <3>3. /\ t \in Seq(EncodedUnit) /\ Len(t) = p - a + 1
          /\ \A n \in 1 .. (p - a + 1) : t[n] = w[a + n - 1]
      BY <2>1, <3>1, SubSeqElements
    <3> HIDE DEF s, t
    <3>4. \A n \in 1 .. (p - a + 1) : a + n - 1 \in 1 .. Len(w)
      BY <3>1
    <3>5. \A n \in 1 .. Len(s) : s[n] = t[n]
      BY <2>11, <3>2, <3>3, <3>4
    <3>6. s = t
      BY <3>2, <3>3, <3>5, SameElements
    <3> QED
      BY <3>1, <3>6 DEF s, t, a
  <2>14. InUse(ws, Len(q) + 1) /\ p <= Len(us)
    BY <1>4, <2>2, <2>11
  <2>15. /\ Headers(Front(q), p) /\ Filled(us, Front(q), p, Pour(ws, Len(q) + 1, us[h]))
         /\ ws[Len(q) + 1].pos = SpanOf(SubSeq(us, h + 1, p))
    BY <1>4, <2>1, <2>5, <2>14, FillLeave DEF h
  <2>16. ws[top].pos = Inner(f)[k]
    <3>1. ws[top].pos = SpanOf(SubSeq(w, h + 1, Len(w)))
      BY <1>4, <2>13, <2>15
    <3> DEFINE y == SpanOf(SubSeq(w, h + 1, Len(w)))
               z == At(f, k, k + 1)
    <3> HIDE DEF y, z
    <3>2. z + y = z + Inner(f)[k] /\ y \in Nat /\ z \in Nat /\ Inner(f)[k] \in Nat
      BY <2>7, <2>8, <2>9, <2>10 DEF y, z
    <3>3. y = Inner(f)[k]
      BY <3>2
    <3> QED
      BY <3>1, <3>3 DEF y
  <2>17. Held(f, i, k, Front(d), Front(q), top - 1, Pour(ws, top, HeadOf(f, k)))
    <3>1. top - 1 = Len(Front(d)) + 1 /\ Len(Front(q)) = Len(Front(d))
      BY <1>1, <1>4, <2>4, <2>6 DEF m
    <3>2. \A n \in 1 .. Len(Front(d)) : Front(q)[n] = Begin(f, Front(d)[n])
      <4>1. ASSUME NEW n \in 1 .. m - 1 PROVE n \in 1 .. Len(d)
        BY <1>1 DEF m
      <4> QED
        BY <1>4, <2>4, <2>6, <4>1
    <3>3. /\ Headers(Front(q), Len(Walked(f, i, k)))
          /\ Filled(us, Front(q), Len(Walked(f, i, k)), Pour(ws, top, HeadOf(f, k)))
      BY <1>4, <2>2, <2>12, <2>15
    <3> QED
      BY <3>1, <3>2, <3>3 DEF Held, us
  <2>18. top > 1
    BY <1>1, <1>4, <2>3 DEF m
  <2> QED
    BY <2>16, <2>17, <2>18
<1> QED
  BY <1>6, <1>7 DEF k

(* At the end, the output has all units. *)
LEMMA HeldEnds ==
  ASSUME NEW f \in AllForests, NEW i, NEW b, NEW o, NEW d, Place(f, i, b, o, d),
         i = Len(f), o = << >>,
         NEW q, NEW top, NEW ws, Held(f, i, b, d, q, top, ws)
  PROVE  ws[1].items = Units(f)
<1>1. Walked(f, i, b) = Units(f) /\ Units(f) \in Seq(EncodedUnit)
  BY PlaceTyped, WalkRest, UnitsTyped DEF NoneEnds
<1>2. Len(d) = 0
  <2>1. Open(f, i, b) = {}
    BY PlaceTyped, AscendingNone DEF WalkAt
  <2>2. \A n \in 1 .. Len(d) : d[n] \in Open(f, i, b)
    BY PlaceTyped
  <2>3. d \in Seq(Nat)
    BY PlaceTyped
  <2> QED
    BY <2>1, <2>2, <2>3
<1>3. /\ Len(q) = 0 /\ Filled(Units(f), q, Len(Units(f)), ws)
  BY <1>1, <1>2 DEF Held
<1>4. ws[1].items = SubSeq(Units(f), 1, Len(Units(f)))
  BY <1>3 DEF Filled, From
<1> QED
  BY <1>1, <1>4

(* What OpenTag() and CloseTag() do to the writers *)
LEMMA TagOpened ==
  ASSUME NEW q, Sound(q), NEW tlv
  PROVE  LET r == OpenTag(q, tlv)
         IN  /\ r.tlvs = Append(q.tlvs, tlv)
             /\ tlv.indefinite =>
                  r.writers = WriteTo(q.writers, q.top, tlv) /\ r.top = q.top
             /\ ~tlv.indefinite =>
                  r.writers = WithLevel(q.writers, q.top) /\ r.top = q.top + 1
<1> DEFINE s  == Append(q.tlvs, tlv)
           ws == q.writers
           n  == q.top
           o  == SetTlvs(q, s)
<1>1. q = State(q.tlvs, ws, n)
  BY SoundParts
<1>2. o = State(s, ws, n) /\ o.writers = ws /\ o.top = n
  BY <1>1, StateChanges
<1>3. ASSUME tlv.indefinite PROVE OpenTag(q, tlv) = State(s, WriteTo(ws, n, tlv), n)
  <2>1. OpenTag(q, tlv) = SetWriters(o, WriteTo(o.writers, q.top, tlv))
    BY <1>3, Zenon DEF OpenTag, SetTlvs, SetWriters
  <2> QED
    BY <1>2, <2>1, StateChanges
<1>4. ASSUME ~tlv.indefinite PROVE OpenTag(q, tlv) = State(s, WithLevel(ws, n), n + 1)
  <2> DEFINE p == SetWriters(o, WithLevel(ws, n))
  <2>1. p = State(s, WithLevel(ws, n), n) /\ p.top = n
    BY <1>2, StateChanges
  <2>2. OpenTag(q, tlv) =
          SetTop(SetWriters(o, WithLevel(o.writers, q.top)),
                 SetWriters(o, WithLevel(o.writers, q.top)).top + 1)
    BY <1>4, Zenon DEF OpenTag, SetTlvs, SetWriters, SetTop
  <2>3. OpenTag(q, tlv) = SetTop(p, p.top + 1)
    BY <1>2, <2>2, Zenon
  <2> QED
    BY <2>1, <2>3, StateChanges
<1> HIDE DEF s, ws, n, o
<1>5. tlv.indefinite => /\ OpenTag(q, tlv).tlvs = s
                        /\ OpenTag(q, tlv).writers = WriteTo(ws, n, tlv)
                        /\ OpenTag(q, tlv).top = n
  BY <1>3, StateChanges
<1>6. ~tlv.indefinite => /\ OpenTag(q, tlv).tlvs = s
                         /\ OpenTag(q, tlv).writers = WithLevel(ws, n)
                         /\ OpenTag(q, tlv).top = n + 1
  BY <1>4, StateChanges
<1> QED
  BY <1>5, <1>6 DEF s, ws, n

LEMMA TagClosed ==
  ASSUME NEW q, Sound(q)
  PROVE  LET r == CloseTag(q)
             tlv == Last(q.tlvs)
         IN  /\ r.tlvs = Front(q.tlvs)
             /\ tlv.indefinite =>
                  r.writers = WriteTo(q.writers, q.top, Eoc) /\ r.top = q.top
             /\ ~tlv.indefinite =>
                  /\ r.writers = Pour(q.writers, q.top,
                                      HeaderOf(tlv, q.writers[q.top].pos))
                  /\ r.top = q.top - 1
<1> DEFINE s   == Front(q.tlvs)
           tlv == Last(q.tlvs)
           ws  == q.writers
           n   == q.top
           o   == SetTlvs(q, s)
           h   == HeaderOf(tlv, ws[n].pos)
<1>1. q = State(q.tlvs, ws, n)
  BY SoundParts
<1>2. o = State(s, ws, n) /\ o.writers = ws /\ o.top = n
  BY <1>1, StateChanges
<1>3. ASSUME tlv.indefinite PROVE CloseTag(q) = State(s, WriteTo(ws, n, Eoc), n)
  <2>1. CloseTag(q) = SetWriters(o, WriteTo(o.writers, q.top, Eoc))
    BY <1>3, Zenon DEF CloseTag, SetTlvs, SetWriters
  <2> QED
    BY <1>2, <2>1, StateChanges
<1>4. ASSUME ~tlv.indefinite PROVE CloseTag(q) = State(s, Pour(ws, n, h), n - 1)
  <2> DEFINE p == SetTop(o, n - 1)
  <2>1. p = State(s, ws, n - 1) /\ p.writers = ws
    BY <1>2, StateChanges
  <2>2. CloseTag(q) =
          SetWriters(SetTop(o, o.top - 1), Pour(SetTop(o, o.top - 1).writers, q.top, h))
    BY <1>4, Zenon DEF CloseTag, SetTlvs, SetWriters, SetTop
  <2>3. CloseTag(q) = SetWriters(p, Pour(p.writers, q.top, h))
    BY <1>2, <2>2, Zenon
  <2> QED
    BY <2>1, <2>3, StateChanges
<1> HIDE DEF s, tlv, ws, n, o, h
<1>5. tlv.indefinite => /\ CloseTag(q).tlvs = s
                        /\ CloseTag(q).writers = WriteTo(ws, n, Eoc)
                        /\ CloseTag(q).top = n
  BY <1>3, StateChanges
<1>6. ~tlv.indefinite => /\ CloseTag(q).tlvs = s
                         /\ CloseTag(q).writers = Pour(ws, n, h)
                         /\ CloseTag(q).top = n - 1
  BY <1>4, StateChanges
<1> QED
  BY <1>5, <1>6 DEF s, tlv, ws, n, h
=============================================================================
