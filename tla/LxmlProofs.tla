----------------------------- MODULE LxmlProofs ------------------------------
(***************************************************************************)
(* The tree converters, for every forest, every limit on the units and     *)
(* whatever is missing from the input or too much in it: Tree_Generator    *)
(* builds a tree, and does not pop the catch-all root of its counters;     *)
(* Lxml2Ber keeps its stack of elements in step with the open tags, and    *)
(* has a tag to pop for each null on it.                                   *)
(*                                                                         *)
(* TreesShown: the tree shows the input.  Tree_Generator has counters of   *)
(* octets and a stack of elements, and the proof relates them to a walk    *)
(* through the forest (see LevelsProofs): the stack holds the nodes that   *)
(* the walk is inside of.  An end-of-content unit too many leaves it one   *)
(* element short, until the last of these units finds none.                *)
(*                                                                         *)
(* TreesWritten: what Lxml2Ber writes is the tree.  The proof relates its  *)
(* stack, its open tags and its levels of writers to a walk through the    *)
(* tree as a forest (TreeForest), whose elements need not be those of any  *)
(* input: the open tags are the nodes that the walk is inside of, and each *)
(* level holds what comes behind the header of its tag.                    *)
(***************************************************************************)
EXTENDS LxmlRoundTrip, LevelsProofs

(***************************************************************************)
(* Trees that grow                                                         *)
(***************************************************************************)
(* t is a tree, and s the path of open elements to its last element.       *)
OnPath(t, s) ==
  \A i \in 1 .. Len(s) :
    /\ t[s[i]].depth = i - 1 /\ t[s[i]].shape = "constructed"
    /\ \A j \in s[i] + 1 .. Len(t) : t[j].depth >= i

Rises(t) ==
  \A i \in 1 .. Len(t) :
    IF i = 1 THEN t[i].depth = 0
    ELSE /\ t[i].depth > 0
         /\ t[i].depth <= t[i - 1].depth
                            + IF t[i - 1].shape = "constructed" THEN 1 ELSE 0

Formed(t, s) ==
  /\ t \in Seq(Element) /\ s \in Seq(1 .. Len(t))
  /\ OnPath(t, s) /\ Rises(t)

(* Sequences of a smaller set, and without their last element *)
LEMMA InLarger ==
  ASSUME NEW A, NEW B, A \subseteq B, NEW s \in Seq(A)
  PROVE  s \in Seq(B)
OBVIOUS

LEMMA FrontIs ==
  ASSUME NEW A, NEW s \in Seq(A), s # << >>
  PROVE  /\ Len(s) \in Nat /\ Len(s) >= 1 /\ s[Len(s)] \in A /\ Last(s) = s[Len(s)]
         /\ Front(s) \in Seq(A) /\ Len(Front(s)) = Len(s) - 1
         /\ \A i \in 1 .. Len(s) - 1 : Front(s)[i] = s[i]
<1> DEFINE n == Len(s) - 1
           f == SubSeq(s, 1, n)
<1>1. Len(s) \in Nat /\ Len(s) >= 1 /\ n \in Nat /\ n <= Len(s) /\ s[Len(s)] \in A
  OBVIOUS
<1>2. Front(s) = f /\ Last(s) = s[Len(s)]
  BY DEF Front, Last
<1> HIDE DEF n
<1>3. f \in Seq(A) /\ Len(f) = n /\ \A i \in 1 .. n : f[i] = s[i]
  BY <1>1
<1> HIDE DEF f
<1> QED
  BY <1>1, <1>2, <1>3 DEF n

(* The parts of an element *)
LEMMA ElementParts ==
  ASSUME NEW e \in Element
  PROVE  /\ e.depth \in Nat /\ e.shape \in {"primitive", "constructed"}
         /\ e.indefinite \in BOOLEAN /\ e.text \in Nat
BY DEF Element

(* One element more: t[n] is the last, and the others are as they were. *)
LEMMA ElementAppended ==
  ASSUME NEW t \in Seq(Element), NEW e \in Element
  PROVE  /\ Append(t, e) \in Seq(Element)
         /\ Len(t) \in Nat /\ Len(Append(t, e)) = Len(t) + 1
         /\ Append(t, e)[Len(t) + 1] = e
         /\ \A i \in 1 .. Len(t) : Append(t, e)[i] = t[i]
OBVIOUS

(* The last child of the innermost open element, or the root *)
LEMMA ChildRises ==
  ASSUME NEW t, NEW s, Formed(t, s), NEW e \in Element, e.depth = Len(s),
         s # << >> \/ t = << >>
  PROVE  Rises(Append(t, e))
<1> DEFINE u == Append(t, e)
           n == Len(t) + 1
<1>1. /\ t \in Seq(Element) /\ s \in Seq(1 .. Len(t)) /\ OnPath(t, s) /\ Rises(t)
      /\ Len(s) \in Nat
  BY DEF Formed
<1>2. /\ Len(t) \in Nat /\ n \in Nat /\ Len(u) = n /\ u[n] = e
      /\ \A i \in 1 .. Len(t) : u[i] = t[i]
  BY <1>1, ElementAppended
<1>3. CASE t = << >>
  <2>1. Len(t) = 0
    BY <1>3
  <2>2. s = << >> /\ e.depth = 0
    <3>1. s # << >> => s[1] \in 1 .. Len(t)
      BY <1>1
    <3>2. s = << >>
      BY <2>1, <3>1
    <3> QED
      BY <3>2
  <2> HIDE DEF u
  <2> QED
    BY <1>2, <2>1, <2>2 DEF Rises, u
<1>4. CASE t # << >>
  <2> DEFINE k == Len(s)
             p == s[k]
  <2>1. k \in Nat /\ k >= 1 /\ p \in 1 .. Len(t) /\ Len(t) >= 1
    BY <1>1, <1>4
  <2>2. /\ t[p].depth = k - 1 /\ t[p].shape = "constructed"
        /\ \A j \in p + 1 .. Len(t) : t[j].depth >= k
    BY <1>1, <2>1 DEF OnPath
  <2>3. e.depth = k
    OBVIOUS
  <2> HIDE DEF k, p, u
  <2>4. t[Len(t)].depth \in Nat
    BY <1>1, <2>1, ElementParts
  <2>5. u[n].depth > 0 /\ u[n - 1] = t[Len(t)]
    BY <1>2, <2>1, <2>3
  <2>6. u[n].depth <= u[n - 1].depth
                        + IF u[n - 1].shape = "constructed" THEN 1 ELSE 0
    <3>1. CASE p = Len(t)
      BY <1>2, <2>1, <2>2, <2>3, <2>5, <3>1
    <3>2. CASE p # Len(t)
      <4>1. Len(t) \in p + 1 .. Len(t)
        BY <1>2, <2>1, <3>2
      <4>2. t[Len(t)].depth >= k
        BY <2>2, <4>1
      <4> QED
        BY <1>2, <2>1, <2>3, <2>4, <2>5, <4>2
    <3> QED
      BY <3>1, <3>2
  <2>7. ASSUME NEW i \in 1 .. Len(t)
        PROVE  IF i = 1 THEN u[i].depth = 0
               ELSE /\ u[i].depth > 0
                    /\ u[i].depth <= u[i - 1].depth
                         + IF u[i - 1].shape = "constructed" THEN 1 ELSE 0
    <3>1. i # 1 => i - 1 \in 1 .. Len(t)
      OBVIOUS
    <3> QED
      BY <1>1, <1>2, <3>1 DEF Rises
  <2>8. n # 1
    BY <1>2, <2>1
  <2> QED
    BY <1>2, <2>5, <2>6, <2>7, <2>8 DEF Rises, u
<1> QED
  BY <1>3, <1>4

(* The path to the element that was the last is one still. *)
LEMMA PathGrows ==
  ASSUME NEW t, NEW s, Formed(t, s), NEW e \in Element, e.depth = Len(s),
         s # << >> \/ t = << >>
  PROVE  Formed(Append(t, e), s)
<1> DEFINE u == Append(t, e)
           n == Len(t) + 1
<1>1. /\ t \in Seq(Element) /\ s \in Seq(1 .. Len(t)) /\ OnPath(t, s)
      /\ Len(s) \in Nat
  BY DEF Formed
<1>2. /\ Len(t) \in Nat /\ n \in Nat /\ Len(u) = n /\ u[n] = e
      /\ \A i \in 1 .. Len(t) : u[i] = t[i]
      /\ u \in Seq(Element)
  BY <1>1, ElementAppended
<1>3. Rises(u)
  BY ChildRises
<1> HIDE DEF u
<1>4. ASSUME NEW i \in 1 .. Len(s)
      PROVE  /\ u[s[i]].depth = i - 1 /\ u[s[i]].shape = "constructed"
             /\ \A j \in s[i] + 1 .. Len(u) : u[j].depth >= i
  <2>1. s[i] \in 1 .. Len(t) /\ u[s[i]] = t[s[i]]
    BY <1>1, <1>2
  <2>2. /\ t[s[i]].depth = i - 1 /\ t[s[i]].shape = "constructed"
        /\ \A j \in s[i] + 1 .. Len(t) : t[j].depth >= i
    BY <1>1 DEF OnPath
  <2>3. ASSUME NEW j \in s[i] + 1 .. Len(u) PROVE u[j].depth >= i
    <3>1. CASE j = n
      BY <1>1, <1>2, <3>1
    <3>2. CASE j # n
      <4>1. j \in s[i] + 1 .. Len(t) /\ j \in 1 .. Len(t)
        BY <1>2, <2>1, <3>2
      <4> QED
        BY <1>2, <2>2, <4>1
    <3> QED
      BY <3>1, <3>2
  <2> QED
    BY <2>1, <2>2, <2>3
<1>5. s \in Seq(1 .. Len(u))
  <2>1. 1 .. Len(t) \subseteq 1 .. Len(u)
    BY <1>2
  <2> QED
    BY <1>1, <2>1, InLarger
<1>6. OnPath(u, s)
  BY <1>4, Zenon DEF OnPath
<1> QED
  BY <1>2, <1>3, <1>5, <1>6 DEF Formed, u

(* An element that stays open becomes the end of the path. *)
LEMMA PathExtended ==
  ASSUME NEW t, NEW s, Formed(t, s), NEW e \in Element, e.depth = Len(s),
         s # << >> \/ t = << >>, e.shape = "constructed"
  PROVE  Formed(Append(t, e), Append(s, Len(t) + 1))
<1> DEFINE u == Append(t, e)
           n == Len(t) + 1
           p == Append(s, n)
           k == Len(s)
<1>1. t \in Seq(Element) /\ k \in Nat /\ s \in Seq(1 .. Len(t))
  BY DEF Formed
<1>2. Len(t) \in Nat /\ n \in Nat /\ Len(u) = n /\ u[n] = e
  BY <1>1, ElementAppended
<1>3. u \in Seq(Element) /\ s \in Seq(1 .. Len(u)) /\ OnPath(u, s) /\ Rises(u)
  BY PathGrows DEF Formed
<1>4. /\ p \in Seq(1 .. Len(u)) /\ Len(p) = k + 1 /\ p[k + 1] = n
      /\ \A i \in 1 .. k : p[i] = s[i]
  <2>1. n \in 1 .. Len(u)
    BY <1>2
  <2> HIDE DEF u, n
  <2> QED
    BY <1>3, <2>1
<1> HIDE DEF p, u
<1>5. ASSUME NEW i \in 1 .. k + 1
      PROVE  /\ u[p[i]].depth = i - 1 /\ u[p[i]].shape = "constructed"
             /\ \A j \in p[i] + 1 .. Len(u) : u[j].depth >= i
  <2>1. CASE i = k + 1
    BY <1>1, <1>2, <1>4, <2>1
  <2>2. CASE i # k + 1
    <3>1. i \in 1 .. Len(s) /\ p[i] = s[i]
      BY <1>1, <1>4, <2>2
    <3> QED
      BY <1>3, <3>1, Zenon DEF OnPath
  <2> QED
    BY <2>1, <2>2
<1>6. OnPath(u, p)
  BY <1>4, <1>5, Zenon DEF OnPath
<1> QED
  BY <1>3, <1>4, <1>6 DEF Formed, u, p

(* The innermost open element ends. *)
LEMMA PathShortened ==
  ASSUME NEW t, NEW s, Formed(t, s), s # << >>
  PROVE  Formed(t, Front(s))
<1> DEFINE f == Front(s)
           k == Len(s)
<1>1. t \in Seq(Element) /\ s \in Seq(1 .. Len(t)) /\ OnPath(t, s) /\ Rises(t)
  BY DEF Formed
<1>2. /\ k \in Nat /\ k >= 1 /\ f \in Seq(1 .. Len(t)) /\ Len(f) = k - 1
      /\ \A i \in 1 .. k - 1 : f[i] = s[i]
  BY <1>1, FrontIs
<1> HIDE DEF f
<1>3. OnPath(t, f)
  <2> SUFFICES ASSUME NEW i \in 1 .. Len(f)
               PROVE  /\ t[f[i]].depth = i - 1 /\ t[f[i]].shape = "constructed"
                      /\ \A j \in f[i] + 1 .. Len(t) : t[j].depth >= i
    BY DEF OnPath
  <2>1. i \in 1 .. Len(s) /\ f[i] = s[i]
    BY <1>2
  <2> QED
    BY <1>1, <2>1, Zenon DEF OnPath
<1> QED
  BY <1>1, <1>2, <1>3 DEF Formed, f

(***************************************************************************)
(* Tree_Generator                                                          *)
(***************************************************************************)
InputFacts ==
  /\ units \in Seq(EncodedUnit)
  /\ args.indefinite \in BOOLEAN /\ args.count \in Nat

CounterFacts ==
  /\ Rooted(lengthStack, writtenStack)
  /\ read \in 0 .. Len(units) /\ nth \in 0 .. read
  /\ pc = "close" => nth < read
  /\ read = 0 => Len(lengthStack) = 1
  /\ read > 0 => writtenStack[1] > 0

TreeFacts == Formed(tree, nodeStack)

GeneratorFacts == InputFacts /\ CounterFacts /\ TreeFacts

(* An input is a sequence of units with headers. *)
LEMMA InputTyped ==
  ASSUME NEW f \in AllForests, NEW us \in Inputs(f)
  PROVE  us \in Seq(EncodedUnit)
<1> DEFINE all == Units(f)
<1>1. all \in Seq(EncodedUnit)
  BY UnitsTyped
<1>2. \/ us \in {SubSeq(all, 1, n) : n \in 0 .. Len(all)}
      \/ us \in {InsertAt(all, n, Eoc) : n \in 1 .. Len(all) + 1}
  BY Zenon DEF Inputs
<1> HIDE DEF all
<1>3. CASE us \in {SubSeq(all, 1, n) : n \in 0 .. Len(all)}
  BY <1>1, <1>3
<1>4. CASE us \in {InsertAt(all, n, Eoc) : n \in 1 .. Len(all) + 1}
  BY <1>1, <1>4, StrayTyped
<1> QED
  BY <1>2, <1>3, <1>4

(* The unit that is read next *)
LEMMA NextFacts ==
  ASSUME GeneratorFacts, NEW u, Next(u)
  PROVE  /\ UNCHANGED <<units, args, nth>> /\ pc = "read"
         /\ read \in Nat /\ nth \in Nat /\ read' = read + 1
         /\ read' \in 0 .. Len(units) /\ read' > 0 /\ nth < read'
         /\ u \in EncodedUnit
<1>1. /\ UNCHANGED <<units, args, nth>> /\ pc = "read"
      /\ read' = read + 1 /\ read < Len(units) /\ u = units[read + 1]
  BY DEF Next, input
<1>2. /\ read \in Nat /\ read + 1 \in 1 .. Len(units) /\ Len(units) \in Nat
      /\ units \in Seq(EncodedUnit) /\ nth \in 0 .. read
  BY <1>1 DEF GeneratorFacts, InputFacts, CounterFacts
<1> QED
  BY <1>1, <1>2

(* A unit is read, and its octets are counted. *)
LEMMA UnitCounted ==
  ASSUME GeneratorFacts, NEW u, Next(u), NEW n \in Nat, n > 0,
         \/ /\ writtenStack' = AddToTop(writtenStack, n)
            /\ lengthStack' = lengthStack
         \/ /\ writtenStack' = Append(AddToTop(writtenStack, n), 0)
            /\ lengthStack' = Append(lengthStack, u.length)
  PROVE  InputFacts' /\ CounterFacts'
<1> DEFINE ws == AddToTop(writtenStack, n)
<1>1. /\ UNCHANGED <<units, args, nth>>
      /\ read \in Nat /\ nth \in Nat /\ read' = read + 1
      /\ read' \in 0 .. Len(units) /\ read' > 0 /\ nth < read'
      /\ u.length \in Nat
  BY NextFacts, EncodedParts
<1>2. /\ Rooted(lengthStack, ws)
      /\ writtenStack[1] \in Nat /\ ws[1] \in Nat /\ ws[1] >= writtenStack[1]
      /\ Len(lengthStack) = 1 => ws[1] = writtenStack[1] + n
  BY AddKeeps DEF GeneratorFacts, CounterFacts
<1>3. ws[1] > 0
  <2>1. CASE read = 0
    BY <1>2, <2>1 DEF GeneratorFacts, CounterFacts
  <2>2. CASE read > 0
    BY <1>1, <1>2, <2>2 DEF GeneratorFacts, CounterFacts
  <2> QED
    BY <1>1, <2>1, <2>2
<1> HIDE DEF ws
<1>4. Rooted(lengthStack', writtenStack') /\ writtenStack'[1] = ws[1]
  <2>1. CASE writtenStack' = ws /\ lengthStack' = lengthStack
    BY <1>2, <2>1
  <2>2. CASE writtenStack' = Append(ws, 0) /\ lengthStack' = Append(lengthStack, u.length)
    BY <1>1, <1>2, <2>2, PushKeeps
  <2> QED
    BY <2>1, <2>2 DEF ws
<1>5. nth' \in 0 .. read' /\ nth' < read' /\ read' # 0 /\ read' \in 0 .. Len(units')
  BY <1>1
<1>6. InputFacts'
  BY <1>1 DEF GeneratorFacts, InputFacts
<1> QED
  BY <1>1, <1>3, <1>4, <1>5, <1>6 DEF CounterFacts

(* The catch-all root is not complete once a unit was read. *)
LEMMA NotTheRoot ==
  ASSUME CounterFacts, pc = "close", Complete
  PROVE  Len(lengthStack) > 1 /\ read > 0
<1>1. read > 0 /\ writtenStack[1] > 0 /\ Rooted(lengthStack, writtenStack)
  BY DEF CounterFacts
<1>2. Len(lengthStack) \in Nat /\ Len(lengthStack) >= 1
      /\ Len(writtenStack) = Len(lengthStack) /\ lengthStack[1] = 0
  BY <1>1 DEF Rooted
<1>3. ASSUME Len(lengthStack) = 1 PROVE FALSE
  <2>1. Last(lengthStack) = lengthStack[1] /\ Last(writtenStack) = writtenStack[1]
    BY <1>2, <1>3 DEF Last
  <2>2. writtenStack[1] = 0
    BY <1>2, <2>1, Zenon DEF Complete
  <2> QED
    BY <1>1, <2>2
<1> QED
  BY <1>1, <1>2, <1>3

(* The element that is added for a unit *)
ElementFor(u) ==
  [depth      |-> Len(nodeStack),
   shape      |-> u.shape,
   indefinite |-> args.indefinite /\ u.indefinite,
   text       |-> IF u.shape = "primitive" THEN u.length ELSE 0]

LEMMA ElementTyped ==
  ASSUME GeneratorFacts, NEW u \in EncodedUnit
  PROVE  /\ ElementFor(u) \in Element /\ ElementFor(u).depth = Len(nodeStack)
         /\ ElementFor(u).shape = u.shape
<1> DEFINE d == Len(nodeStack)
           i == args.indefinite /\ u.indefinite
           l == IF u.shape = "primitive" THEN u.length ELSE 0
<1>1. d \in Nat
  BY DEF GeneratorFacts, TreeFacts, Formed
<1>2. u.shape \in {"primitive", "constructed"} /\ u.indefinite \in BOOLEAN
      /\ u.length \in Nat
  BY DEF EncodedUnit, Unit
<1>3. i \in BOOLEAN
  BY <1>2, Zenon DEF GeneratorFacts, InputFacts
<1>4. l \in Nat
  BY <1>2
<1>5. ElementFor(u) = [depth |-> d, shape |-> u.shape, indefinite |-> i, text |-> l]
  BY Zenon DEF ElementFor
<1> HIDE DEF d, i, l
<1> QED
  BY <1>1, <1>2, <1>3, <1>4, <1>5 DEF Element, d

(* A primitive element has an open parent. *)
LEMMA GenPrimitiveKeeps ==
  ASSUME GeneratorFacts, NEW u, GenPrimitive(u)
  PROVE  GeneratorFacts' /\ pc' \in {"close", "failed"}
<1>1. /\ Next(u) /\ lengthStack' = lengthStack
      /\ writtenStack' = AddToTop(writtenStack, u.tl + u.length)
  BY Zenon DEF GenPrimitive
<1>2. u \in EncodedUnit
  BY <1>1, NextFacts
<1>3. InputFacts' /\ CounterFacts'
  BY <1>1, <1>2, OctetsOf, UnitCounted
<1>4. TreeFacts' /\ pc' \in {"close", "failed"}
  <2>1. CASE nodeStack = << >> /\ Throw
    BY <2>1 DEF Throw, GeneratorFacts, TreeFacts
  <2>2. CASE nodeStack # << >> /\ AddElement(u) /\ pc' = "close" /\ UNCHANGED nodeStack
    <3>1. tree' = Append(tree, ElementFor(u)) /\ nodeStack' = nodeStack
      BY <2>2, Zenon DEF AddElement, ElementFor
    <3>2. Formed(Append(tree, ElementFor(u)), nodeStack)
      BY <1>2, <2>2, ElementTyped, PathGrows DEF GeneratorFacts, TreeFacts
    <3> QED
      BY <2>2, <3>1, <3>2 DEF TreeFacts
  <2> QED
    BY <2>1, <2>2, Zenon DEF GenPrimitive
<1> QED
  BY <1>3, <1>4 DEF GeneratorFacts

(* pop() of node_stack_ *)
LEMMA PopNodeKeeps ==
  ASSUME TreeFacts, PopNode
  PROVE  TreeFacts' /\ pc' \in {"close", "failed"}
<1>1. CASE nodeStack = << >> /\ Throw
  BY <1>1 DEF Throw, TreeFacts
<1>2. CASE nodeStack # << >> /\ nodeStack' = Front(nodeStack) /\ pc' = "close"
             /\ UNCHANGED tree
  BY <1>2, PathShortened DEF TreeFacts
<1> QED
  BY <1>1, <1>2, Zenon DEF PopNode

(* An end-of-content unit ends the innermost element. *)
LEMMA GenEocKeeps ==
  ASSUME GeneratorFacts, NEW u, GenEoc(u)
  PROVE  GeneratorFacts' /\ pc' \in {"close", "failed"}
<1>1. /\ Next(u) /\ lengthStack' = lengthStack /\ PopNode
      /\ writtenStack' = AddToTop(writtenStack, u.tl + u.length)
  BY Zenon DEF GenEoc
<1>2. u \in EncodedUnit
  BY <1>1, NextFacts
<1>3. InputFacts' /\ CounterFacts'
  BY <1>1, <1>2, OctetsOf, UnitCounted
<1> QED
  BY <1>1, <1>3, PopNodeKeeps DEF GeneratorFacts

(* A constructed element is the root, or has an open parent. *)
LEMMA GenConstructedKeeps ==
  ASSUME GeneratorFacts, NEW u, GenConstructed(u)
  PROVE  GeneratorFacts' /\ pc' \in {"close", "failed"}
<1>1. Next(u) /\ u.shape = "constructed"
  BY Zenon DEF GenConstructed
<1>2. u \in EncodedUnit
  BY <1>1, NextFacts
<1>3. InputFacts' /\ CounterFacts'
  <2>1. \/ /\ writtenStack' = AddToTop(writtenStack, u.tl)
           /\ lengthStack' = lengthStack
        \/ /\ writtenStack' = Append(AddToTop(writtenStack, u.tl), 0)
           /\ lengthStack' = Append(lengthStack, u.length)
    BY Zenon DEF GenConstructed
  <2> QED
    BY <1>1, <1>2, <2>1, OctetsOf, UnitCounted
<1>4. TreeFacts' /\ pc' \in {"close", "failed"}
  <2>1. CASE nodeStack = << >> /\ tree # << >> /\ Throw
    BY <2>1 DEF Throw, GeneratorFacts, TreeFacts
  <2>2. CASE /\ nodeStack # << >> \/ tree = << >>
             /\ AddElement(u) /\ pc' = "close"
             /\ nodeStack' = IF HasInside(u) THEN Append(nodeStack, Len(tree) + 1)
                                             ELSE nodeStack
    <3>1. tree' = Append(tree, ElementFor(u))
      BY <2>2, Zenon DEF AddElement, ElementFor
    <3>2. /\ Formed(Append(tree, ElementFor(u)), nodeStack)
          /\ Formed(Append(tree, ElementFor(u)), Append(nodeStack, Len(tree) + 1))
      BY <1>1, <1>2, <2>2, ElementTyped, PathGrows, PathExtended
         DEF GeneratorFacts, TreeFacts
    <3>3. nodeStack' = nodeStack \/ nodeStack' = Append(nodeStack, Len(tree) + 1)
      BY <2>2, Zenon
    <3> QED
      BY <2>2, <3>1, <3>2, <3>3 DEF TreeFacts
  <2> QED
    BY <2>1, <2>2, Zenon DEF GenConstructed
<1> QED
  BY <1>3, <1>4 DEF GeneratorFacts

(* A definite tag ends: it is not the root, but its element may be gone. *)
LEMMA CloseDefiniteKeeps ==
  ASSUME GeneratorFacts, CloseDefinite
  PROVE  GeneratorFacts' /\ pc' \in {"close", "failed"}
<1>1. /\ pc = "close" /\ Complete /\ PopNode
      /\ UNCHANGED <<units, args, read, nth>>
  BY DEF CloseDefinite, input
<1>2. Len(lengthStack) > 1 /\ read > 0
  BY <1>1, NotTheRoot DEF GeneratorFacts
<1>3. TreeFacts' /\ pc' \in {"close", "failed"}
  BY <1>1, PopNodeKeeps DEF GeneratorFacts
<1>4. InputFacts'
  BY <1>1 DEF GeneratorFacts, InputFacts
<1>5. Rooted(lengthStack', writtenStack') /\ writtenStack'[1] > 0
  <2> DEFINE ls == Front(lengthStack)
             ws == Front(writtenStack)
             n  == Last(lengthStack)
  <2>1. Rooted(lengthStack, writtenStack) /\ writtenStack[1] > 0
    BY <1>2 DEF GeneratorFacts, CounterFacts
  <2>2. CASE UNCHANGED counters
    BY <2>1, <2>2 DEF counters
  <2>3. CASE /\ lengthStack' = Front(lengthStack)
             /\ writtenStack' = AddToTop(Front(writtenStack), Last(lengthStack))
    <3>1. Rooted(ls, ws) /\ ws[1] = writtenStack[1] /\ n \in Nat
      BY <1>2, <2>1, PopKeeps
    <3>2. lengthStack' = ls /\ writtenStack' = AddToTop(ws, n)
      BY <2>3
    <3> HIDE DEF ls, ws, n
    <3>3. /\ Rooted(ls, AddToTop(ws, n)) /\ ws[1] \in Nat
          /\ AddToTop(ws, n)[1] \in Nat /\ AddToTop(ws, n)[1] >= ws[1]
      BY <3>1, AddKeeps
    <3> QED
      BY <2>1, <3>1, <3>2, <3>3
  <2> QED
    BY <2>2, <2>3, Zenon DEF CloseDefinite
<1>6. CounterFacts'
  BY <1>1, <1>2, <1>5 DEF GeneratorFacts, CounterFacts
<1> QED
  BY <1>3, <1>4, <1>6 DEF GeneratorFacts

(* The end of an iteration, and the ends of the loop *)
LEMMA LoopKeeps ==
  ASSUME GeneratorFacts, EndOfLoop \/ CountReached \/ EndOfInput
  PROVE  GeneratorFacts' /\ pc' \in {"read", "built"}
<1>1. /\ UNCHANGED <<units, args, tree, nodeStack, lengthStack, writtenStack>>
      /\ pc' \in {"read", "built"}
  BY DEF EndOfLoop, CountReached, EndOfInput, input, counters
<1>2. InputFacts' /\ TreeFacts'
  BY <1>1 DEF GeneratorFacts, InputFacts, TreeFacts
<1>3. CounterFacts'
  <2>1. /\ Rooted(lengthStack, writtenStack)
        /\ read \in 0 .. Len(units) /\ nth \in 0 .. read
        /\ (pc = "close" => nth < read) /\ Len(units) \in Nat
        /\ (read = 0 => Len(lengthStack) = 1) /\ (read > 0 => writtenStack[1] > 0)
    BY DEF GeneratorFacts, CounterFacts, InputFacts
  <2>2. CASE EndOfLoop
    BY <1>1, <2>1, <2>2 DEF EndOfLoop, CounterFacts
  <2>3. CASE EndOfInput
    BY <1>1, <2>1, <2>3 DEF EndOfInput, CounterFacts
  <2>4. CASE CountReached
    <3>1. /\ read' = read + 1 /\ nth' = nth /\ read < Len(units) /\ args.count > 0
          /\ nth >= args.count
      BY <2>4 DEF CountReached
    <3> DEFINE limit == args.count
    <3>2. limit \in Nat
      BY DEF GeneratorFacts, InputFacts
    <3>3. limit > 0 /\ nth >= limit
      BY <3>1
    <3> HIDE DEF limit
    <3>4. /\ read > 0 /\ read' \in 0 .. Len(units) /\ nth' \in 0 .. read'
          /\ nth' < read' /\ read' # 0
      BY <2>1, <3>1, <3>2, <3>3
    <3>5. Rooted(lengthStack', writtenStack') /\ writtenStack'[1] > 0
      BY <1>1, <2>1, <3>4
    <3> QED
      BY <1>1, <3>4, <3>5 DEF CounterFacts
  <2> QED
    BY <2>2, <2>3, <2>4
<1> QED
  BY <1>1, <1>2, <1>3 DEF GeneratorFacts

(***************************************************************************)
(* Lxml2Ber                                                                *)
(***************************************************************************)
Walk(t, s) ==
  /\ s \in Seq(0 .. Len(t))
  /\ \A k \in 1 .. Len(s) : s[k] # 0 => t[s[k]].depth = k - 1

OnlyConstructed(tlvs) == \A k \in 1 .. Len(tlvs) : tlvs[k].shape = "constructed"

WriterFacts ==
  /\ Walk(tree, todo)
  /\ Sound(x) /\ OnlyConstructed(x.tlvs)
  /\ pc = "write" => Len(todo) \in 1 .. Len(x.tlvs) + 1
  /\ pc \in {"read", "close"} => todo = << >>
  /\ pc # "undefined"

(* A child is one level below a constructed element. *)
LEMMA ChildIs ==
  ASSUME TreeFacts, NEW i \in 1 .. Len(tree)
  PROVE  /\ FirstChild(i) \in 0 .. Len(tree)
         /\ FirstChild(i) # 0 =>
              /\ tree[FirstChild(i)].depth = tree[i].depth + 1
              /\ tree[i].shape = "constructed"
<1>1. tree \in Seq(Element) /\ Rises(tree) /\ Len(tree) \in Nat
  BY DEF TreeFacts, Formed
<1>2. CASE Below(tree, i) = {}
  BY <1>1, <1>2 DEF FirstChild
<1>3. CASE Below(tree, i) # {}
  <2>1. FirstChild(i) = i + 1
    BY <1>3 DEF FirstChild
  <2>2. i + 1 \in 1 .. Len(tree)
    BY <1>1, <1>3, BelowBehind
  <2>3. tree[i + 1].depth > tree[i].depth
    <3>1. PICK j \in (i + 1) .. Len(tree) :
            \A k \in (i + 1) .. j : tree[k].depth > tree[i].depth
      BY <1>3, Zenon DEF Below
    <3>2. i + 1 \in (i + 1) .. j
      BY <3>1
    <3> QED
      BY <3>1, <3>2
  <2>4. tree[i + 1].depth <= tree[i].depth
                               + IF tree[i].shape = "constructed" THEN 1 ELSE 0
    <3>1. i + 1 # 1 /\ (i + 1) - 1 = i
      OBVIOUS
    <3> QED
      BY <1>1, <2>2, <3>1 DEF Rises
  <2>5. tree[i].depth \in Nat /\ tree[i + 1].depth \in Nat
    BY <1>1, <2>2, ElementParts
  <2> QED
    BY <2>1, <2>2, <2>3, <2>4, <2>5
<1> QED
  BY <1>2, <1>3

(* A sibling is on the same level. *)
LEMMA SiblingIs ==
  ASSUME TreeFacts, NEW i \in 1 .. Len(tree)
  PROVE  /\ NextSibling(i) \in 0 .. Len(tree)
         /\ NextSibling(i) # 0 => tree[NextSibling(i)].depth = tree[i].depth
<1> DEFINE n == LastOf(tree, i) + 1
<1>1. Len(tree) \in Nat
  BY DEF TreeFacts, Formed
<1>2. LastOf(tree, i) \in Nat
  BY <1>1, BelowBehind
<1>3. NextSibling(i) = IF n <= Len(tree) /\ tree[n].depth = tree[i].depth THEN n ELSE 0
  BY DEF NextSibling
<1>4. n \in Nat
  BY <1>2
<1> HIDE DEF n
<1> QED
  BY <1>1, <1>3, <1>4

(* What takes the place of an element keeps its level, and what comes on   *)
(* top is on the next one.                                                 *)
LEMMA AdvanceKeeps ==
  ASSUME TreeFacts, Walk(tree, todo), NEW i \in 1 .. Len(tree), todo # << >>,
         i = Last(todo), Advance(i), tree' = tree
  PROVE  /\ Walk(tree', todo')
         /\ \/ Len(todo') = Len(todo)
            \/ Len(todo') = Len(todo) + 1 /\ tree[i].shape = "constructed"
<1> DEFINE N == 0 .. Len(tree)
           k == Len(todo)
           f == Front(todo)
           a == NextSibling(i)
           c == FirstChild(i)
           s == Append(f, a)
<1>1. todo \in Seq(N) /\ \A j \in 1 .. Len(todo) : todo[j] # 0 => tree[todo[j]].depth = j - 1
  BY DEF Walk
<1>2. /\ k \in Nat /\ k >= 1 /\ todo[k] = i
      /\ f \in Seq(N) /\ Len(f) = k - 1 /\ \A j \in 1 .. k - 1 : f[j] = todo[j]
  BY <1>1, FrontIs
<1>3. tree[i].depth = k - 1
  <2>1. k \in 1 .. k /\ todo[k] # 0
    BY <1>2
  <2> QED
    BY <1>1, <1>2, <2>1, Zenon
<1>4. a \in N /\ (a # 0 => tree[a].depth = k - 1)
  BY <1>3, SiblingIs
<1>5. c \in N /\ (c # 0 => tree[c].depth = k /\ tree[i].shape = "constructed")
  BY <1>2, <1>3, ChildIs
<1>6. todo' = s \o IF c = 0 THEN << >> ELSE <<c>>
  BY Zenon DEF Advance
<1> HIDE DEF N, f, a, c
<1>7. s \in Seq(N) /\ Len(s) = k /\ s[k] = a /\ \A j \in 1 .. k - 1 : s[j] = f[j]
  BY <1>2, <1>4
<1>8. \A j \in 1 .. k : s[j] # 0 => tree[s[j]].depth = j - 1
  <2> SUFFICES ASSUME NEW j \in 1 .. k, s[j] # 0 PROVE tree[s[j]].depth = j - 1
    OBVIOUS
  <2>1. CASE j = k
    BY <1>4, <1>7, <2>1
  <2>2. CASE j # k
    <3>1. j \in 1 .. k - 1 /\ s[j] = todo[j]
      BY <1>2, <1>7, <2>2
    <3> QED
      BY <1>1, <1>2, <3>1
  <2> QED
    BY <2>1, <2>2
<1> HIDE DEF s
<1>9. CASE c = 0
  <2>1. todo' = s
    BY <1>6, <1>7, <1>9
  <2> QED
    BY <1>7, <1>8, <2>1 DEF Walk, N
<1>10. CASE c # 0
  <2> DEFINE p == Append(s, c)
  <2>1. todo' = p
    BY <1>5, <1>6, <1>7, <1>10
  <2>2. p \in Seq(N) /\ Len(p) = k + 1 /\ p[k + 1] = c /\ \A j \in 1 .. k : p[j] = s[j]
    BY <1>5, <1>7
  <2> HIDE DEF p
  <2>3. \A j \in 1 .. k + 1 : p[j] # 0 => tree[p[j]].depth = j - 1
    <3> SUFFICES ASSUME NEW j \in 1 .. k + 1, p[j] # 0
                 PROVE  tree[p[j]].depth = j - 1
      OBVIOUS
    <3>1. CASE j = k + 1
      BY <1>2, <1>5, <1>10, <2>2, <3>1
    <3>2. CASE j # k + 1
      <4>1. j \in 1 .. k /\ p[j] = s[j]
        BY <1>2, <2>2, <3>2
      <4> QED
        BY <1>8, <4>1
    <3> QED
      BY <3>1, <3>2
  <2> QED
    BY <1>5, <1>10, <2>1, <2>2, <2>3 DEF Walk, N
<1> QED
  BY <1>9, <1>10

(* A unit goes to the writer on top. *)
LEMMA ItemSound ==
  ASSUME NEW q, Sound(q), NEW u \in Unit
  PROVE  /\ Sound([q EXCEPT !.writers = WriteTo(@, q.top, u)])
         /\ [q EXCEPT !.writers = WriteTo(@, q.top, u)].tlvs = q.tlvs
<1> DEFINE ws == WriteTo(q.writers, q.top, u)
           r  == [q EXCEPT !.writers = WriteTo(@, q.top, u)]
<1>1. /\ q.tlvs \in Seq(Unit) /\ q.top \in Nat
      /\ q = State(q.tlvs, q.writers, q.top)
      /\ q.top = 1 + Cardinality(Definite(q.tlvs))
      /\ InUse(q.writers, q.top) /\ q.top \in 1 .. q.top
  BY SoundParts
<1>2. InUse(ws, q.top)
  BY <1>1, WriteToKeeps
<1>3. r = SetWriters(q, ws)
  BY Zenon DEF SetWriters
<1>4. r = State(q.tlvs, ws, q.top)
  BY <1>1, <1>3, StateChanges
<1> HIDE DEF ws, r
<1>5. Sound(State(q.tlvs, ws, q.top))
  BY <1>1, <1>2, SoundState
<1> QED
  BY <1>4, <1>5, StateChanges DEF r

(* The header of an element *)
LEMMA TlvTyped ==
  ASSUME NEW e \in Element
  PROVE  /\ TlvOf(e) \in Unit /\ TlvOf(e).shape = e.shape
         /\ e.text > 0 =>
              [TlvOf(e) EXCEPT !.tl = MinimalTl(e.text), !.length = e.text] \in Unit
<1> DEFINE l == IF e.indefinite THEN 2 ELSE 0
           n == e.text
           m == MinimalTl(n)
           t == TlvOf(e)
<1>1. /\ e.shape \in {"primitive", "constructed"} /\ e.indefinite \in BOOLEAN
      /\ n \in Nat
  BY ElementParts
<1>2. l \in Nat
  OBVIOUS
<1>3. m \in Nat
  BY <1>1, MinimalTlNat
<1>4. t = [shape |-> e.shape, eoc |-> FALSE, indefinite |-> e.indefinite,
           tl |-> l, length |-> 0]
  BY DEF TlvOf
<1> HIDE DEF l, t
<1>5. t \in Unit /\ t.shape = e.shape
  BY <1>1, <1>2, <1>4 DEF Unit
<1> HIDE DEF m, n
<1>6. SetLength(SetTl(t, m), n) \in Unit
  BY <1>1, <1>3, <1>5, HeaderChanges
<1>7. [t EXCEPT !.tl = m, !.length = n] = SetLength(SetTl(t, m), n)
  BY Zenon DEF SetLength, SetTl
<1> QED
  BY <1>5, <1>6, <1>7 DEF t, m, n

(* A primitive element is written; the walk goes on to its sibling. *)
LEMMA WritePrimitiveKeeps ==
  ASSUME TreeFacts, WriterFacts, NEW i \in 1 .. Len(tree), WritePrimitive(i)
  PROVE  WriterFacts' /\ pc' \in {"write", "failed"}
<1>1. /\ pc = "write" /\ todo # << >> /\ i = Last(todo) /\ tree' = tree
      /\ tree[i].shape = "primitive"
  BY DEF WritePrimitive, Visit
<1> DEFINE u == [TlvOf(tree[i]) EXCEPT !.tl = MinimalTl(tree[i].text),
                                       !.length = tree[i].text]
<1>2. CASE tree[i].text > 0 /\ x' = [x EXCEPT !.writers = WriteTo(@, x.top, u)]
             /\ Advance(i)
  <2>1. tree[i] \in Element
    BY DEF TreeFacts, Formed
  <2>2. u \in Unit
    BY <1>2, <2>1, TlvTyped
  <2> HIDE DEF u
  <2>3. Sound(x') /\ (x').tlvs = x.tlvs
    BY <1>2, <2>2, ItemSound DEF WriterFacts
  <2>4. Walk(tree', todo') /\ Len(todo') = Len(todo)
    BY <1>1, <1>2, AdvanceKeeps DEF WriterFacts
  <2>5. pc' = "write"
    BY <1>1, <1>2 DEF Advance
  <2> QED
    BY <1>1, <2>3, <2>4, <2>5 DEF WriterFacts
<1>3. CASE pc' = "failed" /\ UNCHANGED writerVars
  BY <1>1, <1>3 DEF WriterFacts, writerVars
<1> QED
  BY <1>2, <1>3, Zenon DEF WritePrimitive

(* A constructed element opens a tag, and the null behind its children     *)
(* will end it.                                                            *)
LEMMA ProcessConstructedKeeps ==
  ASSUME TreeFacts, WriterFacts, NEW i \in 1 .. Len(tree), ProcessConstructed(i)
  PROVE  WriterFacts' /\ pc' = "write"
<1> DEFINE tlv == TlvOf(tree[i])
           q   == OpenTag(x, tlv)
<1>1. /\ pc = "write" /\ todo # << >> /\ i = Last(todo) /\ tree' = tree
      /\ tree[i].shape = "constructed" /\ x' = q /\ Advance(i)
  BY DEF ProcessConstructed, Visit
<1>2. tree[i] \in Element
  BY DEF TreeFacts, Formed
<1>3. tlv \in Unit /\ tlv.shape = "constructed"
  BY <1>1, <1>2, TlvTyped
<1> HIDE DEF tlv
<1>4. Sound(q) /\ q.tlvs = Append(x.tlvs, tlv)
  BY <1>3, OpenTagSound DEF WriterFacts
<1>5. x.tlvs \in Seq(Unit)
  BY SoundParts DEF WriterFacts
<1> HIDE DEF q
<1>6. OnlyConstructed(Append(x.tlvs, tlv)) /\ Len(Append(x.tlvs, tlv)) = Len(x.tlvs) + 1
  BY <1>3, <1>5 DEF WriterFacts, OnlyConstructed
<1>7. /\ Walk(tree', todo')
      /\ Len(todo') = Len(todo) \/ Len(todo') = Len(todo) + 1
  BY <1>1, AdvanceKeeps DEF WriterFacts
<1>8. pc' = "write"
  BY <1>1 DEF Advance
<1>9. Len(todo') \in 1 .. Len((x').tlvs) + 1
  <2>1. Len(todo) \in 1 .. Len(x.tlvs) + 1 /\ Len(x.tlvs) \in Nat
    BY <1>1, <1>5 DEF WriterFacts
  <2>2. Len((x').tlvs) = Len(x.tlvs) + 1
    BY <1>1, <1>4, <1>6
  <2> QED
    BY <1>7, <2>1, <2>2
<1> QED
  BY <1>1, <1>4, <1>6, <1>7, <1>8, <1>9 DEF WriterFacts

(* A null that is not the last on the stack finds a tag to pop. *)
LEMMA PopConstructedKeeps ==
  ASSUME WriterFacts, PopConstructed
  PROVE  WriterFacts' /\ pc' = "write" /\ tree' = tree
<1> DEFINE q == CloseTag(x)
           s == Front(todo)
           t == Front(x.tlvs)
<1>1. /\ pc = "write" /\ Len(todo) > 1 /\ todo' = s /\ tree' = tree
      /\ x.tlvs # << >> => x' = q /\ pc' = pc
  BY DEF PopConstructed
<1>2. /\ Walk(tree, todo) /\ Sound(x) /\ OnlyConstructed(x.tlvs)
      /\ Len(todo) \in 1 .. Len(x.tlvs) + 1
  BY <1>1 DEF WriterFacts
<1>3. x.tlvs \in Seq(Unit) /\ Len(x.tlvs) \in Nat /\ x.tlvs # << >>
  <2>1. x.tlvs \in Seq(Unit)
    BY <1>2, SoundParts
  <2> QED
    BY <1>1, <1>2, <2>1
<1>4. /\ t \in Seq(Unit) /\ Len(t) = Len(x.tlvs) - 1
      /\ \A j \in 1 .. Len(x.tlvs) - 1 : t[j] = (x.tlvs)[j]
      /\ Last(x.tlvs) = (x.tlvs)[Len(x.tlvs)] /\ Len(x.tlvs) >= 1
  BY <1>3, FrontIs
<1>5. Last(x.tlvs).shape = "constructed" /\ OnlyConstructed(t)
  <2> HIDE DEF t
  <2> QED
    BY <1>2, <1>3, <1>4 DEF OnlyConstructed
<1>6. Sound(q) /\ q.tlvs = t
  BY <1>2, <1>3, <1>5, CloseTagSound, TagClosed
<1>7. Walk(tree, s) /\ Len(s) = Len(todo) - 1
  <2> DEFINE N == 0 .. Len(tree)
  <2>1. todo \in Seq(N) /\ todo # << >>
        /\ \A k \in 1 .. Len(todo) : todo[k] # 0 => tree[todo[k]].depth = k - 1
    BY <1>1, <1>2 DEF Walk
  <2> HIDE DEF N
  <2>2. /\ s \in Seq(N) /\ Len(s) = Len(todo) - 1 /\ Len(todo) \in Nat
        /\ \A k \in 1 .. Len(todo) - 1 : s[k] = todo[k]
    BY <2>1, FrontIs
  <2> HIDE DEF s
  <2>3. \A k \in 1 .. Len(s) : s[k] # 0 => tree[s[k]].depth = k - 1
    <3> SUFFICES ASSUME NEW k \in 1 .. Len(s), s[k] # 0
                 PROVE  tree[s[k]].depth = k - 1
      OBVIOUS
    <3>1. k \in 1 .. Len(todo) /\ s[k] = todo[k]
      BY <2>2
    <3> QED
      BY <2>1, <3>1, Zenon
  <2> QED
    BY <2>2, <2>3 DEF Walk, N
<1> HIDE DEF q, s, t
<1>8. x' = q /\ pc' = "write"
  BY <1>1, <1>3
<1>9. Len(s) \in 1 .. Len(t) + 1
  BY <1>1, <1>2, <1>3, <1>4, <1>7
<1> QED
  BY <1>1, <1>5, <1>6, <1>7, <1>8, <1>9 DEF WriterFacts

(***************************************************************************)
(* The theorem about stacks and counters                                   *)
(***************************************************************************)
Facts == GeneratorFacts /\ WriterFacts

(* While the tree is built, nothing is written. *)
LEMMA GeneratorKeeps ==
  ASSUME Facts, GeneratorNext, UNCHANGED writerVars
  PROVE  Facts'
<1>1. GeneratorFacts' /\ pc' \in {"read", "close", "built", "failed"}
  <2>1. ASSUME NEW u, GenPrimitive(u) \/ GenEoc(u) \/ GenConstructed(u)
        PROVE  GeneratorFacts' /\ pc' \in {"read", "close", "built", "failed"}
    BY <2>1, GenPrimitiveKeeps, GenEocKeeps, GenConstructedKeeps DEF Facts
  <2>2. CASE CloseDefinite \/ EndOfLoop \/ CountReached \/ EndOfInput
    BY <2>2, CloseDefiniteKeeps, LoopKeeps DEF Facts
  <2> QED
    BY <2>1, <2>2, Zenon DEF GeneratorNext
<1>2. pc \in {"read", "close"}
  BY DEF GeneratorNext, GenPrimitive, GenEoc, GenConstructed, Next, CloseDefinite,
         EndOfLoop, CountReached, EndOfInput
<1>3. todo = << >> /\ todo' = << >> /\ x' = x
  BY <1>2 DEF Facts, WriterFacts, writerVars
<1>4. Walk(tree', todo')
  BY <1>3 DEF Walk
<1>5. WriterFacts'
  BY <1>1, <1>3, <1>4 DEF Facts, WriterFacts
<1> QED
  BY <1>1, <1>5 DEF Facts

(* While the tree is written, it stays. *)
LEMMA WriterKeeps ==
  ASSUME Facts, WriterNext, UNCHANGED generatorVars
  PROVE  Facts' /\ tree' = tree /\ pc' \in {"write", "failed", "done"}
<1>1. /\ UNCHANGED <<units, args, read, nth, nodeStack, lengthStack, writtenStack>>
      /\ tree' = tree
  BY DEF generatorVars, input, counters, WriterNext, Start, WritePrimitive,
         ProcessConstructed, Visit, PopConstructed, Break
<1>2. WriterFacts' /\ pc' \in {"write", "failed", "done"}
  <2>1. CASE Start
    <3>1. /\ todo' = <<IF tree = << >> THEN 0 ELSE 1>> /\ pc' = "write" /\ x' = x
      BY <2>1 DEF Start
    <3>2. tree \in Seq(Element) /\ Rises(tree) /\ Len(tree) \in Nat
      BY DEF Facts, GeneratorFacts, TreeFacts, Formed
    <3>3. ASSUME NEW r \in 0 .. Len(tree), r # 0 => tree[r].depth = 0
          PROVE  Walk(tree, <<r>>) /\ Len(<<r>>) = 1
      BY <3>3 DEF Walk
    <3>4. Walk(tree', todo') /\ Len(todo') = 1
      <4>1. CASE tree = << >>
        <5>1. todo' = <<0>> /\ 0 \in 0 .. Len(tree)
          BY <3>1, <3>2, <4>1
        <5> QED
          BY <1>1, <3>3, <5>1
      <4>2. CASE tree # << >>
        <5>1. todo' = <<1>> /\ 1 \in 0 .. Len(tree) /\ tree[1].depth = 0
          BY <3>1, <3>2, <4>2 DEF Rises
        <5> QED
          BY <1>1, <3>3, <5>1
      <4> QED
        BY <4>1, <4>2
    <3>5. x.tlvs \in Seq(Unit) /\ Sound(x) /\ OnlyConstructed(x.tlvs)
      BY SoundParts DEF Facts, WriterFacts
    <3>6. 1 \in 1 .. Len(x.tlvs) + 1
      BY <3>5
    <3> QED
      BY <3>1, <3>4, <3>5, <3>6 DEF WriterFacts
  <2>2. ASSUME NEW i \in 1 .. Len(tree), WritePrimitive(i) \/ ProcessConstructed(i)
        PROVE  WriterFacts' /\ pc' \in {"write", "failed", "done"}
    BY <2>2, WritePrimitiveKeeps, ProcessConstructedKeeps DEF Facts, GeneratorFacts
  <2>3. CASE PopConstructed
    BY <2>3, PopConstructedKeeps DEF Facts
  <2>4. CASE Break
    <3>1. todo' = << >> /\ pc' = "done" /\ x' = x
      BY <2>4 DEF Break
    <3>2. Walk(tree', todo')
      BY <3>1 DEF Walk
    <3> QED
      BY <3>1, <3>2 DEF Facts, WriterFacts
  <2> QED
    BY <2>1, <2>2, <2>3, <2>4, Zenon DEF WriterNext
<1>3. GeneratorFacts'
  BY <1>1, <1>2 DEF Facts, GeneratorFacts, InputFacts, CounterFacts, TreeFacts
<1> QED
  BY <1>1, <1>2, <1>3 DEF Facts

(* Nothing is read, built or written yet. *)
LEMMA InitFacts ==
  ASSUME Init
  PROVE  Facts
<1>1. /\ units \in Seq(EncodedUnit)
      /\ args.indefinite \in BOOLEAN /\ args.count \in 0 .. MaxCount
  <2>1. forest \in AllForests /\ units \in Inputs(forest)
    BY InputForest DEF Init, GeneratorInit
  <2>2. args \in [count : 0 .. MaxCount, first : BOOLEAN, indefinite : BOOLEAN]
    BY DEF Init, GeneratorInit
  <2> QED
    BY <2>1, <2>2, InputTyped
<1>2. /\ tree = << >> /\ read = 0 /\ nth = 0 /\ nodeStack = << >> /\ pc = "read"
      /\ lengthStack = <<0>> /\ writtenStack = <<0>> /\ todo = << >> /\ x = NewWriters
  BY DEF Init, GeneratorInit, WriterInit
<1>3. InputFacts
  BY <1>1, Ber2LxmlAssumption DEF InputFacts
<1>4. CounterFacts
  <2>1. Rooted(<<0>>, <<0>>)
    BY DEF Rooted
  <2>2. Len(units) \in Nat
    BY <1>1
  <2> QED
    BY <1>2, <2>1, <2>2 DEF CounterFacts
<1>5. TreeFacts
  BY <1>2 DEF TreeFacts, Formed, OnPath, Rises
<1>6. WriterFacts
  <2>1. Walk(<< >>, << >>)
    BY DEF Walk
  <2>2. NewWriters.tlvs = << >>
    BY DEF NewWriters
  <2> QED
    BY <1>2, <2>1, <2>2, NewSound DEF WriterFacts, OnlyConstructed
<1> QED
  BY <1>3, <1>4, <1>5, <1>6 DEF Facts, GeneratorFacts

(* Whatever the input is, Tree_Generator builds a tree with one root, whose *)
(* constructed elements only have children, with node_stack_ as the path to *)
(* where it grows, and never pops the catch-all root of its counters        *)
(* (ber2lxml.cc:86-251); and whatever tree it builds, Lxml2Ber has a writer *)
(* for each open tag of definite length, with a position that counts what   *)
(* is in it, and a tag to pop for each end of a list of children: the       *)
(* assert(tlv_stack_top_) of pop_constructed() holds (lxml2ber.cc:109-232). *)
THEOREM TreesSound == Spec => []IInv
<1>1. Init => Facts
  BY InitFacts
<1>2. Facts /\ [Step \/ (Ended /\ UNCHANGED vars)]_vars => Facts'
  <2> SUFFICES ASSUME Facts, [Step \/ (Ended /\ UNCHANGED vars)]_vars
               PROVE  Facts'
    OBVIOUS
  <2>1. CASE Step
    BY <2>1, GeneratorKeeps, WriterKeeps DEF Step
  <2>2. CASE UNCHANGED vars
    BY <2>2 DEF vars, generatorVars, writerVars, input, counters, Facts,
                GeneratorFacts, InputFacts, CounterFacts, TreeFacts, WriterFacts
  <2> QED
    BY <2>1, <2>2
<1>3. Facts => IInv
  <2> SUFFICES ASSUME Facts PROVE IInv
    OBVIOUS
  <2>1. GeneratorTypeOK
    BY DEF Facts, GeneratorFacts, CounterFacts, TreeFacts, Formed, Rooted,
           GeneratorTypeOK
  <2>2. RootKept
    BY DEF Facts, GeneratorFacts, CounterFacts, Rooted, RootKept
  <2>3. OpenElements
    BY Zenon DEF Facts, GeneratorFacts, TreeFacts, Formed, OnPath, OpenElements
  <2>4. IsTree
    BY Zenon DEF Facts, GeneratorFacts, TreeFacts, Formed, Rises, IsTree
  <2>5. WriterTypeOK /\ WritersMatch(x) /\ TagToPop
    BY DEF Facts, WriterFacts, Walk, Sound, WriterTypeOK, TagToPop
  <2>6. WalkInStep
    BY DEF Facts, WriterFacts, Walk, OnlyConstructed, WalkInStep
  <2> QED
    BY <2>1, <2>2, <2>3, <2>4, <2>5, <2>6, Zenon DEF IInv
<1> QED
  BY <1>1, <1>2, <1>3, PTL DEF Spec

(***************************************************************************)
(* What the tree shows                                                     *)
(***************************************************************************)
(* The nodes o that a walk is inside of have the depths 0, 1, .., and the  *)
(* next node is not deeper than a child of the last of them.               *)
Deep(f, i, o) ==
  /\ \A n \in 1 .. Len(o) : f[o[n]].depth = n - 1
  /\ i < Len(f) => f[i + 1].depth <= Len(o)

(* Where nothing is left to close, the next node is such a child. *)
LEMMA DeepNext ==
  ASSUME NEW f \in AllForests, NEW i, NEW b, NEW o, WalkAt(f, i, b, o), Deep(f, i, o),
         NoneEnds(f, i, o), i < Len(f)
  PROVE  f[i + 1].depth = Len(o)
<1>1. /\ i \in Nat /\ Len(f) \in Nat /\ i + 1 \in 1 .. Len(f)
      /\ f[i + 1].depth \in Nat /\ f[i + 1].depth <= Len(o) /\ o \in Seq(Nat)
  BY NodesTyped DEF WalkAt, Deep, Ascending
<1>2. CASE o = << >>
  BY <1>1, <1>2
<1>3. CASE o # << >>
  <2> DEFINE k == Last(o)
             m == LastOf(f, k)
             l == Len(o)
  <2>1. l \in Nat /\ l \in 1 .. Len(o) /\ k = o[l]
    BY <1>1, <1>3 DEF Last
  <2>2. f[k].depth = l - 1
    BY <2>1 DEF Deep
  <2>3. /\ k \in 1 .. i /\ k \in 1 .. Len(f) /\ m \in Nat
    BY <1>3, WalkTop
  <2>4. m > i
    BY <1>3 DEF NoneEnds
  <2>5. IsLast(f, k, m)
    BY <2>3, LastIs
  <2> HIDE DEF k, m
  <2>6. i + 1 \in (k + 1) .. m
    BY <1>1, <2>3, <2>4
  <2>7. f[i + 1].depth > f[k].depth
    BY <2>5, <2>6 DEF IsLast
  <2> QED
    BY <1>1, <2>1, <2>2, <2>7
<1> QED
  BY <1>2, <1>3

(* The node behind a node is one level deeper at most, and not deeper than  *)
(* a primitive one.                                                        *)
LEMMA NextDepth ==
  ASSUME NEW f \in AllForests, NEW k \in 1 .. Len(f), k < Len(f)
  PROVE  f[k + 1].depth <= IF f[k].form = "primitive" THEN f[k].depth
                                                      ELSE f[k].depth + 1
<1>1. IsForest(f) /\ k + 1 \in 1 .. Len(f) /\ k + 1 # 1 /\ k + 1 - 1 = k
  BY NodesTyped
<1> QED
  BY <1>1 DEF IsForest

(* It begins. *)
LEMMA DeepOpens ==
  ASSUME NEW f \in AllForests, NEW i, NEW b, NEW o, WalkAt(f, i, b, o), Deep(f, i, o),
         NoneEnds(f, i, o), i < Len(f)
  PROVE  Deep(f, i + 1, IF f[i + 1].form = "primitive" THEN o ELSE Append(o, i + 1))
<1> DEFINE k == i + 1
           l == Len(o)
<1>0. f[k].depth = l
  BY DeepNext
<1>1. /\ i \in Nat /\ Len(f) \in Nat /\ k \in 1 .. Len(f) /\ k \in Nat
      /\ f[k].depth = l /\ o \in Seq(Nat) /\ l \in Nat
  BY <1>0, NodesTyped DEF WalkAt, Ascending
<1>2. k < Len(f) => f[k + 1].depth <= IF f[k].form = "primitive" THEN l ELSE l + 1
  BY <1>1, NextDepth
<1> HIDE DEF k
<1>3. \A n \in 1 .. l : f[o[n]].depth = n - 1
  BY DEF Deep
<1>4. CASE f[k].form = "primitive"
  BY <1>2, <1>3, <1>4 DEF Deep, k
<1>5. CASE f[k].form # "primitive"
  <2> DEFINE p == Append(o, k)
  <2>1. Len(p) = l + 1 /\ p[l + 1] = k /\ \A n \in 1 .. l : p[n] = o[n]
    BY <1>1
  <2> HIDE DEF p
  <2>2. \A n \in 1 .. Len(p) : f[p[n]].depth = n - 1
    <3> SUFFICES ASSUME NEW n \in 1 .. Len(p) PROVE f[p[n]].depth = n - 1
      OBVIOUS
    <3>1. CASE n \in 1 .. l
      BY <1>3, <2>1, <3>1
    <3>2. CASE n \notin 1 .. l
      <4>1. n = l + 1
        BY <1>1, <2>1, <3>2
      <4> QED
        BY <1>1, <2>1, <4>1
    <3> QED
      BY <3>1, <3>2
  <2>3. Deep(f, k, p)
    BY <1>2, <1>5, <2>1, <2>2 DEF Deep
  <2> QED
    BY <1>5, <2>3 DEF k, p
<1> QED
  BY <1>4, <1>5

(* The innermost node ends. *)
LEMMA DeepCloses ==
  ASSUME NEW f \in AllForests, NEW i, NEW b, NEW o, WalkAt(f, i, b, o), Deep(f, i, o),
         ~NoneEnds(f, i, o)
  PROVE  Deep(f, i, Front(o))
<1> DEFINE k == Last(o)
           l == Len(o)
<1>1. o # << >> /\ k \in 1 .. Len(f) /\ LastOf(f, k) = i
  BY WalkCloses
<1>2. o \in Seq(Nat) /\ l \in Nat /\ l >= 1 /\ k = o[l]
  BY <1>1 DEF WalkAt, Ascending, Last
<1>3. /\ Len(Front(o)) = l - 1 /\ \A n \in 1 .. l - 1 : Front(o)[n] = o[n]
  BY <1>1, <1>2, FrontIs
<1>4. f[k].depth = l - 1
  BY <1>2 DEF Deep
<1>5. IsLast(f, k, i)
  BY <1>1, LastIs
<1> HIDE DEF k
<1>6. i < Len(f) => f[i + 1].depth <= l - 1
  BY <1>4, <1>5 DEF IsLast
<1>7. \A n \in 1 .. l - 1 : f[Front(o)[n]].depth = n - 1
  <2> SUFFICES ASSUME NEW n \in 1 .. l - 1 PROVE f[Front(o)[n]].depth = n - 1
    OBVIOUS
  <2>1. n \in 1 .. l /\ Front(o)[n] = o[n]
    BY <1>2, <1>3
  <2> QED
    BY <2>1 DEF Deep
<1> QED
  BY <1>3, <1>6, <1>7 DEF Deep

(* The units that were read are those of a walk, which is inside of the    *)
(* nodes on the stack of the generator, and the counters are those of its  *)
(* place; there is an element for each node.                               *)
Building(f, i, b, o, d) ==
  /\ Place(f, i, b, o, d) /\ Deep(f, i, o)
  /\ SubSeq(units, 1, read) = Walked(f, i, b)
  /\ Counting(f, d, lengthStack, writtenStack, At(f, i, b))
  /\ nodeStack = o
  /\ Len(tree) = i
  /\ \A j \in 1 .. i : tree[j] = ElementOf(f[j])

(* The element for a node *)
LEMMA ElementIs ==
  ASSUME NEW f \in AllForests, NEW k \in 1 .. Len(f), f[k].depth = Len(nodeStack),
         NEW u, u = HeadOf(f, k)
  PROVE  ElementFor(u) = ElementOf(f[k])
<1>1. /\ u.shape = IF f[k].form = "primitive" THEN "primitive" ELSE "constructed"
      /\ u.indefinite = (f[k].form = "indefinite")
      /\ f[k].form = "primitive" => u.length = f[k].length
  BY DEF HeadOf, UnitOf
<1>2. f[k].form # "primitive" => f[k].length = 0
  <2>1. f[k] \in AnyNode
    BY NodesTyped
  <2> QED
    BY <2>1 DEF AnyNode
<1>3. (IF u.shape = "primitive" THEN u.length ELSE 0) = f[k].length
  BY <1>1, <1>2
<1>4. ElementFor(u) = [depth |-> f[k].depth, shape |-> u.shape,
                       indefinite |-> args.indefinite /\ u.indefinite,
                       text |-> f[k].length]
  BY <1>3, Zenon DEF ElementFor
<1> QED
  BY <1>1, <1>4, Zenon DEF ElementOf

(* An element more *)
LEMMA ElementsGrow ==
  ASSUME NEW f \in AllForests, NEW t \in Seq(Element), NEW e \in Element,
         \A j \in 1 .. Len(t) : t[j] = ElementOf(f[j]), e = ElementOf(f[Len(t) + 1])
  PROVE  LET s == Append(t, e)
         IN  Len(s) = Len(t) + 1 /\ \A j \in 1 .. Len(s) : s[j] = ElementOf(f[j])
<1> DEFINE s == Append(t, e)
<1>1. /\ Len(t) \in Nat /\ Len(s) = Len(t) + 1 /\ s[Len(t) + 1] = e
      /\ \A j \in 1 .. Len(t) : s[j] = t[j]
  BY ElementAppended
<1> HIDE DEF s
<1>2. ASSUME NEW j \in 1 .. Len(s) PROVE s[j] = ElementOf(f[j])
  <2>1. j \in 1 .. Len(t) \/ j = Len(t) + 1
    BY <1>1
  <2> QED
    BY <1>1, <2>1
<1> QED
  BY <1>1, <1>2 DEF s

(* Reading is a step of the walk. *)
LEMMA BuildReads ==
  ASSUME GeneratorFacts, NEW f \in AllForests, IsPrefix(units, Units(f)),
         NEW i, NEW b, NEW o, NEW d, Building(f, i, b, o, d), Settled(f, i, o),
         NEW u, Next(u)
  PROVE  /\ \/ WalksInto(f, i, o, d, lengthStack, writtenStack, units, read, u)
            \/ WalksOut(f, i, o, d, lengthStack, writtenStack, units, read, u)
         /\ read' = read + 1 /\ units' = units /\ args' = args
         /\ i \in Nat /\ WalkAt(f, i, b, o)
<1>1. /\ read < Len(units) /\ u = units[read + 1] /\ read' = read + 1
      /\ units' = units /\ args' = args
  BY DEF Next, input
<1>2. units \in Seq(EncodedUnit) /\ read \in Nat
  BY NextFacts DEF GeneratorFacts, InputFacts
<1>3. /\ Place(f, i, b, o, d) /\ SubSeq(units, 1, read) = Walked(f, i, b)
      /\ Counting(f, d, lengthStack, writtenStack, At(f, i, b))
  BY Zenon DEF Building
<1>4. i \in Nat /\ WalkAt(f, i, b, o)
  BY <1>3, PlaceTyped
<1>5. \/ WalksInto(f, i, o, d, lengthStack, writtenStack, units, read, u)
      \/ WalksOut(f, i, o, d, lengthStack, writtenStack, units, read, u)
  BY <1>1, <1>2, <1>3, ReadPlaces, Zenon
<1> QED
  BY <1>1, <1>4, <1>5

(* A primitive element is added. *)
LEMMA BuildPrimitive ==
  ASSUME GeneratorFacts, NEW f \in AllForests, IsPrefix(units, Units(f)),
         NEW i, NEW b, NEW o, NEW d, Building(f, i, b, o, d), Settled(f, i, o),
         NEW u, GenPrimitive(u), pc' # "failed"
  PROVE  Building(f, i + 1, i + 2, o, d)'
<1> DEFINE k == i + 1
<1>1. /\ Next(u) /\ u.shape = "primitive" /\ ~u.eoc /\ lengthStack' = lengthStack
      /\ writtenStack' = AddToTop(writtenStack, u.tl + u.length)
      /\ AddElement(u) /\ nodeStack' = nodeStack
  BY ZenonT(30) DEF GenPrimitive, Throw
<1>2. /\ WalksInto(f, i, o, d, lengthStack, writtenStack, units, read, u)
      /\ read' = read + 1 /\ units' = units /\ args' = args
      /\ i \in Nat /\ WalkAt(f, i, b, o)
  <2>1. ~WalksOut(f, i, o, d, lengthStack, writtenStack, units, read, u)
    BY <1>1, Zenon DEF WalksOut
  <2> QED
    BY <1>1, <2>1, BuildReads
<1>3. /\ NoneEnds(f, i, o) /\ i < Len(f) /\ k \in 1 .. Len(f) /\ u = HeadOf(f, k)
      /\ SubSeq(units, 1, read + 1) = Walked(f, k, k + 1)
      /\ f[k].form \in {"primitive", "definite", "indefinite"}
  BY <1>2, Zenon DEF WalksInto
<1>4. f[k].form = "primitive"
  <2>1. f[k].form # "primitive" => u.shape = "constructed"
    BY <1>3, HeadParts
  <2> QED
    BY <1>1, <2>1
<1>5. /\ Place(f, k, k + 1, o, d)
      /\ Counting(f, d, lengthStack', writtenStack', At(f, k, k + 1))
  BY <1>1, <1>2, <1>4, Zenon DEF WalksInto
<1>6. Deep(f, i, o) /\ nodeStack = o /\ Len(tree) = i
      /\ \A j \in 1 .. i : tree[j] = ElementOf(f[j])
  BY Zenon DEF Building
<1>7. Deep(f, k, o) /\ f[k].depth = Len(o)
  BY <1>2, <1>3, <1>4, <1>6, DeepOpens, DeepNext
<1>8. Len(tree') = k /\ \A j \in 1 .. k : tree'[j] = ElementOf(f[j])
  <2> DEFINE e == ElementFor(u)
  <2>1. tree' = Append(tree, e)
    BY <1>1, Zenon DEF AddElement, ElementFor
  <2>2. u \in EncodedUnit
    BY <1>1, NextFacts
  <2>3. e \in Element /\ e = ElementOf(f[k]) /\ tree \in Seq(Element)
    BY <1>3, <1>6, <1>7, <2>2, ElementTyped, ElementIs
       DEF GeneratorFacts, TreeFacts, Formed
  <2> HIDE DEF e
  <2> QED
    BY <1>6, <2>1, <2>3, ElementsGrow
<1>9. \A j \in 1 .. k : tree'[j] = ElementOf(f[j])'
  BY <1>2, <1>8 DEF ElementOf
<1>10. k + 1 = i + 2 /\ nodeStack' = o
  BY <1>1, <1>2, <1>6
<1> HIDE DEF k
<1>11. Building(f, k, k + 1, o, d)'
  BY <1>2, <1>3, <1>5, <1>7, <1>8, <1>9, <1>10, ZenonT(30) DEF Building
<1> QED
  BY <1>10, <1>11 DEF k

(* The stacks without what was pushed *)
LEMMA PushedOff ==
  ASSUME NEW A, NEW s \in Seq(A), NEW e \in A
  PROVE  /\ Front(Append(s, e)) = s /\ Last(Append(s, e)) = e
         /\ Len(Append(s, e)) = Len(s) + 1 /\ Len(s) \in Nat
<1> DEFINE t == Append(s, e)
<1>1. /\ t \in Seq(A) /\ Len(t) = Len(s) + 1 /\ Len(s) \in Nat /\ t[Len(s) + 1] = e
      /\ \A n \in 1 .. Len(s) : t[n] = s[n]
  OBVIOUS
<1>2. t # << >>
  BY <1>1
<1> HIDE DEF t
<1>3. /\ Last(t) = t[Len(t)] /\ Front(t) \in Seq(A) /\ Len(Front(t)) = Len(t) - 1
      /\ \A n \in 1 .. Len(t) - 1 : Front(t)[n] = t[n]
  BY <1>1, <1>2, FrontIs
<1>4. Len(t) - 1 = Len(s)
  BY <1>1
<1>5. \A n \in 1 .. Len(Front(t)) : Front(t)[n] = s[n]
  BY <1>1, <1>3, <1>4
<1>6. Front(t) = s
  BY <1>3, <1>4, <1>5, SameElements
<1> QED
  BY <1>1, <1>3, <1>6 DEF t

(* A definite tag with nothing inside ends where it begins: its counters   *)
(* need not be pushed.                                                     *)
LEMMA EmptyEnds ==
  ASSUME NEW f \in AllForests, NEW k \in 1 .. Len(f), NEW o \in Seq(Nat), NEW d \in Seq(Nat),
         Place(f, k, k + 1, Append(o, k), Append(d, k)),
         NEW ls \in Seq(Nat), NEW ws \in Seq(Nat), Len(ls) >= 1, Len(ws) >= 1,
         Counting(f, Append(d, k), Append(ls, 0), Append(ws, 0), At(f, k, k + 1))
  PROVE  /\ Place(f, k, k, o, d) /\ ~NoneEnds(f, k, Append(o, k))
         /\ Walked(f, k, k) = Walked(f, k, k + 1)
         /\ Counting(f, d, ls, ws, At(f, k, k))
<1> DEFINE p == Append(o, k)
           e == Append(d, k)
           l == Append(ls, 0)
           w == Append(ws, 0)
<1>1. /\ Front(l) = ls /\ Last(l) = 0 /\ Len(l) = Len(ls) + 1 /\ Len(ls) \in Nat
      /\ Front(w) = ws /\ Last(w) = 0
  BY PushedOff
<1>2. /\ Front(p) = o /\ Last(p) = k /\ Front(e) = d
  <2>1. k \in Nat
    OBVIOUS
  <2> QED
    BY <2>1, PushedOff
<1>3. Place(f, k, k + 1, p, e) /\ Counting(f, e, l, w, At(f, k, k + 1))
  OBVIOUS
<1> HIDE DEF p, e, l, w
<1>4. Last(l) = Last(w) /\ Len(l) > 1
  BY <1>1
<1>5. /\ ~NoneEnds(f, k, p) /\ Place(f, k, Last(p), Front(p), Front(e))
      /\ Walked(f, k, Last(p)) = Walked(f, k, k + 1)
      /\ Counting(f, Front(e), Front(l), AddToTop(Front(w), Last(l)), At(f, k, Last(p)))
  BY <1>3, <1>4, EndPlaces
<1>6. AddToTop(ws, 0) = ws
  <2> DEFINE v == AddToTop(ws, 0)
             n == Len(ws)
  <2>1. n \in DOMAIN ws /\ ws[n] \in Nat /\ v = [ws EXCEPT ![n] = ws[n] + 0]
    BY DEF AddToTop
  <2>2. ws[n] + 0 = ws[n]
    BY <2>1
  <2> QED
    BY <2>1, <2>2
<1> QED
  BY <1>1, <1>2, <1>5, <1>6 DEF p

(* A constructed element is added, and is the innermost one if it has      *)
(* anything inside.                                                        *)
LEMMA BuildConstructed ==
  ASSUME GeneratorFacts, NEW f \in AllForests, IsPrefix(units, Units(f)),
         NEW i, NEW b, NEW o, NEW d, Building(f, i, b, o, d), Settled(f, i, o),
         NEW u, GenConstructed(u), pc' # "failed"
  PROVE  \E c, p, e : Building(f, i + 1, c, p, e)'
<1> DEFINE k == i + 1
           inner == ~u.indefinite /\ u.length > 0
           ws == AddToTop(writtenStack, u.tl)
<1>1. /\ Next(u) /\ u.shape = "constructed"
      /\ writtenStack' = IF inner THEN Append(ws, 0) ELSE ws
      /\ lengthStack' = IF inner THEN Append(lengthStack, u.length) ELSE lengthStack
  BY ZenonT(30) DEF GenConstructed
<1>2. /\ AddElement(u)
      /\ nodeStack' = IF HasInside(u) THEN Append(nodeStack, Len(tree) + 1)
                                      ELSE nodeStack
  BY ZenonT(30) DEF GenConstructed, Throw
<1>3. /\ WalksInto(f, i, o, d, lengthStack, writtenStack, units, read, u)
      /\ read' = read + 1 /\ units' = units /\ args' = args
      /\ i \in Nat /\ WalkAt(f, i, b, o)
  <2>1. ~WalksOut(f, i, o, d, lengthStack, writtenStack, units, read, u)
    <3>1. "constructed" # "primitive"
      OBVIOUS
    <3> QED
      BY <1>1, <3>1, Zenon DEF WalksOut
  <2> QED
    BY <1>1, <2>1, BuildReads
<1>4. /\ NoneEnds(f, i, o) /\ i < Len(f) /\ k \in 1 .. Len(f) /\ u = HeadOf(f, k)
      /\ SubSeq(units, 1, read + 1) = Walked(f, k, k + 1)
      /\ f[k].form \in {"primitive", "definite", "indefinite"}
  BY <1>3, Zenon DEF WalksInto
<1>5. f[k].form # "primitive"
  <2>1. f[k].form = "primitive" => u.shape = "primitive"
    BY <1>4, HeadParts
  <2> QED
    BY <1>1, <2>1
<1>6. /\ Place(f, i, b, o, d) /\ Deep(f, i, o) /\ nodeStack = o /\ Len(tree) = i
      /\ \A j \in 1 .. i : tree[j] = ElementOf(f[j])
      /\ Counting(f, d, lengthStack, writtenStack, At(f, i, b))
  BY Zenon DEF Building
<1>7. Deep(f, k, Append(o, k)) /\ f[k].depth = Len(o)
  BY <1>3, <1>4, <1>5, <1>6, DeepOpens, DeepNext
<1>8. u \in EncodedUnit /\ u.length \in Nat /\ u.tl \in Nat
  BY <1>1, NextFacts, EncodedParts
<1>9. Len(tree') = k /\ \A j \in 1 .. k : tree'[j] = ElementOf(f[j])
  <2> DEFINE e == ElementFor(u)
  <2>1. tree' = Append(tree, e)
    BY <1>2, Zenon DEF AddElement, ElementFor
  <2>2. e \in Element /\ e = ElementOf(f[k]) /\ tree \in Seq(Element)
    BY <1>4, <1>6, <1>7, <1>8, ElementTyped, ElementIs
       DEF GeneratorFacts, TreeFacts, Formed
  <2> HIDE DEF e
  <2> QED
    BY <1>6, <2>1, <2>2, ElementsGrow
<1>10. \A j \in 1 .. k : tree'[j] = ElementOf(f[j])'
  BY <1>3, <1>9 DEF ElementOf
<1> HIDE DEF ws
<1>11. CASE HasInside(u)
  <2>1. nodeStack' = Append(o, k)
    BY <1>2, <1>6, <1>11
  <2> HIDE DEF k
  <2>2. \E e : /\ Place(f, k, k + 1, Append(o, k), e)
               /\ Counting(f, e, lengthStack', writtenStack', At(f, k, k + 1))
    <3>1. CASE u.indefinite
      <4>1. f[k].form = "indefinite"
        BY <1>4, <1>5, <3>1, HeadParts
      <4>2. writtenStack' = ws /\ lengthStack' = lengthStack
        BY <1>1, <3>1
      <4>3. /\ Place(f, k, k + 1, Append(o, k), d)
            /\ Counting(f, d, lengthStack, ws, At(f, k, k + 1))
        BY <1>3, <4>1, Zenon DEF WalksInto, k, ws
      <4> QED
        BY <4>2, <4>3
    <3>2. CASE ~u.indefinite
      <4>1. f[k].form = "definite"
        BY <1>4, <1>5, <3>2, HeadParts
      <4>2. inner
        BY <1>11, <3>2 DEF HasInside
      <4>3. /\ writtenStack' = Append(ws, 0)
            /\ lengthStack' = Append(lengthStack, u.length)
        BY <1>1, <4>2
      <4>4. /\ Place(f, k, k + 1, Append(o, k), Append(d, k))
            /\ Counting(f, Append(d, k), Append(lengthStack, u.length), Append(ws, 0),
                        At(f, k, k + 1))
        BY <1>3, <4>1, Zenon DEF WalksInto, k, ws
      <4> QED
        BY <4>3, <4>4
    <3> QED
      BY <3>1, <3>2
  <2>3. PICK e : /\ Place(f, k, k + 1, Append(o, k), e)
                 /\ Counting(f, e, lengthStack', writtenStack', At(f, k, k + 1))
    BY <2>2
  <2>4. Building(f, k, k + 1, Append(o, k), e)'
    BY <1>3, <1>4, <1>7, <1>9, <1>10, <2>1, <2>3, ZenonT(30) DEF Building
  <2> QED
    BY <2>4 DEF k
<1>12. CASE ~HasInside(u)
  <2>1. nodeStack' = o /\ ~u.indefinite /\ u.length = 0
    BY <1>2, <1>6, <1>8, <1>12 DEF HasInside
  <2>2. f[k].form = "definite"
    BY <1>4, <1>5, <2>1, HeadParts
  <2>3. writtenStack' = ws /\ lengthStack' = lengthStack
    BY <1>1, <2>1
  <2>4. o \in Seq(Nat) /\ d \in Seq(Nat)
    BY <1>6, PlaceTyped
  <2>5. /\ lengthStack \in Seq(Nat) /\ writtenStack \in Seq(Nat)
        /\ Len(lengthStack) >= 1 /\ Len(writtenStack) >= 1
    BY DEF GeneratorFacts, CounterFacts, Rooted
  <2>6. ws \in Seq(Nat) /\ Len(ws) >= 1
    BY <1>8, <2>5 DEF AddToTop, ws
  <2> HIDE DEF k
  <2>7. /\ Place(f, k, k + 1, Append(o, k), Append(d, k))
        /\ Counting(f, Append(d, k), Append(lengthStack, 0), Append(ws, 0),
                    At(f, k, k + 1))
    BY <1>3, <2>1, <2>2, Zenon DEF WalksInto, k, ws
  <2>8. /\ Place(f, k, k, o, d) /\ ~NoneEnds(f, k, Append(o, k))
        /\ Walked(f, k, k) = Walked(f, k, k + 1)
        /\ Counting(f, d, lengthStack, ws, At(f, k, k))
    BY <1>4, <2>4, <2>5, <2>6, <2>7, EmptyEnds
  <2>9. Deep(f, k, o)
    <3>1. WalkAt(f, k, k + 1, Append(o, k))
      BY <2>7, PlaceTyped
    <3>2. Deep(f, k, Front(Append(o, k)))
      BY <1>7, <2>8, <3>1, DeepCloses
    <3>3. k \in Nat
      BY <1>4
    <3>4. Front(Append(o, k)) = o
      BY <2>4, <3>3, PushedOff
    <3> QED
      BY <3>2, <3>4
  <2>10. Building(f, k, k, o, d)'
    BY <1>3, <1>4, <1>9, <1>10, <2>1, <2>3, <2>8, <2>9, ZenonT(30) DEF Building
  <2> QED
    BY <2>10 DEF k
<1> QED
  BY <1>11, <1>12

(* The innermost element ends with an end-of-content unit. *)
LEMMA BuildEoc ==
  ASSUME GeneratorFacts, NEW f \in AllForests, IsPrefix(units, Units(f)),
         NEW i, NEW b, NEW o, NEW d, Building(f, i, b, o, d), Settled(f, i, o),
         NEW u, GenEoc(u), pc' # "failed"
  PROVE  Building(f, i, Last(o), Front(o), d)'
<1>1. /\ Next(u) /\ u.eoc /\ lengthStack' = lengthStack
      /\ writtenStack' = AddToTop(writtenStack, u.tl + u.length)
      /\ nodeStack' = Front(nodeStack) /\ tree' = tree
  BY ZenonT(30) DEF GenEoc, PopNode, Throw
<1>2. /\ WalksOut(f, i, o, d, lengthStack, writtenStack, units, read, u)
      /\ read' = read + 1 /\ units' = units /\ args' = args
      /\ i \in Nat /\ WalkAt(f, i, b, o)
  <2>1. ~WalksInto(f, i, o, d, lengthStack, writtenStack, units, read, u)
    BY <1>1, Zenon DEF WalksInto
  <2> QED
    BY <1>1, <2>1, BuildReads
<1>3. /\ ~NoneEnds(f, i, o) /\ SubSeq(units, 1, read + 1) = Walked(f, i, Last(o))
      /\ Place(f, i, Last(o), Front(o), d)
      /\ Counting(f, d, lengthStack', writtenStack', At(f, i, Last(o)))
  BY <1>1, <1>2, Zenon DEF WalksOut
<1>4. Deep(f, i, o) /\ nodeStack = o /\ Len(tree) = i
      /\ \A j \in 1 .. i : tree[j] = ElementOf(f[j])
  BY Zenon DEF Building
<1>5. Deep(f, i, Front(o))
  BY <1>2, <1>3, <1>4, DeepCloses
<1>6. \A j \in 1 .. i : tree'[j] = ElementOf(f[j])'
  BY <1>1, <1>2, <1>4 DEF ElementOf
<1> QED
  BY <1>1, <1>2, <1>3, <1>4, <1>5, <1>6, ZenonT(30) DEF Building

(* The innermost element ends with its last octet. *)
LEMMA BuildCloses ==
  ASSUME GeneratorFacts, NEW f \in AllForests,
         NEW i, NEW b, NEW o, NEW d, Building(f, i, b, o, d), CloseDefinite,
         pc' # "failed"
  PROVE  Building(f, i, Last(o), Front(o), Front(d))'
<1>1. /\ pc = "close" /\ Complete /\ read' = read /\ units' = units /\ args' = args
      /\ nodeStack # << >> /\ nodeStack' = Front(nodeStack) /\ tree' = tree
      /\ lengthStack' = Front(lengthStack)
      /\ writtenStack' = AddToTop(Front(writtenStack), Last(lengthStack))
  BY ZenonT(30) DEF CloseDefinite, PopNode, Throw, input
<1>2. /\ Place(f, i, b, o, d) /\ Deep(f, i, o) /\ nodeStack = o /\ Len(tree) = i
      /\ \A j \in 1 .. i : tree[j] = ElementOf(f[j])
      /\ SubSeq(units, 1, read) = Walked(f, i, b)
      /\ Counting(f, d, lengthStack, writtenStack, At(f, i, b))
  BY Zenon DEF Building
<1>3. Len(lengthStack) > 1 /\ Last(lengthStack) = Last(writtenStack)
  BY <1>1, NotTheRoot DEF GeneratorFacts, Complete
<1>4. /\ ~NoneEnds(f, i, o)
      /\ Place(f, i, Last(o), Front(o), Front(d))
      /\ Walked(f, i, Last(o)) = Walked(f, i, b)
      /\ Counting(f, Front(d), lengthStack', writtenStack', At(f, i, Last(o)))
  BY <1>1, <1>2, <1>3, EndPlaces
<1>5. Deep(f, i, Front(o))
  <2>1. WalkAt(f, i, b, o)
    BY <1>2, PlaceTyped
  <2> QED
    BY <1>2, <1>4, <2>1, DeepCloses
<1>6. \A j \in 1 .. i : tree'[j] = ElementOf(f[j])'
  BY <1>1, <1>2 DEF ElementOf
<1> QED
  BY <1>1, <1>2, <1>4, <1>5, <1>6, ZenonT(30) DEF Building

(***************************************************************************)
(* Limits, and what is shown in the end                                    *)
(***************************************************************************)
(* An element for each unit at most *)
LimitFacts ==
  LET limited == args.count > 0
  IN  /\ pc = "read" => Len(tree) <= nth /\ (limited => nth <= args.count)
      /\ pc = "close" => Len(tree) <= nth + 1 /\ (limited => nth < args.count)
      /\ pc = "built" /\ limited => Len(tree) <= args.count

LEMMA LimitsKeep ==
  ASSUME GeneratorFacts, LimitFacts, GeneratorNext
  PROVE  LimitFacts'
<1> DEFINE c == args.count
           n == Len(tree)
<1>1. c \in Nat /\ n \in Nat /\ nth \in Nat
  BY DEF GeneratorFacts, InputFacts, CounterFacts, TreeFacts, Formed
<1>2. args' = args
  BY DEF GeneratorNext, GenPrimitive, GenEoc, GenConstructed, Next, CloseDefinite,
         EndOfLoop, CountReached, EndOfInput, input
<1>3. CASE pc' = "failed"
  BY <1>3 DEF LimitFacts
<1>4. ASSUME NEW u, GenPrimitive(u) \/ GenEoc(u) \/ GenConstructed(u), pc' # "failed"
      PROVE  LimitFacts'
  <2>1. Next(u)
    BY <1>4, Zenon DEF GenPrimitive, GenEoc, GenConstructed
  <2>2. pc = "read" /\ nth' = nth /\ (c = 0 \/ nth < c)
    BY <2>1 DEF Next
  <2>3. n <= nth
    BY <2>2 DEF LimitFacts
  <2>4. pc' = "close" /\ (AddElement(u) \/ tree' = tree)
    BY <1>4, ZenonT(30) DEF GenPrimitive, GenEoc, GenConstructed, PopNode, Throw
  <2>5. Len(tree') = n \/ Len(tree') = n + 1
    <3>1. tree \in Seq(Element) /\ u \in EncodedUnit
      BY <2>1, NextFacts DEF GeneratorFacts, TreeFacts, Formed
    <3>2. CASE AddElement(u)
      <4> DEFINE e == ElementFor(u)
      <4>1. tree' = Append(tree, e)
        BY <3>2, Zenon DEF AddElement, ElementFor
      <4>2. e \in Element
        BY <3>1, ElementTyped
      <4> HIDE DEF e
      <4> QED
        BY <3>1, <4>1, <4>2, ElementAppended
    <3> QED
      BY <2>4, <3>2
  <2>6. Len(tree') <= nth' + 1
    BY <1>1, <2>2, <2>3, <2>5
  <2>7. c > 0 => nth' < c
    BY <1>1, <2>2
  <2> QED
    BY <1>2, <2>4, <2>6, <2>7 DEF LimitFacts
<1>5. CASE CloseDefinite /\ pc' # "failed"
  <2>1. pc = "close" /\ pc' = "close" /\ nth' = nth /\ tree' = tree
    BY <1>5, Zenon DEF CloseDefinite, PopNode, Throw
  <2> QED
    BY <1>2, <2>1 DEF LimitFacts
<1>6. CASE EndOfLoop
  <2>1. /\ pc = "close" /\ tree' = tree
        /\ \/ pc' = "built" /\ nth' = nth
           \/ pc' = "read" /\ nth' = nth + 1
    BY <1>6 DEF EndOfLoop
  <2>2. n <= nth + 1 /\ (c > 0 => nth < c)
    BY <2>1 DEF LimitFacts
  <2>3. c > 0 => nth + 1 <= c
    BY <1>1, <2>2
  <2>4. c > 0 => n <= c
    BY <1>1, <2>2, <2>3
  <2> QED
    BY <1>2, <2>1, <2>2, <2>3, <2>4 DEF LimitFacts
<1>7. CASE CountReached \/ EndOfInput
  <2>1. pc = "read" /\ pc' = "built" /\ tree' = tree
    BY <1>7 DEF CountReached, EndOfInput
  <2>2. n <= nth /\ (c > 0 => nth <= c)
    BY <2>1 DEF LimitFacts
  <2>3. c > 0 => n <= c
    BY <1>1, <2>2
  <2> QED
    BY <1>2, <2>1, <2>3 DEF LimitFacts
<1> QED
  BY <1>3, <1>4, <1>5, <1>6, <1>7, Zenon DEF GeneratorNext

(* An input that is as encoded, or the beginning of it, is walked while    *)
(* the tree is built.  The tree then shows the nodes that the walk has     *)
(* come by, and these are all if there is no limit to it.                  *)
Shows(f) ==
  /\ pc \in {"read", "close"} =>
       \E i, b, o, d : Building(f, i, b, o, d) /\ (pc = "read" => Settled(f, i, o))
  /\ pc = "built" =>
       /\ Len(tree) <= Len(f) /\ \A j \in 1 .. Len(tree) : tree[j] = ElementOf(f[j])
       /\ units = Units(f) /\ args.count = 0 /\ ~args.first => Len(tree) = Len(f)

(* A unit is read, or a definite tag ends. *)
LEMMA ShowsMore ==
  ASSUME GeneratorFacts, NEW f \in AllForests, IsPrefix(units, Units(f)), Shows(f),
         \/ \E u : GenPrimitive(u) \/ GenEoc(u) \/ GenConstructed(u)
         \/ CloseDefinite
  PROVE  Shows(f)'
<1>1. CASE pc' = "failed"
  BY <1>1 DEF Shows
<1>2. CASE CloseDefinite /\ pc' # "failed"
  <2>1. pc = "close" /\ pc' = "close"
    BY <1>2, Zenon DEF CloseDefinite, PopNode, Throw
  <2>2. PICK i, b, o, d : Building(f, i, b, o, d)
    BY <2>1 DEF Shows
  <2>3. Building(f, i, Last(o), Front(o), Front(d))'
    BY <1>2, <2>2, BuildCloses
  <2> QED
    BY <2>1, <2>3 DEF Shows
<1>3. ASSUME NEW u, GenPrimitive(u) \/ GenEoc(u) \/ GenConstructed(u), pc' # "failed"
      PROVE  Shows(f)'
  <2>1. pc = "read" /\ pc' = "close"
    BY <1>3, ZenonT(30) DEF GenPrimitive, GenEoc, GenConstructed, Next, PopNode, Throw
  <2>2. PICK i, b, o, d : Building(f, i, b, o, d) /\ Settled(f, i, o)
    BY <2>1 DEF Shows
  <2>3. \E j, c, p, e : Building(f, j, c, p, e)'
    <3>1. CASE GenPrimitive(u)
      <4>1. Building(f, i + 1, i + 2, o, d)'
        BY <1>3, <2>2, <3>1, BuildPrimitive
      <4> QED
        BY <4>1
    <3>2. CASE GenEoc(u)
      <4>1. Building(f, i, Last(o), Front(o), d)'
        BY <1>3, <2>2, <3>2, BuildEoc
      <4> QED
        BY <4>1
    <3>3. CASE GenConstructed(u)
      <4>1. \E c, p, e : Building(f, i + 1, c, p, e)'
        BY <1>3, <2>2, <3>3, BuildConstructed
      <4> QED
        BY <4>1
    <3> QED
      BY <1>3, <3>1, <3>2, <3>3
  <2> QED
    BY <2>1, <2>3 DEF Shows
<1> QED
  BY <1>1, <1>2, <1>3

(* The end of an iteration, and the ends of the loop: all is shown where   *)
(* all is read.                                                            *)
LEMMA ShowsEnd ==
  ASSUME GeneratorFacts, NEW f \in AllForests, IsPrefix(units, Units(f)), Shows(f),
         EndOfLoop \/ CountReached \/ EndOfInput
  PROVE  Shows(f)'
<1>1. /\ pc \in {"read", "close"} /\ tree' = tree /\ nodeStack' = nodeStack
      /\ lengthStack' = lengthStack /\ writtenStack' = writtenStack
      /\ units' = units /\ args' = args /\ pc' \in {"read", "built"}
  BY DEF EndOfLoop, CountReached, EndOfInput, input, counters
<1>2. PICK i, b, o, d : /\ Building(f, i, b, o, d)
                        /\ (pc = "read" => Settled(f, i, o))
  BY <1>1 DEF Shows
<1>3. /\ Place(f, i, b, o, d) /\ Len(tree) = i
      /\ \A j \in 1 .. i : tree[j] = ElementOf(f[j])
      /\ SubSeq(units, 1, read) = Walked(f, i, b)
      /\ Counting(f, d, lengthStack, writtenStack, At(f, i, b))
  BY <1>2, Zenon DEF Building
<1>4. i <= Len(f) /\ i \in Nat /\ Len(f) \in Nat
  BY <1>3, PlaceTyped, NodesTyped
<1>5. \A j \in 1 .. i : tree'[j] = ElementOf(f[j])'
  BY <1>1, <1>3 DEF ElementOf
<1>6. CASE EndOfLoop
  <2>1. read' = read /\ ~Complete /\ pc = "close"
    BY <1>6 DEF EndOfLoop
  <2>2. CASE pc' = "read"
    <3>1. Building(f, i, b, o, d)'
      BY <1>1, <1>2, <1>5, <2>1, ZenonT(60) DEF Building
    <3>2. lengthStack # << >>
      BY DEF GeneratorFacts, CounterFacts, Rooted
    <3>3. Settled(f, i, o)
      BY <1>3, <2>1, <3>2, NoneComplete DEF Complete
    <3> QED
      BY <2>2, <3>1, <3>3 DEF Shows
  <2>3. CASE pc' = "built"
    <3>1. args.first
      BY <1>6, <2>3 DEF EndOfLoop
    <3> QED
      BY <1>1, <1>3, <1>4, <1>5, <2>3, <3>1 DEF Shows
  <2> QED
    BY <1>1, <2>2, <2>3
<1>7. CASE CountReached
  <2>1. pc' = "built" /\ args.count > 0 /\ args.count # 0
    BY <1>7 DEF CountReached, GeneratorFacts, InputFacts
  <2> QED
    BY <1>1, <1>3, <1>4, <1>5, <2>1 DEF Shows
<1>8. CASE EndOfInput
  <2>1. pc' = "built" /\ read = Len(units) /\ pc = "read"
    BY <1>8 DEF EndOfInput
  <2>2. units = Units(f) => i = Len(f)
    <3> SUFFICES ASSUME units = Units(f) PROVE i = Len(f)
      OBVIOUS
    <3>1. units \in Seq(EncodedUnit)
      BY DEF GeneratorFacts, InputFacts
    <3>2. read \in Nat /\ read <= Len(units)
      BY <2>1, <3>1
    <3>3. SubSeq(units, 1, read) = units
      BY <2>1, <3>1, <3>2, FirstPart
    <3>4. Walked(f, i, b) = Units(f) /\ Settled(f, i, o)
      BY <1>2, <1>3, <2>1, <3>3
    <3> QED
      BY <1>3, <3>4, AllRead
  <2> QED
    BY <1>1, <1>3, <1>4, <1>5, <2>1, <2>2 DEF Shows
<1> QED
  BY <1>6, <1>7, <1>8

(* Nothing is read yet. *)
LEMMA ShowsInit ==
  ASSUME Init, NEW f \in AllForests
  PROVE  Shows(f) /\ LimitFacts
<1>1. /\ units \in Inputs(forest) /\ forest \in AllForests /\ read = 0 /\ pc = "read"
      /\ lengthStack = <<0>> /\ writtenStack = <<0>> /\ tree = << >> /\ nth = 0
      /\ nodeStack = << >> /\ args.count \in Nat
  <2>1. args \in [count : 0 .. MaxCount, first : BOOLEAN, indefinite : BOOLEAN]
    BY DEF Init, GeneratorInit
  <2>2. args.count \in Nat
    BY <2>1, Ber2LxmlAssumption
  <2> QED
    BY <2>2, InputForest DEF Init, GeneratorInit
<1>2. units \in Seq(EncodedUnit)
  BY <1>1, InputTyped
<1>3. SubSeq(units, 1, 0) = << >>
  BY <1>2
<1>4. Place(f, 0, 1, << >>, << >>)
  BY PlaceBegins
<1>5. Walked(f, 0, 1) = << >>
  BY PlaceBegins
<1>6. At(f, 0, 1) = 0
  BY <1>5, SpanOfNothing DEF At
<1>7. Counting(f, << >>, <<0>>, <<0>>, 0)
  BY DEF Counting, CountingOf, ContentFrom
<1>8. Deep(f, 0, << >>)
  <2>1. 0 < Len(f) => f[1].depth <= 0
    <3>1. IsForest(f) /\ Len(f) \in Nat
      BY NodesTyped
    <3> QED
      BY <3>1 DEF IsForest
  <2> QED
    BY <2>1 DEF Deep
<1>9. Len(tree) = 0 /\ \A j \in 1 .. 0 : tree[j] = ElementOf(f[j])
  BY <1>1
<1>10. Building(f, 0, 1, << >>, << >>)
  BY <1>1, <1>3, <1>4, <1>5, <1>6, <1>7, <1>8, <1>9 DEF Building
<1>11. Settled(f, 0, << >>)
  BY DEF Settled
<1>12. Shows(f)
  <2>1. \E i, b, o, d : Building(f, i, b, o, d) /\ (pc = "read" => Settled(f, i, o))
    BY <1>10, <1>11, Zenon
  <2> QED
    BY <1>1, <2>1 DEF Shows
<1>13. LimitFacts
  BY <1>1, <1>9 DEF LimitFacts
<1> QED
  BY <1>12, <1>13

(***************************************************************************)
(* An end-of-content unit too many                                         *)
(***************************************************************************)
(* No definite tag has anything inside. *)
NothingInside(f) ==
  \A k \in 1 .. Len(f) : f[k].form = "definite" => Below(f, k) = {}

(* The header of such a tag has the length 0. *)
LEMMA EmptyLength ==
  ASSUME NEW f \in AllForests, NEW k \in 1 .. Len(f), f[k].form = "definite",
         Below(f, k) = {}
  PROVE  HeadOf(f, k).length = 0 /\ ~HeadOf(f, k).indefinite
<1>1. PICK rest : Rests(f, rest)
  BY RestsExist
<1>2. Inner(f)[k] = InnerOf(f, rest, k)
  BY <1>1 DEF Rests
<1>3. InnerOf(f, rest, k) = 0
  BY DEF InnerOf
<1> QED
  BY <1>2, <1>3, HeadParts

(* The units of an input with one at position n *)
LEMMA StrayElements ==
  ASSUME NEW all \in Seq(EncodedUnit), NEW n \in 1 .. Len(all) + 1
  PROVE  LET us == InsertAt(all, n, Eoc)
         IN  /\ us \in Seq(EncodedUnit) /\ Len(us) = Len(all) + 1 /\ us[n] = Eoc
             /\ \A m \in 1 .. n - 1 : us[m] = all[m]
             /\ \A m \in n .. Len(all) : us[m + 1] = all[m]
<1> DEFINE a == SubSeq(all, 1, n - 1)
           b == SubSeq(all, n, Len(all))
           c == a \o <<Eoc>>
<1>0. n \in Nat /\ Len(all) \in Nat
  OBVIOUS
<1>1. InsertAt(all, n, Eoc) = c \o b
  BY Zenon DEF InsertAt
<1>2. /\ a \in Seq(EncodedUnit) /\ Len(a) = n - 1
      /\ \A m \in 1 .. n - 1 : a[m] = all[m]
  <2>1. /\ 1 \in Nat /\ n - 1 \in Nat /\ 1 <= 1 /\ 1 <= n - 1 + 1 /\ n - 1 <= Len(all)
        /\ n - 1 - 1 + 1 = n - 1 /\ \A m \in 1 .. n - 1 : 1 + m - 1 = m
    BY <1>0
  <2>2. /\ a \in Seq(EncodedUnit) /\ Len(a) = n - 1 - 1 + 1
        /\ \A m \in 1 .. (n - 1 - 1 + 1) : a[m] = all[1 + m - 1]
    BY <2>1, SubSeqElements
  <2> HIDE DEF a
  <2> QED
    BY <2>1, <2>2
<1>3. /\ b \in Seq(EncodedUnit) /\ Len(b) = Len(all) - n + 1
      /\ \A m \in 1 .. (Len(all) - n + 1) : b[m] = all[n + m - 1]
  BY <1>0, SubSeqElements
<1>4. Eoc \in EncodedUnit
  BY EocTyped
<1> HIDE DEF a, b
<1>5. /\ c \in Seq(EncodedUnit) /\ Len(c) = n /\ c[n] = Eoc
      /\ \A m \in 1 .. n - 1 : c[m] = all[m]
  BY <1>0, <1>2, <1>4
<1> HIDE DEF c
<1>6. /\ c \o b \in Seq(EncodedUnit) /\ Len(c \o b) = Len(c) + Len(b)
      /\ \A m \in 1 .. Len(c) : (c \o b)[m] = c[m]
      /\ \A m \in 1 .. Len(b) : (c \o b)[Len(c) + m] = b[m]
  <2>1. c \in Seq(EncodedUnit) /\ b \in Seq(EncodedUnit)
    BY <1>3, <1>5
  <2> QED
    BY <2>1, ConcatElements, SMTT(30)
<1> DEFINE us == c \o b
<1> HIDE DEF us
<1>7. Len(us) = Len(all) + 1 /\ us \in Seq(EncodedUnit)
  BY <1>0, <1>3, <1>5, <1>6 DEF us
<1>8. us[n] = Eoc /\ \A m \in 1 .. n - 1 : us[m] = all[m]
  BY <1>0, <1>5, <1>6 DEF us
<1>9. ASSUME NEW m \in n .. Len(all) PROVE us[m + 1] = all[m]
  <2> DEFINE y == m - n + 1
  <2>1. m \in Nat /\ n <= m /\ m <= Len(all)
    BY <1>0
  <2>2. y \in Nat /\ 1 <= y /\ y <= Len(all) - n + 1 /\ n + y = m + 1 /\ n + y - 1 = m
    BY <1>0, <2>1
  <2> HIDE DEF y
  <2>3. y \in 1 .. Len(b) /\ y \in 1 .. (Len(all) - n + 1) /\ Len(c) + y = m + 1
    BY <1>0, <1>3, <1>5, <2>2
  <2>4. us[Len(c) + y] = b[y]
    BY <1>6, <2>3 DEF us
  <2>5. b[y] = all[n + y - 1]
    BY <1>3, <2>3
  <2> QED
    BY <2>2, <2>3, <2>4, <2>5
<1> QED
  BY <1>1, <1>7, <1>8, <1>9 DEF us

(* What the units do to the stacks, where nothing is inside of a definite  *)
(* tag: its counters are not pushed.                                       *)
LEMMA StackSteps ==
  ASSUME GeneratorFacts, NEW u, GenPrimitive(u) \/ GenEoc(u) \/ GenConstructed(u),
         pc' # "failed", u.indefinite \/ u.length = 0 \/ u.shape = "primitive",
         u.eoc => u.shape = "primitive"
  PROVE  /\ lengthStack' = lengthStack
         /\ u.eoc => Len(nodeStack') = Len(nodeStack) - 1
         /\ ~u.eoc /\ u.shape = "primitive" => Len(nodeStack') = Len(nodeStack)
         /\ u.shape = "constructed" /\ u.indefinite =>
              Len(nodeStack') = Len(nodeStack) + 1
         /\ u.shape = "constructed" /\ ~u.indefinite =>
              Len(nodeStack') = Len(nodeStack)
<1>1. nodeStack \in Seq(1 .. Len(tree)) /\ Len(nodeStack) \in Nat
  BY DEF GeneratorFacts, TreeFacts, Formed, OnPath
<1>2. "primitive" # "constructed"
  OBVIOUS
<1>3. CASE GenPrimitive(u)
  <2>1. /\ u.shape = "primitive" /\ ~u.eoc /\ lengthStack' = lengthStack
        /\ nodeStack' = nodeStack
    BY <1>3, ZenonT(30) DEF GenPrimitive, Throw
  <2> QED
    BY <1>2, <2>1
<1>4. CASE GenEoc(u)
  <2>1. /\ u.eoc /\ lengthStack' = lengthStack /\ nodeStack # << >>
        /\ nodeStack' = Front(nodeStack) /\ Next(u)
    BY <1>4, ZenonT(30) DEF GenEoc, PopNode, Throw
  <2>2. Len(nodeStack') = Len(nodeStack) - 1
    BY <1>1, <2>1, FrontIs
  <2>3. u.shape = "primitive"
    BY <2>1
  <2> QED
    BY <1>2, <2>1, <2>2, <2>3
<1>5. CASE GenConstructed(u)
  <2>1. /\ u.shape = "constructed"
        /\ lengthStack' = IF ~u.indefinite /\ u.length > 0
                          THEN Append(lengthStack, u.length) ELSE lengthStack
        /\ nodeStack' = IF HasInside(u) THEN Append(nodeStack, Len(tree) + 1)
                                        ELSE nodeStack
        /\ Next(u)
    BY <1>5, ZenonT(30) DEF GenConstructed, Throw
  <2>2. u.length = 0 \/ u.indefinite
    BY <1>2, <2>1
  <2>3. u.length \in Nat
    BY <2>1, NextFacts, EncodedParts
  <2>4. ~(~u.indefinite /\ u.length > 0)
    BY <2>2
  <2>5. HasInside(u) <=> u.indefinite
    BY <2>2 DEF HasInside
  <2>6. Len(Append(nodeStack, Len(tree) + 1)) = Len(nodeStack) + 1
    BY <1>1
  <2> QED
    BY <1>2, <2>1, <2>4, <2>5, <2>6
<1> QED
  BY <1>3, <1>4, <1>5

(* The walk of all units but the one too many, which is at position n: the *)
(* stack of the generator is shorter by it than that of the walk.  No      *)
(* definite tag is open.                                                   *)
Behind(n) == IF read < n THEN 0 ELSE 1

Straying(f, n, i, b, o) ==
  /\ Place(f, i, b, o, << >>)
  /\ SubSeq(Units(f), 1, read - Behind(n)) = Walked(f, i, b)
  /\ Len(nodeStack) = Len(o) - Behind(n)
  /\ Len(lengthStack) = 1

(* Nothing is left to close where no definite tag is open. *)
LEMMA NoneOpen ==
  ASSUME NEW f \in AllForests, NEW i, NEW b, NEW o, Place(f, i, b, o, << >>)
  PROVE  /\ Settled(f, i, o) /\ i \in Nat /\ WalkAt(f, i, b, o) /\ o \in Seq(Nat)
         /\ Len(o) \in Nat
<1>1. Settled(f, i, o)
  BY PlaceEnds
<1>2. i \in Nat /\ WalkAt(f, i, b, o) /\ o \in Seq(Nat)
  BY PlaceTyped
<1> QED
  BY <1>1, <1>2

(* Unit u of the walk, the one behind m others, and the place behind it:   *)
(* it is inside of a node more, or of one less, or of as many.             *)
WalksOn(f, o, m, u) ==
  \E j, c, p :
    /\ Place(f, j, c, p, << >>) /\ SubSeq(Units(f), 1, m + 1) = Walked(f, j, c)
    /\ u.indefinite \/ u.length = 0 \/ u.shape = "primitive"
    /\ u.eoc => u.shape = "primitive" /\ Len(p) = Len(o) - 1
    /\ ~u.eoc /\ u.shape = "primitive" => Len(p) = Len(o)
    /\ u.shape = "constructed" /\ u.indefinite => Len(p) = Len(o) + 1
    /\ u.shape = "constructed" /\ ~u.indefinite => Len(p) = Len(o)

LEMMA StrayWalks ==
  ASSUME NEW f \in AllForests, NothingInside(f), NEW i, NEW b, NEW o,
         Place(f, i, b, o, << >>), NEW m \in Nat, m < Len(Units(f)),
         SubSeq(Units(f), 1, m) = Walked(f, i, b), NEW u, u = Units(f)[m + 1]
  PROVE  WalksOn(f, o, m, u)
<1> DEFINE all == Units(f)
           k == i + 1
<1>1. /\ Settled(f, i, o) /\ i \in Nat /\ WalkAt(f, i, b, o) /\ o \in Seq(Nat)
      /\ Len(o) \in Nat /\ k \in Nat /\ i + 2 = k + 1
  BY NoneOpen
<1>2. all \in Seq(EncodedUnit)
  BY UnitsTyped
<1>3. IsPrefix(all, all)
  BY <1>2, PrefixIs
<1>4. \/ /\ NoneEnds(f, i, o) /\ i < Len(f) /\ u = HeadOf(f, k)
         /\ SubSeq(all, 1, m + 1) = Walked(f, k, k + 1)
      \/ /\ ~NoneEnds(f, i, o) /\ f[Last(o)].form = "indefinite"
         /\ u = Eoc /\ SubSeq(all, 1, m + 1) = Walked(f, i, Last(o))
  <2>1. \/ /\ NoneEnds(f, i, o) /\ i < Len(f) /\ all[m + 1] = HeadOf(f, i + 1)
           /\ SubSeq(all, 1, m + 1) = Walked(f, i + 1, i + 2)
        \/ /\ ~NoneEnds(f, i, o) /\ f[Last(o)].form = "indefinite"
           /\ all[m + 1] = Eoc /\ SubSeq(all, 1, m + 1) = Walked(f, i, Last(o))
    <3>1. /\ all \in Seq(EncodedUnit) /\ IsPrefix(all, Units(f)) /\ m < Len(all)
          /\ SubSeq(all, 1, m) = Walked(f, i, b) /\ Settled(f, i, o)
      BY <1>1, <1>2, <1>3
    <3> DEFINE d == << >>
    <3>2. Place(f, i, b, o, d)
      OBVIOUS
    <3> HIDE DEF all, d
    <3> QED
      BY <3>1, <3>2, ReadNext
  <2> QED
    BY <1>1, <2>1
<1>5. "primitive" # "constructed" /\ Eoc \in EncodedUnit
  BY EocTyped
<1>6. CASE ~NoneEnds(f, i, o) /\ f[Last(o)].form = "indefinite" /\ u = Eoc
  <2>1. o # << >> /\ Place(f, i, Last(o), Front(o), << >>)
    BY <1>6, PlaceCloses
  <2>2. Len(Front(o)) = Len(o) - 1
    BY <1>1, <2>1, FrontIs
  <2>3. SubSeq(all, 1, m + 1) = Walked(f, i, Last(o))
    BY <1>4, <1>6
  <2>4. u.shape = "primitive" /\ u.eoc
    BY <1>6, EocParts
  <2> QED
    BY <1>5, <2>1, <2>2, <2>3, <2>4 DEF WalksOn
<1>7. CASE NoneEnds(f, i, o) /\ i < Len(f) /\ u = HeadOf(f, k)
  <2>1. /\ k \in 1 .. Len(f)
        /\ f[k].form = "primitive" => Place(f, k, k + 1, o, << >>)
        /\ f[k].form = "indefinite" => Place(f, k, k + 1, Append(o, k), << >>)
        /\ f[k].form = "definite" =>
             Place(f, k, k + 1, Append(o, k), Append(<< >>, k))
    BY <1>7, PlaceOpens
  <2>2. SubSeq(all, 1, m + 1) = Walked(f, k, k + 1)
    BY <1>4, <1>7
  <2>3. /\ f[k].form \in {"primitive", "definite", "indefinite"} /\ ~u.eoc
        /\ f[k].form = "primitive" => u.shape = "primitive"
        /\ f[k].form # "primitive" =>
             u.shape = "constructed" /\ (u.indefinite <=> f[k].form = "indefinite")
    BY <1>7, <2>1, HeadIs, HeadParts
  <2>4. Len(Append(o, k)) = Len(o) + 1
    BY <1>1
  <2>5. CASE f[k].form = "primitive"
    BY <1>5, <2>1, <2>2, <2>3, <2>5 DEF WalksOn
  <2>6. CASE f[k].form = "indefinite"
    <3>1. u.indefinite /\ u.shape = "constructed"
      BY <2>3, <2>6
    <3> QED
      BY <1>5, <2>1, <2>2, <2>3, <2>4, <2>6, <3>1 DEF WalksOn
  <2>7. CASE f[k].form = "definite"
    <3>1. Below(f, k) = {}
      BY <2>1, <2>7 DEF NothingInside
    <3>2. u.length = 0 /\ ~u.indefinite /\ u.shape = "constructed"
      BY <1>7, <2>1, <2>3, <2>7, <3>1, EmptyLength
    <3> DEFINE q == Append(o, k)
               e == Append(<< >>, k)
    <3>3. Place(f, k, k + 1, q, e)
      BY <2>1, <2>7
    <3>4. Last(q) = k /\ Front(q) = o /\ Last(e) = k /\ Front(e) = << >>
      <4>1. << >> \in Seq(Nat)
        OBVIOUS
      <4> QED
        BY <1>1, <4>1, PushedOff
    <3> HIDE DEF q, e, k
    <3>5. LastOf(f, k) = k
      <4>1. Cardinality({}) = 0
        BY FS_EmptySet
      <4> QED
        BY <1>1, <3>1, <4>1 DEF LastOf
    <3>6. WalkAt(f, k, k + 1, q)
      BY <3>3, PlaceTyped
    <3>7. q # << >>
      BY <1>1, <2>4 DEF q, k
    <3>8. ~NoneEnds(f, k, q)
      BY <1>1, <3>4, <3>5, <3>7 DEF NoneEnds
    <3>9. Place(f, k, k, o, << >>)
      BY <2>7, <3>3, <3>4, <3>8, PlaceCloses
    <3>10. Walked(f, k, k) = Walked(f, k, k + 1)
      BY <2>7, <3>4, <3>6, <3>8, WalkCloses
    <3> QED
      BY <1>5, <2>2, <2>3, <3>2, <3>9, <3>10 DEF WalksOn
  <2> QED
    BY <2>3, <2>5, <2>6, <2>7
<1> QED
  BY <1>4, <1>6, <1>7

(* A unit is read where one is too many, at position n. *)
LEMMA StrayReads ==
  ASSUME GeneratorFacts, NEW f \in AllForests, NothingInside(f),
         NEW n \in 1 .. Len(Units(f)) + 1, units = InsertAt(Units(f), n, Eoc),
         NEW i, NEW b, NEW o, Straying(f, n, i, b, o),
         NEW u, GenPrimitive(u) \/ GenEoc(u) \/ GenConstructed(u), pc' # "failed"
  PROVE  \E j, c, p : Straying(f, n, j, c, p)'
<1> DEFINE all == Units(f)
           m == read - Behind(n)
           l == Len(nodeStack)
<1>1. Next(u)
  BY Zenon DEF GenPrimitive, GenEoc, GenConstructed
<1>2. read \in Nat /\ read < Len(units) /\ u = units[read + 1] /\ read' = read + 1
  BY <1>1, NextFacts DEF Next
<1>3. /\ all \in Seq(EncodedUnit) /\ Len(all) \in Nat /\ n \in Nat
      /\ n >= 1 /\ n <= Len(all) + 1
  BY UnitsTyped
<1>4. /\ Len(units) = Len(all) + 1 /\ units[n] = Eoc
      /\ \A y \in 1 .. n - 1 : units[y] = all[y]
      /\ \A y \in n .. Len(all) : units[y + 1] = all[y]
  BY <1>3, StrayElements
<1>5. /\ Place(f, i, b, o, << >>) /\ SubSeq(all, 1, m) = Walked(f, i, b)
      /\ l = Len(o) - Behind(n) /\ Len(lengthStack) = 1
  BY DEF Straying
<1>6. Len(o) \in Nat /\ l \in Nat
  BY <1>5, NoneOpen DEF GeneratorFacts, TreeFacts, Formed
<1>7. CASE read + 1 = n
  <2>1. u = Eoc /\ u.eoc /\ u.shape = "primitive"
    BY <1>2, <1>4, <1>7, EocParts
  <2>2. Len(nodeStack') = l - 1 /\ lengthStack' = lengthStack
    BY <2>1, StackSteps
  <2>3. Behind(n) = 0 /\ Behind(n)' = 1
    BY <1>2, <1>3, <1>7 DEF Behind
  <2>4. read' - Behind(n)' = m /\ Len(nodeStack') = Len(o) - Behind(n)'
    BY <1>2, <1>5, <1>6, <2>2, <2>3
  <2>5. Straying(f, n, i, b, o)'
    BY <1>5, <2>2, <2>4 DEF Straying
  <2> QED
    BY <2>5
<1>8. CASE read + 1 # n
  <2>1. Behind(n)' = Behind(n)
    BY <1>2, <1>3, <1>8 DEF Behind
  <2>2. m \in Nat /\ m < Len(all) /\ u = all[m + 1] /\ read' - Behind(n)' = m + 1
    <3>1. CASE read < n
      <4>1. m = read /\ read + 1 \in 1 .. n - 1 /\ m < Len(all)
        BY <1>2, <1>3, <1>8, <3>1 DEF Behind
      <4> QED
        BY <1>2, <1>4, <2>1, <3>1, <4>1 DEF Behind
    <3>2. CASE ~(read < n)
      <4>1. m = read - 1 /\ read \in n .. Len(all) /\ m + 1 = read /\ m \in Nat
        BY <1>2, <1>3, <1>4, <3>2 DEF Behind
      <4>2. m < Len(all)
        BY <1>3, <4>1
      <4>3. read' - Behind(n)' = m + 1
        BY <1>2, <2>1, <3>2, <4>1 DEF Behind
      <4> QED
        BY <1>2, <1>4, <4>1, <4>2, <4>3
    <3> QED
      BY <3>1, <3>2
  <2> HIDE DEF m, l
  <2>3. WalksOn(f, o, m, u)
    <3>1. Place(f, i, b, o, << >>) /\ SubSeq(Units(f), 1, m) = Walked(f, i, b)
      BY <1>5
    <3>2. m \in Nat /\ m < Len(Units(f)) /\ u = Units(f)[m + 1]
      BY <2>2
    <3> QED
      BY <3>1, <3>2, StrayWalks, Zenon
  <2>4. PICK j, c, p :
           /\ Place(f, j, c, p, << >>) /\ SubSeq(Units(f), 1, m + 1) = Walked(f, j, c)
           /\ u.indefinite \/ u.length = 0 \/ u.shape = "primitive"
           /\ u.eoc => u.shape = "primitive" /\ Len(p) = Len(o) - 1
           /\ ~u.eoc /\ u.shape = "primitive" => Len(p) = Len(o)
           /\ u.shape = "constructed" /\ u.indefinite => Len(p) = Len(o) + 1
           /\ u.shape = "constructed" /\ ~u.indefinite => Len(p) = Len(o)
    BY <2>3, Zenon DEF WalksOn
  <2>5. /\ lengthStack' = lengthStack
        /\ u.eoc => Len(nodeStack') = l - 1
        /\ ~u.eoc /\ u.shape = "primitive" => Len(nodeStack') = l
        /\ u.shape = "constructed" /\ u.indefinite => Len(nodeStack') = l + 1
        /\ u.shape = "constructed" /\ ~u.indefinite => Len(nodeStack') = l
    BY <2>4, StackSteps DEF l
  <2>6. u.shape \in {"primitive", "constructed"} /\ Behind(n) \in {0, 1}
    BY <1>1, NextFacts DEF EncodedUnit, Unit, Behind
  <2>7. Len(nodeStack') = Len(p) - Behind(n)
    BY <1>5, <1>6, <2>4, <2>5, <2>6
  <2>8. Straying(f, n, j, c, p)'
    BY <1>5, <2>1, <2>2, <2>4, <2>5, <2>7 DEF Straying
  <2> QED
    BY <2>8
<1> QED
  BY <1>7, <1>8

(* With an end-of-content unit too many and nothing inside of definite     *)
(* tags, no tree is built from all of the input: one element too many has  *)
(* ended, and the last end-of-content unit finds none.                     *)
Strays(f, n) ==
  units = InsertAt(Units(f), n, Eoc) /\ NothingInside(f) =>
    /\ pc \in {"read", "close"} => \E i, b, o : Straying(f, n, i, b, o)
    /\ pc = "built" => args.count > 0 \/ args.first

LEMMA StraysKept ==
  ASSUME GeneratorFacts, NEW f \in AllForests, NEW n \in 1 .. Len(Units(f)) + 1,
         Strays(f, n), GeneratorNext
  PROVE  Strays(f, n)'
<1>1. units' = units /\ args' = args /\ pc \in {"read", "close"}
  BY DEF GeneratorNext, GenPrimitive, GenEoc, GenConstructed, Next, CloseDefinite,
         EndOfLoop, CountReached, EndOfInput, input
<1> SUFFICES ASSUME units = InsertAt(Units(f), n, Eoc), NothingInside(f)
             PROVE  /\ pc' \in {"read", "close"} => \E i, b, o : Straying(f, n, i, b, o)'
                    /\ pc' = "built" => args.count > 0 \/ args.first
  BY <1>1 DEF Strays
<1>2. PICK i, b, o : Straying(f, n, i, b, o)
  BY <1>1 DEF Strays
<1>3. CASE pc' = "failed"
  BY <1>3
<1>4. ASSUME NEW u, GenPrimitive(u) \/ GenEoc(u) \/ GenConstructed(u), pc' # "failed"
      PROVE  pc' = "close" /\ \E j, c, p : Straying(f, n, j, c, p)'
  <2>1. pc' = "close"
    BY <1>4, ZenonT(30) DEF GenPrimitive, GenEoc, GenConstructed, PopNode, Throw
  <2> QED
    BY <1>2, <1>4, <2>1, StrayReads
<1>5. ~CloseDefinite
  <2> SUFFICES ASSUME CloseDefinite PROVE FALSE
    OBVIOUS
  <2>1. Len(lengthStack) > 1
    BY NotTheRoot DEF CloseDefinite, GeneratorFacts
  <2> QED
    BY <1>2, <2>1 DEF Straying
<1>6. CASE EndOfLoop
  <2>1. /\ UNCHANGED <<read, nodeStack, lengthStack>>
        /\ (pc' = "built" /\ args.first) \/ pc' = "read"
    BY <1>6 DEF EndOfLoop, counters
  <2>2. Straying(f, n, i, b, o)'
    BY <1>2, <2>1 DEF Straying, Behind
  <2> QED
    BY <2>1, <2>2
<1>7. CASE CountReached
  BY <1>7 DEF CountReached
<1>8. ~EndOfInput
  <2> SUFFICES ASSUME EndOfInput PROVE FALSE
    OBVIOUS
  <2> DEFINE all == Units(f)
  <2>1. all \in Seq(EncodedUnit) /\ Len(all) \in Nat /\ n \in Nat /\ n <= Len(all) + 1
    BY UnitsTyped
  <2>2. Len(units) = Len(all) + 1 /\ read = Len(units)
    BY <2>1, StrayElements DEF EndOfInput
  <2>3. Behind(n) = 1 /\ read - Behind(n) = Len(all)
    BY <2>1, <2>2 DEF Behind
  <2>4. /\ Place(f, i, b, o, << >>) /\ SubSeq(all, 1, Len(all)) = Walked(f, i, b)
        /\ Len(nodeStack) = Len(o) - 1
    BY <1>2, <2>3 DEF Straying
  <2>5. SubSeq(all, 1, Len(all)) = all
    BY <2>1
  <2>6. o = << >>
    BY <2>4, <2>5, NoneOpen, AllRead
  <2>7. Len(nodeStack) \in Nat
    BY DEF GeneratorFacts, TreeFacts, Formed
  <2> QED
    BY <2>4, <2>6, <2>7
<1> QED
  BY <1>3, <1>4, <1>5, <1>6, <1>7, <1>8, Zenon DEF GeneratorNext

(* Nothing is read yet. *)
LEMMA StraysInit ==
  ASSUME Init, NEW f \in AllForests, NEW n \in 1 .. Len(Units(f)) + 1
  PROVE  Strays(f, n)
<1>1. read = 0 /\ pc = "read" /\ lengthStack = <<0>> /\ nodeStack = << >>
  BY DEF Init, GeneratorInit
<1>2. Place(f, 0, 1, << >>, << >>) /\ Walked(f, 0, 1) = << >>
  BY PlaceBegins
<1>3. /\ Units(f) \in Seq(EncodedUnit) /\ n \in Nat /\ n >= 1
  BY UnitsTyped
<1>4. SubSeq(Units(f), 1, 0) = << >>
  BY <1>3
<1>5. Behind(n) = 0
  BY <1>1, <1>3 DEF Behind
<1>6. Straying(f, n, 0, 1, << >>)
  <2> DEFINE none == << >>
  <2>1. Len(none) = 0 /\ Len(lengthStack) = 1 /\ Len(nodeStack) = 0
    BY <1>1
  <2>2. read - Behind(n) = 0 /\ Len(nodeStack) = Len(none) - Behind(n)
    BY <1>1, <1>5, <2>1
  <2>3. /\ SubSeq(Units(f), 1, read - Behind(n)) = Walked(f, 0, 1)
        /\ Place(f, 0, 1, none, << >>)
    BY <1>2, <1>4, <2>2
  <2> HIDE DEF none
  <2>4. Straying(f, n, 0, 1, none)
    BY <2>1, <2>2, <2>3 DEF Straying
  <2> QED
    BY <2>4 DEF none
<1> QED
  BY <1>1, <1>6 DEF Strays

(***************************************************************************)
(* The tree that is built                                                  *)
(***************************************************************************)
(* What holds of each forest that the input may encode *)
Reads(f) ==
  /\ IsPrefix(units, Units(f)) => Shows(f)
  /\ \A n \in 1 .. Len(Units(f)) + 1 : Strays(f, n)

BuildFacts ==
  /\ forest \in AllForests /\ units \in Inputs(forest)
  /\ LimitFacts
  /\ \A f \in AllForests : Reads(f)

(* The generator takes a step. *)
LEMMA BuildKeeps ==
  ASSUME GeneratorFacts, BuildFacts, GeneratorNext
  PROVE  BuildFacts'
<1>1. forest' = forest /\ units' = units
  BY DEF GeneratorNext, GenPrimitive, GenEoc, GenConstructed, Next, CloseDefinite,
         EndOfLoop, CountReached, EndOfInput, input
<1>2. /\ forest \in AllForests /\ units \in Inputs(forest) /\ LimitFacts
      /\ \A f \in AllForests : Reads(f)
  BY Zenon DEF BuildFacts
<1>3. LimitFacts'
  BY <1>2, LimitsKeep
<1>4. ASSUME NEW f \in AllForests, IsPrefix(units, Units(f)), Shows(f)
      PROVE  Shows(f)'
  <2>1. CASE \/ \E u : GenPrimitive(u) \/ GenEoc(u) \/ GenConstructed(u)
             \/ CloseDefinite
    BY <1>4, <2>1, ShowsMore
  <2>2. CASE EndOfLoop \/ CountReached \/ EndOfInput
    BY <1>4, <2>2, ShowsEnd
  <2> QED
    BY <2>1, <2>2, Zenon DEF GeneratorNext
<1>5. ASSUME NEW f \in AllForests, NEW n \in 1 .. Len(Units(f)) + 1, Strays(f, n)
      PROVE  Strays(f, n)'
  BY <1>5, StraysKept
<1>6. ASSUME NEW f \in AllForests PROVE Reads(f)'
  <2>1. Reads(f)
    BY <1>2
  <2>2. IsPrefix(units, Units(f)) => Shows(f)'
    BY <1>4, <2>1 DEF Reads
  <2>3. \A n \in 1 .. Len(Units(f)) + 1 : Strays(f, n)'
    BY <1>5, <2>1 DEF Reads
  <2> QED
    BY <1>1, <2>2, <2>3, Zenon DEF Reads
<1> QED
  BY <1>1, <1>2, <1>3, <1>6, Zenon DEF BuildFacts

(* What is built stays while it is written. *)
LEMMA BuiltStays ==
  ASSUME BuildFacts, UNCHANGED <<tree, generatorVars>>,
         pc' = pc \/ pc' \notin {"read", "close", "built"}
  PROVE  BuildFacts'
<1>1. /\ forest' = forest /\ units' = units /\ args' = args /\ read' = read
      /\ nth' = nth /\ nodeStack' = nodeStack /\ tree' = tree
      /\ lengthStack' = lengthStack /\ writtenStack' = writtenStack
  BY DEF generatorVars, input, counters
<1>2. /\ forest \in AllForests /\ units \in Inputs(forest) /\ LimitFacts
      /\ \A f \in AllForests : Reads(f)
  BY Zenon DEF BuildFacts
<1>3. LimitFacts'
  BY <1>1, <1>2 DEF LimitFacts
<1>4. ASSUME NEW f \in AllForests PROVE Reads(f)'
  <2>1. /\ IsPrefix(units, Units(f)) => Shows(f)
        /\ \A n \in 1 .. Len(Units(f)) + 1 : Strays(f, n)
    BY <1>2, Zenon DEF Reads
  <2>2. ASSUME NEW g, NEW v PROVE ElementOf(v)' = ElementOf(v)
    BY <1>1 DEF ElementOf
  <2>3. ASSUME NEW i, NEW b, NEW o, NEW d, Building(f, i, b, o, d)
        PROVE  Building(f, i, b, o, d)'
    BY <1>1, <2>3, ZenonT(60) DEF Building, ElementOf
  <2>4. Shows(f) => Shows(f)'
    BY <1>1, <2>3, <2>2 DEF Shows
  <2>5. ASSUME NEW n \in 1 .. Len(Units(f)) + 1, Strays(f, n)
        PROVE  Strays(f, n)'
    <3>1. \A i, b, o : Straying(f, n, i, b, o)' <=> Straying(f, n, i, b, o)
      BY <1>1 DEF Straying, Behind
    <3> QED
      BY <1>1, <2>5, <3>1 DEF Strays
  <2> QED
    BY <1>1, <2>1, <2>4, <2>5, Zenon DEF Reads
<1> QED
  BY <1>1, <1>2, <1>3, <1>4, Zenon DEF BuildFacts

(* Nothing is read yet. *)
LEMMA BuildInit ==
  ASSUME Init
  PROVE  BuildFacts
<1>1. forest \in AllForests /\ units \in Inputs(forest)
  BY InputForest DEF Init, GeneratorInit
<1>2. ASSUME NEW f \in AllForests PROVE Reads(f) /\ LimitFacts
  BY <1>2, ShowsInit, StraysInit DEF Reads
<1> QED
  BY <1>1, <1>2 DEF BuildFacts

(* An input is the beginning of the encoding, or it has an end-of-content  *)
(* unit too many.                                                          *)
LEMMA InputCases ==
  ASSUME NEW f \in AllForests, NEW us \in Inputs(f)
  PROVE  \/ /\ IsPrefix(us, Units(f))
            /\ \E n \in 0 .. Len(Units(f)) : us = SubSeq(Units(f), 1, n)
         \/ \E n \in 1 .. Len(Units(f)) + 1 : us = InsertAt(Units(f), n, Eoc)
<1> DEFINE all == Units(f)
<1>1. all \in Seq(EncodedUnit) /\ Len(all) \in Nat
  BY UnitsTyped
<1>2. \/ us \in {SubSeq(all, 1, n) : n \in 0 .. Len(all)}
      \/ us \in {InsertAt(all, n, Eoc) : n \in 1 .. Len(all) + 1}
  BY Zenon DEF Inputs
<1> HIDE DEF all
<1>3. CASE us \in {SubSeq(all, 1, n) : n \in 0 .. Len(all)}
  <2>1. PICK n \in 0 .. Len(all) : us = SubSeq(all, 1, n)
    BY <1>3
  <2>2. n \in Nat /\ n <= Len(all)
    BY <1>1
  <2>3. IsPrefix(us, all)
    BY <1>1, <2>1, <2>2, FirstPart
  <2> QED
    BY <2>1, <2>3 DEF all
<1>4. CASE us \in {InsertAt(all, n, Eoc) : n \in 1 .. Len(all) + 1}
  BY <1>4 DEF all
<1> QED
  BY <1>2, <1>3, <1>4

(* The elements of a tree that shows the nodes of a forest are the first    *)
(* ones of those for all nodes.                                            *)
LEMMA ElementsOfAll ==
  ASSUME NEW f \in AllForests, NEW t \in Seq(Element), Len(t) <= Len(f),
         \A j \in 1 .. Len(t) : t[j] = ElementOf(f[j]), args.indefinite \in BOOLEAN
  PROVE  LET all == [i \in 1 .. Len(f) |-> ElementOf(f[i])]
         IN  IsPrefix(t, all) /\ (Len(t) = Len(f) => t = all)
<1> DEFINE all == [i \in 1 .. Len(f) |-> ElementOf(f[i])]
           v(i) == ElementOf(f[i])
<1>1. Len(f) \in Nat
  BY NodesTyped
<1>2. ASSUME NEW i \in 1 .. Len(f) PROVE ElementOf(f[i]) \in Element
  <2>1. f[i].depth \in Nat /\ f[i].length \in Nat
    BY NodesTyped, ForestTyped
  <2>2. (IF f[i].form = "primitive" THEN "primitive" ELSE "constructed")
          \in {"primitive", "constructed"}
    OBVIOUS
  <2>3. (args.indefinite /\ f[i].form = "indefinite") \in BOOLEAN
    OBVIOUS
  <2> QED
    BY <2>1, <2>2, <2>3 DEF ElementOf, Element
<1>3. all \in Seq(Element) /\ Len(all) = Len(f) /\ \A j \in 1 .. Len(f) : all[j] = v(j)
  BY <1>1, <1>2
<1> HIDE DEF all
<1>4. \A j \in 1 .. Len(t) : t[j] = all[j]
  BY <1>1, <1>3
<1>5. IsPrefix(t, all)
  BY <1>3, <1>4, PrefixIs
<1>6. Len(t) = Len(f) => t = all
  BY <1>3, <1>4, SameElements
<1> QED
  BY <1>5, <1>6 DEF all

(* The tree that is built is that of the input. *)
LEMMA BuiltTrue ==
  ASSUME GeneratorFacts, BuildFacts
  PROVE  TreeTrue
<1>1. /\ forest \in AllForests /\ units \in Inputs(forest) /\ LimitFacts
      /\ IsPrefix(units, Units(forest)) => Shows(forest)
      /\ \A n \in 1 .. Len(Units(forest)) + 1 : Strays(forest, n)
  BY DEF BuildFacts, Reads
<1>2. ASSUME pc = "built", ~HasStray PROVE ShowsInput
  <2> DEFINE all == [i \in 1 .. Len(forest) |-> ElementOf(forest[i])]
  <2>1. /\ Len(tree) <= Len(forest)
        /\ \A j \in 1 .. Len(tree) : tree[j] = ElementOf(forest[j])
        /\ units = Units(forest) /\ args.count = 0 /\ ~args.first =>
             Len(tree) = Len(forest)
    <3>1. IsPrefix(units, Units(forest))
      <4>1. PICK n \in 0 .. Len(Units(forest)) : units = SubSeq(Units(forest), 1, n)
        BY <1>2 DEF HasStray
      <4>2. Units(forest) \in Seq(EncodedUnit) /\ n \in Nat /\ n <= Len(Units(forest))
        BY <1>1, UnitsTyped
      <4> QED
        BY <4>1, <4>2, FirstPart
    <3> QED
      BY <1>1, <1>2, <3>1 DEF Shows
  <2>2. args.indefinite \in BOOLEAN /\ tree \in Seq(Element)
    BY DEF GeneratorFacts, InputFacts, TreeFacts, Formed
  <2>3. IsPrefix(tree, all) /\ (Len(tree) = Len(forest) => tree = all)
    BY <1>1, <2>1, <2>2, ElementsOfAll
  <2>4. args.count > 0 => Len(tree) <= args.count
    BY <1>1, <1>2 DEF LimitFacts
  <2> QED
    BY <2>1, <2>3, <2>4, Zenon DEF ShowsInput
<1>3. ASSUME pc = "built", HasStray, ~(args.count > 0 \/ args.first)
      PROVE  \E i \in 1 .. Len(forest) :
               forest[i].form = "definite" /\ Below(forest, i) # {}
  <2>1. PICK n \in 1 .. Len(Units(forest)) + 1 : units = InsertAt(Units(forest), n, Eoc)
    BY <1>1, <1>3, InputCases DEF HasStray
  <2>2. ~NothingInside(forest)
    BY <1>1, <1>3, <2>1 DEF Strays
  <2> QED
    BY <2>2 DEF NothingInside
<1> QED
  BY <1>2, <1>3 DEF TreeTrue

(* Whatever the input is, the tree that Tree_Generator builds shows it: it  *)
(* has an element for each tag that was read, at the depth of the tag, with *)
(* the content of a primitive one, and for all of them if the input is      *)
(* complete and there are no limits; a limit is kept.  The two stacks of    *)
(* counters find the ends of definite tags, and node_stack_ is the tags     *)
(* that the input is inside of.  An end-of-content unit too many is never   *)
(* passed over where no definite tag has anything inside: pop() throws for  *)
(* the last of them, if not before (ber2lxml.cc:86-251).                    *)
THEOREM TreesShown == Spec => []TreeTrue
<1> DEFINE I == Facts /\ BuildFacts
<1>1. Init => I
  BY InitFacts, BuildInit
<1>2. I /\ [Step \/ (Ended /\ UNCHANGED vars)]_vars => I'
  <2> SUFFICES ASSUME I, [Step \/ (Ended /\ UNCHANGED vars)]_vars PROVE I'
    OBVIOUS
  <2>1. CASE GeneratorNext /\ UNCHANGED writerVars
    BY <2>1, GeneratorKeeps, BuildKeeps DEF Facts
  <2>2. CASE WriterNext /\ UNCHANGED generatorVars
    <3>1. Facts' /\ tree' = tree /\ pc' \in {"write", "failed", "done"}
      BY <2>2, WriterKeeps
    <3> QED
      BY <2>2, <3>1, BuiltStays
  <2>3. CASE UNCHANGED vars
    <3>1. Facts'
      BY <2>3 DEF vars, generatorVars, writerVars, input, counters, Facts,
                  GeneratorFacts, InputFacts, CounterFacts, TreeFacts, WriterFacts
    <3>2. UNCHANGED <<tree, generatorVars>> /\ pc' = pc
      BY <2>3 DEF vars
    <3> QED
      BY <3>1, <3>2, BuiltStays
  <2> QED
    BY <2>1, <2>2, <2>3 DEF Step
<1>3. I => TreeTrue
  BY BuiltTrue DEF Facts
<1> QED
  BY <1>1, <1>2, <1>3, PTL DEF Spec

(***************************************************************************)
(* What is written                                                         *)
(***************************************************************************)
(* Units whose tag is primitive are not of indefinite length, ...          *)
PlainUnit == {u \in EncodedUnit : u.shape = "primitive" => ~u.indefinite}

(* ... and so are elements; only primitive ones have a text.               *)
PlainElement ==
  {e \in Element : /\ e.shape = "primitive" => ~e.indefinite
                   /\ e.shape # "primitive" => e.text = 0}

LEMMA UnitsPlain ==
  ASSUME NEW f \in AllForests
  PROVE  Units(f) \in Seq(PlainUnit)
<1> DEFINE T == PlainUnit
           g == NodeUnits(f)
<1>1. Len(f) \in Nat /\ f \in Seq(AnyNode)
  BY NodesTyped
<1>2. Eoc \in T
  BY EocTyped DEF PlainUnit, Eoc
<1>3. ASSUME NEW i \in 1 .. Len(f) PROVE HeadOf(f, i) \in T
  <2>1. /\ HeadOf(f, i) \in EncodedUnit
        /\ f[i].form = "primitive" =>
             HeadOf(f, i).shape = "primitive" /\ ~(HeadOf(f, i).indefinite)
        /\ f[i].form # "primitive" => HeadOf(f, i).shape = "constructed"
    <3>1. /\ HeadOf(f, i) \in EncodedUnit
          /\ f[i].form # "primitive" => HeadOf(f, i).shape = "constructed"
          /\ f[i].form = "primitive" => HeadOf(f, i).shape = "primitive"
      BY HeadParts
    <3>2. f[i].form = "primitive" => HeadOf(f, i).indefinite = No
      BY HeadIs DEF Record, No, Yes
    <3>3. f[i].form = "primitive" => ~(HeadOf(f, i).indefinite)
      BY <3>2 DEF No
    <3> QED
      BY <3>1, <3>3
  <2> QED
    BY <2>1 DEF PlainUnit
<1>4. ASSUME NEW i \in 1 .. Len(f) PROVE EocsOf(f, i, 1) \in Seq(T)
  <2>1. Cardinality(Ends(f, i, 1)) \in Nat
    BY <1>1, EndsFinite
  <2> HIDE DEF T
  <2> QED
    BY <1>2, <2>1 DEF EocsOf
<1> HIDE DEF T
<1>5. ASSUME NEW i \in 1 .. Len(f) PROVE <<HeadOf(f, i)>> \o EocsOf(f, i, 1) \in Seq(T)
  BY <1>3, <1>4
<1>6. g \in Seq(Seq(T))
  BY <1>1, <1>5 DEF NodeUnits
<1>7. Units(f) = FlattenSeq(g)
  BY Zenon DEF Units, NodeUnits, HeadOf, EocsOf, Eocs, Ends
<1> QED
  BY <1>6, <1>7, FlattenTyped DEF T

(* The elements are plain, as the units are. *)
PlainFacts == units \in Seq(PlainUnit) /\ tree \in Seq(PlainElement)

LEMMA PlainInit ==
  ASSUME Init
  PROVE  PlainFacts
<1>1. forest \in AllForests /\ units \in Inputs(forest) /\ tree = << >>
  BY InputForest DEF Init, GeneratorInit
<1> DEFINE all == Units(forest)
<1>2. all \in Seq(PlainUnit) /\ Eoc \in PlainUnit
  BY <1>1, UnitsPlain, EocTyped DEF PlainUnit, Eoc
<1>3. all \in Seq(EncodedUnit) /\ Len(all) \in Nat
  BY <1>1, UnitsTyped
<1>4. \/ \E n \in 0 .. Len(all) : units = SubSeq(all, 1, n)
      \/ \E n \in 1 .. Len(all) + 1 : units = InsertAt(all, n, Eoc)
  BY <1>1, InputCases
<1> HIDE DEF all
<1>5. units \in Seq(PlainUnit)
  <2>1. CASE \E n \in 0 .. Len(all) : units = SubSeq(all, 1, n)
    BY <1>2, <1>3, <2>1
  <2>2. CASE \E n \in 1 .. Len(all) + 1 : units = InsertAt(all, n, Eoc)
    <3>1. PICK n \in 1 .. Len(all) + 1 : units = InsertAt(all, n, Eoc)
      BY <2>2
    <3>2. /\ units \in Seq(EncodedUnit) /\ Len(units) = Len(all) + 1 /\ units[n] = Eoc
          /\ \A m \in 1 .. n - 1 : units[m] = all[m]
          /\ \A m \in n .. Len(all) : units[m + 1] = all[m]
      BY <1>3, <3>1, StrayElements
    <3>3. ASSUME NEW m \in 1 .. Len(units) PROVE units[m] \in PlainUnit
      <4>1. CASE m = n
        BY <1>2, <3>2, <4>1
      <4>2. CASE m < n
        <5>1. m \in 1 .. n - 1 /\ m \in 1 .. Len(all)
          BY <1>3, <3>2, <4>2
        <5> QED
          BY <1>2, <3>2, <5>1
      <4>3. CASE m > n
        <5>1. m - 1 \in n .. Len(all) /\ m - 1 \in 1 .. Len(all) /\ (m - 1) + 1 = m
          BY <1>3, <3>2, <4>3
        <5>2. units[m] = all[m - 1]
          BY <3>2, <5>1
        <5> QED
          BY <1>2, <5>1, <5>2
      <4> QED
        BY <3>2, <4>1, <4>2, <4>3
    <3> QED
      BY <3>2, <3>3
  <2> QED
    BY <1>4, <2>1, <2>2
<1> QED
  BY <1>1, <1>5 DEF PlainFacts

LEMMA PlainKept ==
  ASSUME GeneratorFacts, PlainFacts, GeneratorNext
  PROVE  PlainFacts'
<1>1. units' = units
  BY DEF GeneratorNext, GenPrimitive, GenEoc, GenConstructed, Next, CloseDefinite,
         EndOfLoop, CountReached, EndOfInput, input
<1>2. ASSUME NEW u, Next(u), AddElement(u) PROVE tree' \in Seq(PlainElement)
  <2>1. u \in EncodedUnit
    BY <1>2, NextFacts
  <2>2. u \in PlainUnit
    <3>1. Len(units) \in Nat /\ read \in 0 .. Len(units) /\ read < Len(units)
          /\ u = units[read + 1]
      BY <1>2 DEF GeneratorFacts, InputFacts, CounterFacts, Next
    <3>2. read + 1 \in 1 .. Len(units)
      BY <3>1
    <3> QED
      BY <3>1, <3>2 DEF PlainFacts
  <2>3. tree' = Append(tree, ElementFor(u))
    BY <1>2, Zenon DEF AddElement, ElementFor
  <2>4. ElementFor(u) \in Element /\ ElementFor(u).shape = u.shape
    BY <2>1, ElementTyped
  <2>5. /\ ElementFor(u).indefinite = (args.indefinite /\ u.indefinite)
        /\ ElementFor(u).text = IF u.shape = "primitive" THEN u.length ELSE 0
    BY DEF ElementFor
  <2>6. ElementFor(u) \in PlainElement
    <3>1. u.shape = "primitive" => ~u.indefinite
      BY <2>2 DEF PlainUnit
    <3>2. u.shape = "primitive" => ~(ElementFor(u).indefinite)
      BY <2>5, <3>1, Zenon
    <3> QED
      BY <2>4, <2>5, <3>2 DEF PlainElement
  <2> QED
    BY <2>3, <2>6 DEF PlainFacts
<1>3. tree' = tree \/ \E u : Next(u) /\ AddElement(u)
  BY Zenon DEF GeneratorNext, GenPrimitive, GenEoc, GenConstructed, CloseDefinite,
         PopNode, Throw, EndOfLoop, CountReached, EndOfInput
<1> QED
  BY <1>1, <1>2, <1>3 DEF PlainFacts

(* The tree is a forest, with the places of the tree. *)
LEMMA TreeForestIs ==
  ASSUME TreeFacts, PlainFacts
  PROVE  LET g == TreeForest
         IN  /\ g \in AllForests /\ Len(g) = Len(tree)
             /\ \A i \in 1 .. Len(tree) :
                  /\ g[i].depth = tree[i].depth /\ g[i].extra = 0
                  /\ tree[i].shape = "primitive" =>
                       g[i].form = "primitive" /\ g[i].length = tree[i].text
                  /\ tree[i].shape # "primitive" =>
                       g[i].form = IF tree[i].indefinite THEN "indefinite" ELSE "definite"
                  /\ LastOf(g, i) = LastOf(tree, i) /\ Below(g, i) = Below(tree, i)
<1> DEFINE g == TreeForest
           N == Len(tree)
           form(e) == IF e.shape = "primitive" THEN "primitive"
                      ELSE IF e.indefinite THEN "indefinite" ELSE "definite"
           node(e) == [depth |-> e.depth, form |-> form(e), extra |-> 0, length |-> e.text]
<1>1. /\ tree \in Seq(PlainElement) /\ N \in Nat /\ Rises(tree)
      /\ \A i \in 1 .. N : tree[i] \in PlainElement /\ tree[i] \in Element
  BY DEF TreeFacts, Formed, PlainFacts, PlainElement
<1>2. g = [i \in 1 .. N |-> node(tree[i])]
  BY Zenon DEF TreeForest
<1>3. ASSUME NEW e \in PlainElement
      PROVE  node(e) \in AnyNode /\ e.depth \in Nat
  <2>1. /\ e.depth \in Nat /\ e.text \in Nat
        /\ e.shape # "primitive" => e.text = 0
    BY ElementParts DEF PlainElement
  <2>2. CASE e.shape = "primitive"
    BY <2>1, <2>2 DEF AnyNode
  <2>3. CASE e.shape # "primitive" /\ e.indefinite
    BY <2>1, <2>3 DEF AnyNode
  <2>4. CASE e.shape # "primitive" /\ ~e.indefinite
    BY <2>1, <2>4 DEF AnyNode
  <2> QED
    BY <2>1, <2>2, <2>3, <2>4
<1>4. \A i \in 1 .. N : /\ g[i].depth = tree[i].depth /\ g[i].extra = 0
                        /\ g[i].form = form(tree[i]) /\ g[i].length = tree[i].text
  BY <1>2
<1>5. g \in Seq(AnyNode) /\ Len(g) = N
  <2> HIDE DEF node
  <2> QED
    BY <1>1, <1>2, <1>3
<1> HIDE DEF g
<1>6. IsForest(g)
  <2> SUFFICES ASSUME NEW i \in 1 .. N
               PROVE  g[i].depth <= IF i = 1 THEN 0
                                    ELSE IF g[i - 1].form = "primitive"
                                         THEN g[i - 1].depth ELSE g[i - 1].depth + 1
    BY <1>5 DEF IsForest
  <2>1. CASE i = 1
    BY <1>1, <1>4, <2>1 DEF Rises
  <2>2. CASE i # 1
    <3>1. i - 1 \in 1 .. N
      BY <1>1, <2>2
    <3>2. tree[i].depth <= tree[i - 1].depth
                             + IF tree[i - 1].shape = "constructed" THEN 1 ELSE 0
      BY <1>1, <2>2 DEF Rises
    <3>3. /\ tree[i - 1].depth \in Nat /\ tree[i].depth \in Nat
          /\ tree[i - 1].shape \in {"primitive", "constructed"}
      BY <1>1, <3>1, ElementParts
    <3>4. g[i - 1].form = "primitive" <=> tree[i - 1].shape = "primitive"
      BY <1>4, <3>1
    <3> QED
      BY <1>4, <2>2, <3>1, <3>2, <3>3, <3>4
  <2> QED
    BY <2>1, <2>2
<1>7. g \in AllForests
  BY <1>5, <1>6 DEF AllForests
<1>8. ASSUME NEW i \in 1 .. N
      PROVE  LastOf(g, i) = LastOf(tree, i) /\ Below(g, i) = Below(tree, i)
  <2>1. \A j \in (i + 1) .. N : \A k \in (i + 1) .. j :
          k \in 1 .. N /\ g[k].depth = tree[k].depth
    BY <1>1, <1>4
  <2>2. Below(g, i) = Below(tree, i)
    BY <1>4, <1>5, <2>1 DEF Below
  <2> QED
    BY <2>2, Zenon DEF LastOf
<1> QED
  BY <1>4, <1>5, <1>7, <1>8, Zenon DEF g

(***************************************************************************)
(* How the tree is written                                                 *)
(***************************************************************************)
(* The header of each node of the tree's forest, as Lxml2Ber makes it      *)
LEMMA ElementHead ==
  ASSUME TreeFacts, PlainFacts, NEW k \in 1 .. Len(tree)
  PROVE  LET g == TreeForest
             e == tree[k]
         IN  /\ k \in 1 .. Len(g) /\ e \in Element
             /\ e.shape = "primitive" =>
                  /\ g[k].form = "primitive"
                  /\ HeadOf(g, k) = [TlvOf(e) EXCEPT !.tl = MinimalTl(e.text),
                                                     !.length = e.text]
             /\ e.shape # "primitive" /\ e.indefinite =>
                  g[k].form = "indefinite" /\ HeadOf(g, k) = TlvOf(e)
             /\ e.shape # "primitive" /\ ~e.indefinite =>
                  /\ g[k].form = "definite"
                  /\ HeadOf(g, k) = HeaderOf(TlvOf(e), Inner(g)[k])
<1> DEFINE g == TreeForest
           e == tree[k]
           t == TlvOf(e)
           m == IF e.indefinite THEN 2 ELSE 0
           n == Inner(g)[k]
<1>1. /\ g \in AllForests /\ k \in 1 .. Len(g) /\ g[k].extra = 0
      /\ e.shape = "primitive" => g[k].form = "primitive" /\ g[k].length = e.text
      /\ e.shape # "primitive" =>
           g[k].form = IF e.indefinite THEN "indefinite" ELSE "definite"
  BY TreeForestIs, Zenon
<1>2. /\ e \in Element /\ e \in PlainElement /\ e.indefinite \in BOOLEAN /\ e.text \in Nat
      /\ e.shape \in {"primitive", "constructed"}
      /\ e.shape = "primitive" => ~e.indefinite
  BY ElementParts DEF PlainFacts, PlainElement
<1>3. /\ t = Record(e.shape, No, e.indefinite, m, 0)
      /\ e.indefinite => m = 2 /\ (~e.indefinite => m = 0)
  BY DEF TlvOf, Record, No
<1>4. n \in Nat /\ MinimalTl(n) \in Nat /\ MinimalTl(e.text) \in Nat /\ MinimalTl(0) = 2
      /\ MinimalTl(n) > 0
  <2>1. n \in Nat
    BY <1>1, InnerTyped
  <2>2. MinimalTl(0) = 2
    BY ForestAssumption DEF MinimalTl
  <2> HIDE DEF n, e
  <2>3. \A l \in Nat : MinimalTl(l) \in Nat /\ MinimalTl(l) > 0
    <3> SUFFICES ASSUME NEW l \in Nat PROVE MinimalTl(l) \in Nat /\ MinimalTl(l) > 0
      OBVIOUS
    <3>1. MinimalTl(l) \in Nat /\ MinimalTl(l) >= 2
      BY MinimalTlNat
    <3> QED
      BY <3>1
  <2> QED
    BY <1>2, <2>1, <2>2, <2>3
<1> HIDE DEF g, e, t, m, n
<1>5. CASE e.shape = "primitive"
  <2>1. e.indefinite = No
    BY <1>2, <1>5 DEF No
  <2>2. t = Record("primitive", No, No, m, 0)
    BY <1>3, <1>5, <2>1
  <2>3. SetTl(t, MinimalTl(e.text)) = Record("primitive", No, No, MinimalTl(e.text), 0)
    BY <2>2, RecordParts
  <2>4. SetLength(SetTl(t, MinimalTl(e.text)), e.text) =
          Record("primitive", No, No, MinimalTl(e.text), e.text)
    BY <2>3, RecordParts
  <2>5. [t EXCEPT !.tl = MinimalTl(e.text), !.length = e.text] =
          SetLength(SetTl(t, MinimalTl(e.text)), e.text)
    BY Zenon DEF SetLength, SetTl
  <2>6. HeadOf(g, k) = Record("primitive", No, No, MinimalTl(g[k].length) + g[k].extra,
                              g[k].length)
    BY <1>1, <1>5, HeadIs
  <2>7. MinimalTl(g[k].length) + g[k].extra = MinimalTl(e.text) /\ g[k].length = e.text
    BY <1>1, <1>4, <1>5
  <2> QED
    BY <1>1, <1>2, <1>5, <2>4, <2>5, <2>6, <2>7 DEF g, e, t
<1>6. CASE e.shape # "primitive" /\ e.indefinite
  <2>1. e.indefinite = Yes /\ e.shape = "constructed"
    BY <1>2, <1>6 DEF Yes
  <2>2. t = Record("constructed", No, Yes, 2, 0)
    BY <1>3, <1>6, <2>1
  <2>3. HeadOf(g, k) = Record("constructed", No, Yes, MinimalTl(0) + g[k].extra, 0)
    BY <1>1, <1>6, HeadIs
  <2>4. MinimalTl(0) + g[k].extra = 2
    BY <1>1, <1>4
  <2> QED
    BY <1>1, <1>2, <1>6, <2>2, <2>3, <2>4 DEF g, e, t
<1>7. CASE e.shape # "primitive" /\ ~e.indefinite
  <2>1. e.indefinite = No /\ e.shape = "constructed"
    BY <1>2, <1>7 DEF No
  <2>2. t = Record("constructed", No, No, 0, 0)
    BY <1>7, <2>1, Zenon DEF t, TlvOf, Record, No
  <2>3. t.tl = 0 /\ SetLength(t, n) = Record("constructed", No, No, 0, n)
    BY <2>2, RecordParts
  <2>4. SetTl(SetLength(t, n), MinimalTl(n)) = Record("constructed", No, No, MinimalTl(n), n)
    BY <2>3, RecordParts
  <2>5. SetLength(t, n).tl = 0
    BY <2>3, RecordParts
  <2>6. HeaderOf(t, n) =
          SetTl(SetLength(t, n), IF t.tl > MinimalTl(n) THEN t.tl ELSE MinimalTl(n))
    BY Zenon DEF HeaderOf, SetTl, SetLength
  <2>7. HeaderOf(t, n) = Record("constructed", No, No, MinimalTl(n), n)
    <3>1. ~(0 > MinimalTl(n))
      BY <1>4
    <3> QED
      BY <2>3, <2>4, <2>6, <3>1
  <2>8. HeadOf(g, k) = Record("constructed", No, No, MinimalTl(n) + g[k].extra, n)
    BY <1>1, <1>7, HeadIs DEF n
  <2>9. MinimalTl(n) + g[k].extra = MinimalTl(n)
    BY <1>1, <1>4
  <2> QED
    BY <1>1, <1>2, <1>7, <2>7, <2>8, <2>9 DEF g, e, t, n
<1> QED
  BY <1>5, <1>6, <1>7

(* The node that a sibling of node k begins with; 0 if there is none *)
After(g, k) ==
  LET n == LastOf(g, k) + 1
  IN  IF n <= Len(g) /\ g[n].depth = g[k].depth THEN n ELSE 0

(* What comes behind node i on the innermost level *)
Coming(g, i, o) == IF i < Len(g) /\ g[i + 1].depth = Len(o) THEN i + 1 ELSE 0

(* Lxml2Ber with elements s to come and writers y has written what a walk  *)
(* through the forest g of the tree t passes.  For each node that the walk *)
(* is inside of, there are its sibling on the stack and an open tag; the   *)
(* next node is on top.                                                    *)
Writing(g, t, i, b, o, d, q, s, y) ==
  /\ Place(g, i, b, o, d) /\ Deep(g, i, o)
  /\ Len(s) = Len(o) + 1
  /\ \A n \in 1 .. Len(o) : s[n] = After(g, o[n])
  /\ s[Len(o) + 1] = Coming(g, i, o)
  /\ Len(y.tlvs) = Len(o)
  /\ \A n \in 1 .. Len(o) : y.tlvs[n] = TlvOf(t[o[n]])
  /\ Held(g, i, b, d, q, y.top, y.writers)

(* If there is a next node, nothing is to be closed in front of it, and if *)
(* there is none, the innermost node ends, or all is written.              *)
LEMMA ComingIs ==
  ASSUME NEW g \in AllForests, NEW i, NEW b, NEW o, WalkAt(g, i, b, o), Deep(g, i, o)
  PROVE  /\ i \in Nat /\ Len(g) \in Nat /\ Len(o) \in Nat /\ o \in Seq(Nat)
         /\ i <= Len(g)
         /\ Coming(g, i, o) # 0 =>
              /\ Coming(g, i, o) = i + 1 /\ i < Len(g) /\ g[i + 1].depth = Len(o)
              /\ NoneEnds(g, i, o)
         /\ Coming(g, i, o) = 0 /\ o # << >> => ~NoneEnds(g, i, o)
         /\ Coming(g, i, o) = 0 /\ o = << >> => i = Len(g)
<1>1. i \in Nat /\ i \in 0 .. Len(g) /\ Len(g) \in Nat /\ o \in Seq(Nat) /\ Len(o) \in Nat
  BY NodesTyped DEF WalkAt, Ascending
<1>2. ASSUME i < Len(g), g[i + 1].depth = Len(o) PROVE NoneEnds(g, i, o)
  <2> SUFFICES ASSUME ~NoneEnds(g, i, o) PROVE FALSE
    OBVIOUS
  <2>1. Deep(g, i, Front(o)) /\ o # << >>
    BY DeepCloses DEF NoneEnds
  <2>2. Len(Front(o)) = Len(o) - 1
    BY <1>1, <2>1, FrontIs
  <2>3. g[i + 1].depth <= Len(Front(o))
    BY <1>2, <2>1 DEF Deep
  <2> QED
    BY <1>1, <1>2, <2>2, <2>3
<1>3. ASSUME NoneEnds(g, i, o), i < Len(g) PROVE Coming(g, i, o) # 0
  <2>1. g[i + 1].depth = Len(o)
    BY <1>3, DeepNext
  <2> QED
    BY <1>1, <1>3, <2>1 DEF Coming
<1>4. NoneEnds(g, i, o) /\ i = Len(g) => o = << >>
  BY WalkRest
<1>5. o = << >> => NoneEnds(g, i, o)
  BY DEF NoneEnds
<1>6. Coming(g, i, o) # 0 => Coming(g, i, o) = i + 1 /\ i < Len(g) /\ g[i + 1].depth = Len(o)
  BY DEF Coming
<1> QED
  BY <1>1, <1>2, <1>3, <1>4, <1>5, <1>6

(* The walk begins in front of the root. *)
LEMMA WritingBegins ==
  ASSUME TreeFacts, PlainFacts
  PROVE  Writing(TreeForest, tree, 0, 1, << >>, << >>, << >>,
                 <<IF tree = << >> THEN 0 ELSE 1>>, NewWriters)
<1> DEFINE g == TreeForest
           r == IF tree = << >> THEN 0 ELSE 1
<1>1. /\ g \in AllForests /\ Len(g) = Len(tree) /\ Len(tree) \in Nat /\ Rises(tree)
      /\ \A i \in 1 .. Len(tree) : g[i].depth = tree[i].depth
      /\ tree \in Seq(Element)
  <2>1. tree \in Seq(Element) /\ Rises(tree)
    BY DEF TreeFacts, Formed
  <2>2. Len(tree) \in Nat
    BY <2>1
  <2>3. /\ g \in AllForests /\ Len(g) = Len(tree)
        /\ \A i \in 1 .. Len(tree) : g[i].depth = tree[i].depth
    BY TreeForestIs, Zenon
  <2> QED
    BY <2>1, <2>2, <2>3
<1>2. Place(g, 0, 1, << >>, << >>) /\ Held(g, 0, 1, << >>, << >>, 1, <<EmptyWriter>>)
  BY <1>1, PlaceBegins, HeldBegins
<1>3. tree # << >> => 0 < Len(tree) /\ g[1].depth = 0
  BY <1>1 DEF Rises
<1> HIDE DEF g
<1>4. Deep(g, 0, << >>)
  <2>1. 0 < Len(g) => g[0 + 1].depth <= 0
    BY <1>1, <1>3
  <2> QED
    BY <2>1 DEF Deep
<1>5. r = Coming(g, 0, << >>)
  <2>1. Coming(g, 0, << >>) = IF 0 < Len(g) /\ g[1].depth = 0 THEN 1 ELSE 0
    BY DEF Coming
  <2> QED
    BY <1>1, <1>3, <2>1
<1> HIDE DEF r
<1>6. /\ NewWriters.tlvs = << >> /\ NewWriters.top = 1
      /\ NewWriters.writers = <<EmptyWriter>>
  BY DEF NewWriters
<1>7. Len(<<r>>) = 1 /\ <<r>>[1] = r
  OBVIOUS
<1> QED
  BY <1>2, <1>4, <1>5, <1>6, <1>7 DEF Writing, g, r

(* The sibling that is found in the tree is that of the forest. *)
LEMMA AfterIs ==
  ASSUME TreeFacts, PlainFacts, NEW k \in 1 .. Len(tree)
  PROVE  NextSibling(k) = After(TreeForest, k)
<1> DEFINE g == TreeForest
           n == LastOf(tree, k) + 1
<1>1. /\ Len(g) = Len(tree) /\ LastOf(g, k) = LastOf(tree, k)
      /\ \A j \in 1 .. Len(tree) : g[j].depth = tree[j].depth
  BY TreeForestIs, Zenon
<1>2. Len(tree) \in Nat /\ n \in Nat /\ n >= 1
  <2>1. Len(tree) \in Nat
    BY DEF TreeFacts, Formed
  <2>2. LastOf(tree, k) \in Nat
    BY <2>1, BelowBehind
  <2> QED
    BY <2>1, <2>2
<1>3. NextSibling(k) = IF n <= Len(tree) /\ tree[n].depth = tree[k].depth THEN n ELSE 0
  BY DEF NextSibling
<1>4. After(g, k) = IF n <= Len(g) /\ g[n].depth = g[k].depth THEN n ELSE 0
  BY <1>1 DEF After
<1>5. n <= Len(tree) => n \in 1 .. Len(tree)
  BY <1>2
<1> HIDE DEF g, n
<1>6. n <= Len(tree) => g[n].depth = tree[n].depth
  BY <1>1, <1>5
<1>7. g[k].depth = tree[k].depth
  BY <1>1
<1> QED
  BY <1>1, <1>3, <1>4, <1>6, <1>7 DEF g

(* The element on top of the stack is the next node. *)
LEMMA VisitIs ==
  ASSUME TreeFacts, PlainFacts, NEW k \in 1 .. Len(tree), todo # << >>, k = Last(todo),
         NEW i, NEW b, NEW o, NEW d, NEW q,
         Writing(TreeForest, tree, i, b, o, d, q, todo, x)
  PROVE  LET g == TreeForest
         IN  /\ g \in AllForests /\ Len(g) = Len(tree)
             /\ Place(g, i, b, o, d) /\ WalkAt(g, i, b, o) /\ Deep(g, i, o)
             /\ i \in Nat /\ o \in Seq(Nat) /\ Len(o) \in Nat
             /\ k = i + 1 /\ i < Len(g) /\ NoneEnds(g, i, o) /\ g[k].depth = Len(o)
             /\ Held(g, i, b, d, q, x.top, x.writers)
<1> DEFINE g == TreeForest
<1>1. g \in AllForests /\ Len(g) = Len(tree)
  BY TreeForestIs, Zenon
<1> HIDE DEF g
<1>2. /\ Place(g, i, b, o, d) /\ Deep(g, i, o)
      /\ Len(todo) = Len(o) + 1 /\ todo[Len(o) + 1] = Coming(g, i, o)
      /\ Held(g, i, b, d, q, x.top, x.writers)
  BY DEF Writing, g
<1>3. WalkAt(g, i, b, o)
  BY <1>2 DEF Place
<1>4. k = Coming(g, i, o) /\ k # 0
  BY <1>2 DEF Last
<1> QED
  BY <1>1, <1>2, <1>3, <1>4, ComingIs DEF g

(* A primitive element is written. *)
LEMMA WritesPrimitive ==
  ASSUME TreeFacts, PlainFacts, Sound(x), Walk(tree, todo),
         NEW k \in 1 .. Len(tree), WritePrimitive(k), pc' = "write",
         NEW i, NEW b, NEW o, NEW d, NEW q,
         Writing(TreeForest, tree, i, b, o, d, q, todo, x)
  PROVE  Writing(TreeForest, tree, k, k + 1, o, d, q, todo', x')
<1> DEFINE g == TreeForest
           u == [TlvOf(tree[k]) EXCEPT !.tl = MinimalTl(tree[k].text),
                                       !.length = tree[k].text]
           ws == WriteTo(x.writers, x.top, u)
           a == NextSibling(k)
           l == Len(o)
<1>1. /\ todo # << >> /\ k = Last(todo) /\ tree[k].shape = "primitive"
      /\ x' = [x EXCEPT !.writers = WriteTo(@, x.top, u)] /\ Advance(k)
  BY Zenon DEF WritePrimitive, Visit
<1>2. /\ g \in AllForests /\ Len(g) = Len(tree)
      /\ Place(g, i, b, o, d) /\ WalkAt(g, i, b, o) /\ Deep(g, i, o)
      /\ i \in Nat /\ o \in Seq(Nat) /\ l \in Nat
      /\ k = i + 1 /\ i < Len(g) /\ NoneEnds(g, i, o) /\ g[k].depth = l
      /\ Held(g, i, b, d, q, x.top, x.writers)
  BY <1>1, VisitIs
<1>3. g[k].form = "primitive" /\ HeadOf(g, k) = u /\ k \in 1 .. Len(g)
  BY <1>1, ElementHead
<1>4. FirstChild(k) = 0
  BY <1>1, ChildIs
<1>5. a = After(g, k)
  BY AfterIs
<1>6. /\ x = State(x.tlvs, x.writers, x.top) /\ InUse(x.writers, x.top)
  BY SoundParts
<1>7. (x').tlvs = x.tlvs /\ (x').writers = ws /\ (x').top = x.top
  <2>1. x' = SetWriters(x, ws)
    BY <1>1, Zenon DEF SetWriters
  <2>2. x' = State(x.tlvs, ws, x.top)
    BY <1>6, <2>1, StateChanges
  <2> QED
    BY <2>2, StateChanges
<1>8. LastOf(g, k) = k
  BY <1>2, <1>3, PrimitiveLast
<1> HIDE DEF g, u, a, ws
<1>9. todo' = Append(Front(todo), a)
  <2>1. todo' = Append(Front(todo), a) \o << >>
    BY <1>1, <1>4, Zenon DEF Advance, a
  <2>2. Front(todo) \in Seq(0 .. Len(tree)) /\ a \in 0 .. Len(tree)
    BY <1>1, FrontIs, SiblingIs DEF Walk, a
  <2> QED
    BY <2>1, <2>2
<1>10. /\ Len(todo') = l + 1 /\ (todo')[l + 1] = a
       /\ \A n \in 1 .. l : (todo')[n] = todo[n]
  <2>1. Len(todo) = l + 1 /\ todo \in Seq(0 .. Len(tree))
    BY DEF Writing, Walk
  <2>2. /\ Front(todo) \in Seq(0 .. Len(tree)) /\ Len(Front(todo)) = Len(todo) - 1
        /\ \A n \in 1 .. Len(todo) - 1 : Front(todo)[n] = todo[n]
    BY <1>1, <2>1, FrontIs
  <2> QED
    BY <1>2, <1>9, <2>1, <2>2
<1>11. a = Coming(g, k, o)
  <2>1. After(g, k) = IF k + 1 <= Len(g) /\ g[k + 1].depth = l THEN k + 1 ELSE 0
    BY <1>2, <1>8 DEF After
  <2>2. Len(g) \in Nat /\ (k + 1 <= Len(g) <=> k < Len(g))
    BY <1>2, <1>3
  <2> QED
    BY <1>5, <2>1, <2>2 DEF Coming
<1>12. Place(g, k, k + 1, o, d)
  BY <1>2, <1>3, PlaceOpens
<1>13. Deep(g, k, o)
  BY <1>2, <1>3, DeepOpens
<1>14. Held(g, k, k + 1, d, q, (x').top, (x').writers)
  <2>1. Held(g, k, k + 1, d, q, x.top, WriteTo(x.writers, x.top, HeadOf(g, k)))
    BY <1>2, <1>3, <1>6, HeldOpens
  <2> QED
    BY <1>3, <1>7, <2>1 DEF ws
<1> QED
  BY <1>7, <1>10, <1>11, <1>12, <1>13, <1>14 DEF Writing, g

(* A constructed element with children opens a tag. *)
LEMMA WritesConstructed ==
  ASSUME TreeFacts, PlainFacts, Sound(x), Walk(tree, todo), NoEmptyTag,
         NEW k \in 1 .. Len(tree), ProcessConstructed(k),
         NEW i, NEW b, NEW o, NEW d, NEW q,
         Writing(TreeForest, tree, i, b, o, d, q, todo, x)
  PROVE  \E e, r : Writing(TreeForest, tree, k, k + 1, Append(o, k), e, r, todo', x')
<1> DEFINE g == TreeForest
           tlv == TlvOf(tree[k])
           a == NextSibling(k)
           l == Len(o)
           p == Append(o, k)
<1>1. /\ todo # << >> /\ k = Last(todo) /\ tree[k].shape = "constructed"
      /\ x' = OpenTag(x, tlv) /\ Advance(k)
  BY Zenon DEF ProcessConstructed, Visit
<1>2. /\ g \in AllForests /\ Len(g) = Len(tree)
      /\ Place(g, i, b, o, d) /\ WalkAt(g, i, b, o) /\ Deep(g, i, o)
      /\ i \in Nat /\ o \in Seq(Nat) /\ l \in Nat
      /\ k = i + 1 /\ i < Len(g) /\ NoneEnds(g, i, o) /\ g[k].depth = l
      /\ Held(g, i, b, d, q, x.top, x.writers)
  BY <1>1, VisitIs
<1>3. /\ k \in 1 .. Len(g) /\ tree[k] \in Element
      /\ tree[k].indefinite => g[k].form = "indefinite" /\ HeadOf(g, k) = tlv
      /\ ~(tree[k].indefinite) => g[k].form = "definite"
  BY <1>1, ElementHead
<1>4. /\ FirstChild(k) = k + 1 /\ k + 1 \in 1 .. Len(tree) /\ tree[k + 1].depth = tree[k].depth + 1
  <2>1. FirstChild(k) # 0 /\ FirstChild(k) = k + 1
    BY <1>1 DEF NoEmptyTag, FirstChild
  <2>2. FirstChild(k) \in 0 .. Len(tree) /\ Len(tree) \in Nat
    BY ChildIs DEF TreeFacts, Formed
  <2>3. tree[k + 1].depth = tree[k].depth + 1
    BY <2>1, ChildIs
  <2> QED
    BY <2>1, <2>2, <2>3
<1>5. a = After(g, k) /\ a \in 0 .. Len(tree)
  BY AfterIs, SiblingIs
<1>6. InUse(x.writers, x.top) /\ x.tlvs \in Seq(Unit)
  BY SoundParts
<1>7. tlv.indefinite = tree[k].indefinite /\ tlv \in Unit
  BY <1>3, TlvTyped DEF TlvOf
<1>8. g[k + 1].depth = l + 1
  BY <1>2, <1>4, TreeForestIs
<1>9. /\ \A n \in 1 .. l : todo[n] = After(g, o[n])
      /\ Len(todo) = l + 1
      /\ Len(x.tlvs) = l /\ \A n \in 1 .. l : (x.tlvs)[n] = TlvOf(tree[o[n]])
  BY DEF Writing
<1> HIDE DEF g, a, tlv
<1>10. /\ (x').tlvs = Append(x.tlvs, tlv)
       /\ tlv.indefinite =>
            (x').writers = WriteTo(x.writers, x.top, tlv) /\ (x').top = x.top
       /\ ~(tlv.indefinite) =>
            (x').writers = WithLevel(x.writers, x.top) /\ (x').top = x.top + 1
  BY <1>1, TagOpened
<1>11. todo' = Append(Append(Front(todo), a), k + 1)
  <2>1. todo' = Append(Front(todo), a) \o <<k + 1>>
    <3>1. FirstChild(k) # 0
      BY <1>4
    <3> QED
      BY <1>1, <1>4, <3>1, Zenon DEF Advance, a
  <2>2. Front(todo) \in Seq(Nat) /\ a \in Nat /\ k + 1 \in Nat
    <3>1. Front(todo) \in Seq(0 .. Len(tree))
      BY <1>1, FrontIs DEF Walk
    <3> QED
      BY <1>4, <1>5, <3>1
  <2> QED
    BY <2>1, <2>2
<1>12. /\ Len(todo') = l + 2 /\ (todo')[l + 2] = k + 1 /\ (todo')[l + 1] = a
       /\ \A n \in 1 .. l : (todo')[n] = todo[n]
  <2>1. Len(todo) = l + 1 /\ todo \in Seq(0 .. Len(tree))
    BY <1>9 DEF Walk
  <2>2. /\ Front(todo) \in Seq(0 .. Len(tree)) /\ Len(Front(todo)) = Len(todo) - 1
        /\ \A n \in 1 .. Len(todo) - 1 : Front(todo)[n] = todo[n]
    BY <1>1, <2>1, FrontIs
  <2> QED
    BY <1>2, <1>11, <2>1, <2>2
<1>13. Len(p) = l + 1 /\ p[l + 1] = k /\ \A n \in 1 .. l : p[n] = o[n]
  BY <1>2
<1> HIDE DEF p
<1>14. (todo')[Len(p) + 1] = Coming(g, k, p) /\ Len(todo') = Len(p) + 1
  <2>1. k < Len(g) /\ g[k + 1].depth = Len(p)
    BY <1>2, <1>4, <1>8, <1>13
  <2>2. Coming(g, k, p) = k + 1
    BY <2>1 DEF Coming
  <2> QED
    BY <1>2, <1>12, <1>13, <2>2
<1>15. \A n \in 1 .. Len(p) : /\ (todo')[n] = After(g, p[n])
                              /\ (x').tlvs[n] = TlvOf(tree[p[n]])
  <2> SUFFICES ASSUME NEW n \in 1 .. Len(p)
               PROVE  (todo')[n] = After(g, p[n]) /\ (x').tlvs[n] = TlvOf(tree[p[n]])
    OBVIOUS
  <2>1. /\ Append(x.tlvs, tlv)[l + 1] = tlv
        /\ \A m \in 1 .. l : Append(x.tlvs, tlv)[m] = (x.tlvs)[m]
    BY <1>6, <1>9
  <2>2. CASE n = l + 1
    BY <1>5, <1>10, <1>12, <1>13, <2>1, <2>2 DEF tlv
  <2>3. CASE n # l + 1
    <3>1. n \in 1 .. l
      BY <1>2, <1>13, <2>3
    <3> QED
      BY <1>9, <1>10, <1>12, <1>13, <2>1, <3>1
  <2> QED
    BY <2>2, <2>3
<1>16. Len((x').tlvs) = Len(p)
  BY <1>6, <1>7, <1>9, <1>10, <1>13
<1>17. g[k].form # "primitive" => Deep(g, k, p)
  BY <1>2, DeepOpens DEF p
<1>18. CASE tree[k].indefinite
  <2>1. Place(g, k, k + 1, p, d)
    BY <1>2, <1>3, <1>18, PlaceOpens DEF p
  <2>2. Held(g, k, k + 1, d, q, (x').top, (x').writers)
    <3>1. Held(g, k, k + 1, d, q, x.top, WriteTo(x.writers, x.top, HeadOf(g, k)))
      BY <1>2, <1>3, <1>6, <1>18, HeldOpens
    <3> QED
      BY <1>3, <1>7, <1>10, <1>18, <3>1
  <2>3. Writing(g, tree, k, k + 1, p, d, q, todo', x')
    BY <1>3, <1>14, <1>15, <1>16, <1>17, <1>18, <2>1, <2>2 DEF Writing
  <2> QED
    BY <2>3 DEF g, p
<1>19. CASE ~(tree[k].indefinite)
  <2> DEFINE e == Append(d, k)
             r == Append(q, Len(Walked(g, i, b)) + 1)
  <2>1. Place(g, k, k + 1, p, e)
    BY <1>2, <1>3, <1>19, PlaceOpens DEF p
  <2>2. Held(g, k, k + 1, e, r, (x').top, (x').writers)
    <3>1. Held(g, k, k + 1, e, r, x.top + 1, WithLevel(x.writers, x.top))
      BY <1>2, <1>3, <1>6, <1>19, HeldOpens
    <3> QED
      BY <1>7, <1>10, <1>19, <3>1
  <2> HIDE DEF e, r
  <2>3. Writing(g, tree, k, k + 1, p, e, r, todo', x')
    BY <1>3, <1>14, <1>15, <1>16, <1>17, <1>19, <2>1, <2>2 DEF Writing
  <2> QED
    BY <2>3 DEF g, p
<1> QED
  BY <1>18, <1>19

(* The null behind the children of an element ends its tag. *)
LEMMA WritesEnd ==
  ASSUME TreeFacts, PlainFacts, Sound(x), Walk(tree, todo), PopConstructed,
         NEW i, NEW b, NEW o, NEW d, NEW q,
         Writing(TreeForest, tree, i, b, o, d, q, todo, x)
  PROVE  \E e, r : Writing(TreeForest, tree, i, Last(o), Front(o), e, r, todo', x')
<1> DEFINE g == TreeForest
           k == Last(o)
           l == Len(o)
           p == Front(o)
           tlv == Last(x.tlvs)
<1>1. g \in AllForests /\ Len(g) = Len(tree)
  BY TreeForestIs, Zenon
<1> HIDE DEF g
<1>2. /\ Place(g, i, b, o, d) /\ Deep(g, i, o) /\ WalkAt(g, i, b, o)
      /\ Len(todo) = l + 1 /\ todo[l + 1] = Coming(g, i, o)
      /\ \A n \in 1 .. l : todo[n] = After(g, o[n])
      /\ Len(x.tlvs) = l /\ \A n \in 1 .. l : (x.tlvs)[n] = TlvOf(tree[o[n]])
      /\ Held(g, i, b, d, q, x.top, x.writers)
  BY DEF Writing, Place, g
<1>3. l \in Nat /\ o \in Seq(Nat)
  BY <1>1, <1>2, ComingIs
<1>4. /\ Last(todo) = 0 /\ Len(todo) > 1 /\ todo' = Front(todo) /\ todo # << >>
      /\ x.tlvs # << >> => x' = CloseTag(x)
  BY <1>2, <1>3 DEF PopConstructed
<1>5. x.tlvs \in Seq(Unit) /\ InUse(x.writers, x.top)
  BY SoundParts
<1>6. /\ l >= 1 /\ o # << >> /\ x.tlvs # << >> /\ x' = CloseTag(x)
      /\ Coming(g, i, o) = 0
  BY <1>2, <1>3, <1>4, <1>5 DEF Last
<1>7. ~NoneEnds(g, i, o) /\ i \in Nat /\ Len(g) \in Nat /\ i <= Len(g)
  BY <1>1, <1>2, <1>6, ComingIs
<1>8. /\ k \in 1 .. Len(g) /\ LastOf(g, k) = i /\ g[k].form # "primitive"
      /\ g[k].form = "definite" => Place(g, i, k, p, Front(d))
      /\ g[k].form # "definite" => Place(g, i, k, p, d)
  BY <1>1, <1>2, <1>7, PlaceCloses
<1>9. Deep(g, i, p)
  BY <1>1, <1>2, <1>7, DeepCloses
<1>10. /\ k = o[l] /\ Len(p) = l - 1 /\ \A n \in 1 .. l - 1 : p[n] = o[n]
  BY <1>3, <1>6, FrontIs
<1>11. g[k].depth = l - 1
  <2>1. l \in 1 .. l
    BY <1>3, <1>6
  <2> QED
    BY <1>2, <1>10, <2>1 DEF Deep
<1>12. tlv = TlvOf(tree[k])
  <2>1. l \in 1 .. l /\ tlv = (x.tlvs)[l]
    BY <1>2, <1>3, <1>6 DEF Last
  <2> QED
    BY <1>2, <1>10, <2>1
<1>13. /\ tree[k].shape # "primitive"
       /\ tree[k].indefinite => g[k].form = "indefinite"
       /\ ~(tree[k].indefinite) =>
            g[k].form = "definite" /\ HeadOf(g, k) = HeaderOf(tlv, Inner(g)[k])
  <2>1. k \in 1 .. Len(tree)
    BY <1>1, <1>8
  <2> HIDE DEF k, tlv
  <2>2. /\ tree[k].shape = "primitive" => g[k].form = "primitive"
        /\ tree[k].shape # "primitive" /\ tree[k].indefinite => g[k].form = "indefinite"
        /\ tree[k].shape # "primitive" /\ ~(tree[k].indefinite) =>
             g[k].form = "definite" /\ HeadOf(g, k) = HeaderOf(TlvOf(tree[k]), Inner(g)[k])
    BY <2>1, ElementHead DEF g
  <2>3. g[k].form # "primitive"
    BY <1>8 DEF k
  <2> QED
    BY <1>12, <2>2, <2>3
<1>14. tlv.indefinite = tree[k].indefinite
  BY <1>12 DEF TlvOf
<1> HIDE DEF tlv
<1>15. /\ (x').tlvs = Front(x.tlvs)
       /\ tlv.indefinite => (x').writers = WriteTo(x.writers, x.top, Eoc) /\ (x').top = x.top
       /\ ~(tlv.indefinite) =>
            /\ (x').writers = Pour(x.writers, x.top, HeaderOf(tlv, x.writers[x.top].pos))
            /\ (x').top = x.top - 1
  BY <1>6, TagClosed DEF tlv
<1>16. /\ Len((x').tlvs) = l - 1 /\ \A n \in 1 .. l - 1 : (x').tlvs[n] = (x.tlvs)[n]
  BY <1>2, <1>5, <1>6, <1>15, FrontIs
<1>17. /\ Len(todo') = l /\ \A n \in 1 .. l : (todo')[n] = todo[n]
  <2>1. todo \in Seq(0 .. Len(tree))
    BY DEF Walk
  <2>2. /\ Len(Front(todo)) = Len(todo) - 1
        /\ \A n \in 1 .. Len(todo) - 1 : Front(todo)[n] = todo[n]
    BY <1>4, <2>1, FrontIs
  <2> QED
    BY <1>2, <1>3, <1>4, <2>2
<1>18. (todo')[Len(p) + 1] = Coming(g, i, p) /\ Len(todo') = Len(p) + 1
  <2>1. l \in 1 .. l /\ Len(p) + 1 = l
    BY <1>3, <1>6, <1>10
  <2>2. (todo')[l] = After(g, k)
    BY <1>2, <1>10, <1>17, <2>1
  <2>3. After(g, k) = IF i + 1 <= Len(g) /\ g[i + 1].depth = l - 1 THEN i + 1 ELSE 0
    BY <1>8, <1>11 DEF After
  <2>4. i + 1 <= Len(g) <=> i < Len(g)
    BY <1>7
  <2> QED
    BY <1>10, <1>17, <2>1, <2>2, <2>3, <2>4 DEF Coming
<1>19. /\ \A n \in 1 .. Len(p) : /\ (todo')[n] = After(g, p[n])
                                 /\ (x').tlvs[n] = TlvOf(tree[p[n]])
       /\ Len((x').tlvs) = Len(p)
  <2>1. \A n \in 1 .. l - 1 : n \in 1 .. l
    BY <1>3
  <2> QED
    BY <1>2, <1>10, <1>16, <1>17, <2>1
<1>20. CASE tree[k].indefinite
  <2>1. Place(g, i, k, p, d)
    BY <1>8, <1>13, <1>20
  <2>2. Held(g, i, k, d, q, (x').top, (x').writers)
    <3>1. Held(g, i, k, d, q, x.top, WriteTo(x.writers, x.top, Eoc))
      BY <1>1, <1>2, <1>5, <1>7, <1>13, <1>20, HeldCloses
    <3> QED
      BY <1>14, <1>15, <1>20, <3>1
  <2>3. Writing(g, tree, i, k, p, d, q, todo', x')
    BY <1>9, <1>18, <1>19, <2>1, <2>2 DEF Writing
  <2> QED
    BY <2>3 DEF g
<1>21. CASE ~(tree[k].indefinite)
  <2> DEFINE e == Front(d)
             r == Front(q)
  <2>1. Place(g, i, k, p, e)
    BY <1>8, <1>13, <1>21
  <2>2. Held(g, i, k, e, r, (x').top, (x').writers)
    <3>1. /\ x.writers[x.top].pos = Inner(g)[k]
          /\ Held(g, i, k, e, r, x.top - 1, Pour(x.writers, x.top, HeadOf(g, k)))
      BY <1>1, <1>2, <1>5, <1>7, <1>13, <1>21, HeldCloses
    <3> QED
      BY <1>13, <1>14, <1>15, <1>21, <3>1
  <2> HIDE DEF e, r
  <2>3. Writing(g, tree, i, k, p, e, r, todo', x')
    BY <1>9, <1>18, <1>19, <2>1, <2>2 DEF Writing
  <2> QED
    BY <2>3 DEF g
<1> QED
  BY <1>20, <1>21

(* Behind the root, all is written. *)
LEMMA WritesAll ==
  ASSUME TreeFacts, PlainFacts, todo = << 0 >>,
         NEW i, NEW b, NEW o, NEW d, NEW q,
         Writing(TreeForest, tree, i, b, o, d, q, todo, x)
  PROVE  x.writers[1].items = Units(TreeForest)
<1> DEFINE g == TreeForest
<1>1. g \in AllForests
  BY TreeForestIs, Zenon
<1> HIDE DEF g
<1>2. /\ Place(g, i, b, o, d) /\ Deep(g, i, o) /\ WalkAt(g, i, b, o)
      /\ Len(todo) = Len(o) + 1 /\ todo[Len(o) + 1] = Coming(g, i, o)
      /\ Held(g, i, b, d, q, x.top, x.writers)
  BY DEF Writing, Place, g
<1>3. Len(o) \in Nat /\ o \in Seq(Nat)
  BY <1>1, <1>2, ComingIs
<1>4. o = << >> /\ Coming(g, i, o) = 0
  BY <1>2, <1>3
<1>5. i = Len(g)
  BY <1>1, <1>2, <1>4, ComingIs
<1> QED
  BY <1>1, <1>2, <1>4, <1>5, HeldEnds DEF g

(* The inductive invariant of what is written *)
WriteFacts ==
  /\ PlainFacts
  /\ pc \in {"read", "close", "built"} => x = NewWriters /\ todo = << >>
  /\ pc = "write" /\ NoEmptyTag =>
       \E i, b, o, d, q : Writing(TreeForest, tree, i, b, o, d, q, todo, x)
  /\ TreeWritten

(* A tree that stays has the same forest. *)
LEMMA SameTree ==
  ASSUME UNCHANGED tree
  PROVE  /\ TreeForest' = TreeForest /\ (NoEmptyTag' <=> NoEmptyTag)
         /\ units' = units => (PlainFacts => PlainFacts')
<1>1. TreeForest' = TreeForest
  BY Zenon DEF TreeForest
<1>2. \A i : (FirstChild(i))' = FirstChild(i)
  BY DEF FirstChild, Below
<1>3. NoEmptyTag' <=> NoEmptyTag
  BY <1>2 DEF NoEmptyTag
<1>4. units' = units => (PlainFacts => PlainFacts')
  BY DEF PlainFacts
<1> QED
  BY <1>1, <1>3, <1>4

(* The tree is built. *)
LEMMA WriteWaits ==
  ASSUME Facts, WriteFacts, GeneratorNext, UNCHANGED writerVars
  PROVE  WriteFacts'
<1>1. PlainFacts'
  BY PlainKept DEF Facts, WriteFacts
<1>2. pc \in {"read", "close"} /\ pc' \in {"read", "close", "built", "failed"}
  BY DEF GeneratorNext, GenPrimitive, GenEoc, GenConstructed, PopNode, Throw, Next,
         CloseDefinite, EndOfLoop, CountReached, EndOfInput
<1>3. x' = NewWriters /\ todo' = << >>
  BY <1>2 DEF WriteFacts, writerVars
<1> QED
  BY <1>1, <1>2, <1>3 DEF WriteFacts, TreeWritten

(* The tree is written. *)
LEMMA WriteGoesOn ==
  ASSUME Facts, WriteFacts, WriterNext, UNCHANGED generatorVars
  PROVE  WriteFacts'
<1>1. /\ tree' = tree /\ units' = units /\ pc' \in {"write", "failed", "done"}
  BY WriterKeeps DEF generatorVars, input
<1>2. /\ TreeFacts /\ PlainFacts /\ Sound(x) /\ Walk(tree, todo)
  BY DEF Facts, GeneratorFacts, WriterFacts, WriteFacts
<1>3. PlainFacts' /\ TreeForest' = TreeForest /\ (NoEmptyTag' <=> NoEmptyTag)
  BY <1>1, <1>2, SameTree
<1>4. ASSUME NoEmptyTag, pc' = "write"
      PROVE  \E i, b, o, d, q : Writing(TreeForest, tree, i, b, o, d, q, todo', x')
  <2>1. CASE Start
    <3>1. todo' = <<IF tree = << >> THEN 0 ELSE 1>> /\ x' = NewWriters
      BY <2>1 DEF Start, WriteFacts
    <3> QED
      BY <1>2, <3>1, WritingBegins
  <2>2. CASE ~Start
    <3>1. pc = "write"
      BY <2>2 DEF WriterNext, WritePrimitive, ProcessConstructed, Visit, PopConstructed,
                  Break
    <3>2. PICK i, b, o, d, q : Writing(TreeForest, tree, i, b, o, d, q, todo, x)
      BY <1>4, <3>1 DEF WriteFacts
    <3>3. CASE \E k \in 1 .. Len(tree) : WritePrimitive(k)
      BY <1>2, <1>4, <3>2, <3>3, WritesPrimitive
    <3>4. CASE \E k \in 1 .. Len(tree) : ProcessConstructed(k)
      BY <1>2, <1>4, <3>2, <3>4, WritesConstructed
    <3>5. CASE PopConstructed
      BY <1>2, <3>2, <3>5, WritesEnd
    <3>6. CASE Break
      BY <1>4, <3>6 DEF Break
    <3> QED
      BY <2>2, <3>3, <3>4, <3>5, <3>6, Zenon DEF WriterNext
  <2> QED
    BY <2>1, <2>2
<1>5. ASSUME NoEmptyTag, pc' = "done"
      PROVE  (x').writers[1].items = Units(TreeForest)
  <2>1. pc = "write" /\ todo = <<0>> /\ x' = x
    BY <1>5 DEF WriterNext, Start, WritePrimitive, ProcessConstructed, Visit, Advance,
                PopConstructed, Break
  <2>2. PICK i, b, o, d, q : Writing(TreeForest, tree, i, b, o, d, q, todo, x)
    BY <1>5, <2>1 DEF WriteFacts
  <2> QED
    BY <1>2, <2>1, <2>2, WritesAll
<1>6. /\ pc' = "write" /\ NoEmptyTag' =>
           \E i, b, o, d, q : Writing(TreeForest', tree', i, b, o, d, q, todo', x')
      /\ TreeWritten'
  BY <1>1, <1>3, <1>4, <1>5, Zenon DEF TreeWritten
<1> QED
  BY <1>1, <1>3, <1>6 DEF WriteFacts

(* Whatever tree was built - of any BER input that is complete or not,     *)
(* with or without indefinite lengths - what Lxml2Ber writes are the tags  *)
(* of its elements, in order, with lengths that count what is inside, and  *)
(* an end-of-content unit behind each indefinite one, provided each        *)
(* constructed element has a child (lxml2ber.cc:109-232).                  *)
THEOREM TreesWritten == Spec => []TreeWritten
<1>1. Init => Facts /\ WriteFacts
  <2> SUFFICES ASSUME Init PROVE Facts /\ WriteFacts
    OBVIOUS
  <2>1. x = NewWriters /\ todo = << >> /\ pc = "read"
    BY DEF Init, GeneratorInit, WriterInit
  <2> QED
    BY <2>1, InitFacts, PlainInit DEF WriteFacts, TreeWritten
<1>2. Facts /\ WriteFacts /\ [Step \/ (Ended /\ UNCHANGED vars)]_vars
        => Facts' /\ WriteFacts'
  <2> SUFFICES ASSUME Facts, WriteFacts, [Step \/ (Ended /\ UNCHANGED vars)]_vars
               PROVE  Facts' /\ WriteFacts'
    OBVIOUS
  <2>1. CASE Step
    BY <2>1, GeneratorKeeps, WriterKeeps, WriteWaits, WriteGoesOn DEF Step
  <2>2. CASE UNCHANGED vars
    <3>1. tree' = tree /\ pc' = pc /\ todo' = todo /\ x' = x /\ units' = units
      BY <2>2 DEF vars, generatorVars, writerVars, input
    <3>2. Facts'
      BY <2>2 DEF vars, generatorVars, writerVars, input, counters, Facts,
                  GeneratorFacts, InputFacts, CounterFacts, TreeFacts, WriterFacts
    <3>3. TreeForest' = TreeForest /\ (NoEmptyTag' <=> NoEmptyTag) /\ PlainFacts'
      BY <3>1, SameTree DEF WriteFacts
    <3>4. TreeWritten'
      BY <3>1, <3>3, Zenon DEF WriteFacts, TreeWritten
    <3> QED
      BY <3>1, <3>2, <3>3, <3>4, Zenon DEF WriteFacts
  <2> QED
    BY <2>1, <2>2
<1>3. WriteFacts => TreeWritten
  BY DEF WriteFacts
<1> QED
  BY <1>1, <1>2, <1>3, PTL DEF Spec
=============================================================================
