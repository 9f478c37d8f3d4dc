------------------------------ MODULE Ber2Lxml ------------------------------
(***************************************************************************)
(* class Tree_Generator of xfsx/ber2lxml.cc, behind generate_tree(): it    *)
(* builds a tree from BER data in a loop over read_next(), and finds the   *)
(* ends of definite tags with two stacks of counters.                      *)
(*                                                                         *)
(* The input is the encoding of any forest, cut off after any unit, or     *)
(* with one end-of-content unit too many.                                  *)
(*                                                                         *)
(* libxml2 is not part of the repository; what is modelled is how this and *)
(* xfsx/lxml2ber.cc use it.  A tree is the sequence of its elements in     *)
(* document order with their depths: a new element is always the last      *)
(* child of its parent, and nothing is added behind the subtree of a       *)
(* parent while another one is open.  An element has a name, of which only *)
(* the shape of the tag counts that the translators connect it with, the   *)
(* attribute definite="false" or not, and a text; a text of no characters  *)
(* does not exist.                                                         *)
(***************************************************************************)
EXTENDS Levels

CONSTANT
  MaxCount      \* bound on args_.count, where 0 stands for no limit

ASSUME Ber2LxmlAssumption == MaxCount \in Nat

VARIABLES
  forest,       \* what the BER input encodes
  units,        \* the units of the input
  tree,         \* the tree
  pc,           \* the step of the converter that runs
  args,         \* count, first (stop_after_first), indefinite (dump_indefinite)
  read,         \* how many units have been read
  nth,          \* i: how many have been dealt with
  nodeStack,    \* node_stack_: the open elements, and rank_stack_ without its root
  lengthStack,  \* length_stack_: the lengths of the open definite tags
  writtenStack  \* written_stack_: the octets read of each of them

input == <<forest, units, args>>
counters == <<lengthStack, writtenStack>>
generatorVars == <<input, read, nth, nodeStack, counters>>

(* next_element_sibling() and first_element_child(); 0 is null *)
NextSibling(i) ==
  LET n == LastOf(tree, i) + 1
  IN  IF n <= Len(tree) /\ tree[n].depth = tree[i].depth THEN n ELSE 0

FirstChild(i) == IF Below(tree, i) = {} THEN 0 ELSE i + 1

Inputs(f) ==
  LET us == Units(f)
  IN  {SubSeq(us, 1, n) : n \in 0 .. Len(us)}
        \cup {InsertAt(us, n, Eoc) : n \in 1 .. Len(us) + 1}

GeneratorInit ==
  /\ forest \in Forests
  /\ units \in Inputs(forest)
  /\ args \in [count : 0 .. MaxCount, first : BOOLEAN, indefinite : BOOLEAN]
  /\ tree = << >>
  /\ read = 0
  /\ nth = 0
  /\ nodeStack = << >>
  /\ lengthStack = <<0>>        \* a catch-all root
  /\ writtenStack = <<0>>
  /\ pc = "read"

(* read_next() returns unit u, which is not one too many. *)
Next(u) ==
  /\ pc = "read"
  /\ read < Len(units)
  /\ u = units[read + 1]
  /\ args.count = 0 \/ nth < args.count
  /\ read' = read + 1
  /\ UNCHANGED <<input, nth>>

Throw == pc' = "failed" /\ UNCHANGED <<tree, nodeStack>>

(* The last child of the innermost open element *)
AddElement(u) ==
  tree' = Append(tree, [depth      |-> Len(nodeStack),
                        shape      |-> u.shape,
                        indefinite |-> args.indefinite /\ u.indefinite,
                        text       |-> IF u.shape = "primitive" THEN u.length ELSE 0])

GenPrimitive(u) ==
  /\ Next(u)
  /\ u.shape = "primitive" /\ ~u.eoc
  /\ writtenStack' = AddToTop(writtenStack, u.tl + u.length)
  /\ \/ nodeStack = << >> /\ Throw        \* "no parent available"
     \/ nodeStack # << >> /\ AddElement(u) /\ pc' = "close" /\ UNCHANGED nodeStack
  /\ UNCHANGED lengthStack

(* A fault: an end without an open element passes. *)
PopNodeIgnoresSuperfluous ==
  /\ nodeStack' = IF nodeStack = << >> THEN << >> ELSE Front(nodeStack)
  /\ pc' = "close"
  /\ UNCHANGED tree

(* pop() *)
PopNode ==
  \/ nodeStack = << >> /\ Throw           \* Unexpected_EOC
  \/ nodeStack # << >> /\ nodeStack' = Front(nodeStack) /\ pc' = "close"
       /\ UNCHANGED tree

GenEoc(u) ==
  /\ Next(u)
  /\ u.eoc
  /\ writtenStack' = AddToTop(writtenStack, u.tl + u.length)
  /\ PopNode
  /\ UNCHANGED lengthStack

(* Does the tag have anything inside that its end has to be found behind?  *)
HasInside(u) == u.indefinite \/ u.length > 0

GenConstructed(u) ==
  /\ Next(u)
  /\ u.shape = "constructed"
  /\ LET counted == AddToTop(writtenStack, u.tl)
         inner   == ~u.indefinite /\ u.length > 0
     IN  /\ writtenStack' = IF inner THEN Append(counted, 0) ELSE counted
         /\ lengthStack' = IF inner THEN Append(lengthStack, u.length) ELSE lengthStack
  /\ \/ nodeStack = << >> /\ tree # << >> /\ Throw   \* "multiple roots"
     \/ /\ nodeStack # << >> \/ tree = << >>
        /\ AddElement(u)
        /\ nodeStack' = IF HasInside(u) THEN Append(nodeStack, Len(tree) + 1)
                                        ELSE nodeStack
        /\ pc' = "close"

Complete == lengthStack # << >> /\ Last(lengthStack) = Last(writtenStack)

CloseDefinite ==
  /\ pc = "close"
  /\ Complete
  /\ PopNode
  /\ IF nodeStack = << >> THEN UNCHANGED counters
     ELSE /\ lengthStack' = Front(lengthStack)
          /\ writtenStack' = AddToTop(Front(writtenStack), Last(lengthStack))
  /\ UNCHANGED <<input, read, nth>>

EndOfLoop ==
  /\ pc = "close"
  /\ ~Complete
  /\ IF args.first /\ nodeStack = << >>
     THEN pc' = "built" /\ UNCHANGED nth
     ELSE pc' = "read" /\ nth' = nth + 1
  /\ UNCHANGED <<input, tree, read, nodeStack, counters>>

(* The unit behind the last one to be counted is read, too. *)
CountReached ==
  /\ pc = "read"
  /\ read < Len(units)
  /\ args.count > 0 /\ nth >= args.count
  /\ read' = read + 1
  /\ pc' = "built"
  /\ UNCHANGED <<input, tree, nth, nodeStack, counters>>

(* read_next() returns false; open elements are not looked for. *)
EndOfInput ==
  /\ pc = "read"
  /\ read = Len(units)
  /\ pc' = "built"
  /\ UNCHANGED <<input, tree, read, nth, nodeStack, counters>>

GeneratorNext ==
  \/ \E u \in {units[i] : i \in 1 .. Len(units)} :
       GenPrimitive(u) \/ GenEoc(u) \/ GenConstructed(u)
  \/ CloseDefinite
  \/ EndOfLoop
  \/ CountReached
  \/ EndOfInput

(***************************************************************************)
(* Properties                                                              *)
(***************************************************************************)
Element ==
  [depth : Nat, shape : {"primitive", "constructed"}, indefinite : BOOLEAN, text : Nat]

GeneratorTypeOK ==
  /\ tree \in Seq(Element)
  /\ read \in 0 .. Len(units)
  /\ nth \in 0 .. read /\ (pc = "close" => nth < read)
  /\ nodeStack \in Seq(1 .. Len(tree))
  /\ lengthStack \in Seq(Nat) /\ writtenStack \in Seq(Nat)

(* The counters have entries for the same tags, and the catch-all root is  *)
(* never complete: it is never popped.                                     *)
RootKept ==
  /\ Len(lengthStack) = Len(writtenStack)
  /\ Len(lengthStack) >= 1 /\ lengthStack[1] = 0
  /\ read > 0 => writtenStack[1] > 0

(* The open elements are the innermost element and those around it.        *)
OpenElements ==
  \A i \in 1 .. Len(nodeStack) :
    LET e == nodeStack[i]
    IN  /\ tree[e].depth = i - 1 /\ tree[e].shape = "constructed"
        /\ \A j \in e + 1 .. Len(tree) : tree[j].depth >= i

(* There is one root, and only constructed elements have children.         *)
IsTree ==
  \A i \in 1 .. Len(tree) :
    IF i = 1 THEN tree[i].depth = 0
    ELSE /\ tree[i].depth > 0
         /\ tree[i].depth <=
              tree[i - 1].depth + IF tree[i - 1].shape = "constructed" THEN 1 ELSE 0

ElementOf(v) ==
  [depth      |-> v.depth,
   shape      |-> IF v.form = "primitive" THEN "primitive" ELSE "constructed",
   indefinite |-> args.indefinite /\ v.form = "indefinite",
   text       |-> v.length]

HasStray == \A n \in 0 .. Len(Units(forest)) : units # SubSeq(Units(forest), 1, n)

ShowsInput ==
  LET all == [i \in 1 .. Len(forest) |-> ElementOf(forest[i])]
  IN  /\ IsPrefix(tree, all)
      /\ args.count > 0 => Len(tree) <= args.count
      /\ units = Units(forest) /\ args.count = 0 /\ ~args.first => tree = all

(* The tree has an element for each tag, at its depth, and shows no more   *)
(* than the input, which may end anywhere; a limit on the number of units  *)
(* is kept.  It shows all of a complete input without limits.  An          *)
(* end-of-content unit too many is refused, wherever it is: no tree is     *)
(* built from the whole of such an input.  (In a definite tag it makes the *)
(* content longer than the length, which nothing here looks for.)          *)
TreeTrue ==
  /\ pc = "built" /\ ~HasStray => ShowsInput
  /\ pc = "built" /\ HasStray /\ read = Len(units) =>
       \/ args.count > 0 \/ args.first
       \/ \E i \in 1 .. Len(forest) :
            forest[i].form = "definite" /\ Below(forest, i) # {}
=============================================================================
