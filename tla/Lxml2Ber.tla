------------------------------ MODULE Lxml2Ber ------------------------------
(***************************************************************************)
(* class Lxml2Ber of xfsx/lxml2ber.cc, behind l2::write_ber(): it writes a *)
(* libxml2 tree as BER.  It walks over the tree with a stack of the        *)
(* elements to come, in which a null stands for the end of a list of       *)
(* children, and so for the end of the constructed tag around it.          *)
(***************************************************************************)
EXTENDS Ber2Lxml

VARIABLES
  todo,         \* stack, in process()
  x             \* tlvs: the open constructed tags; writers and top

writerVars == <<todo, x>>

WriterInit == todo = << >> /\ x = NewWriters

(* The constructor, and the begin of process(): the stack has the root,    *)
(* which is null in an empty tree.                                         *)
Start ==
  /\ pc = "built"
  /\ todo' = <<IF tree = << >> THEN 0 ELSE 1>>
  /\ pc' = "write"
  /\ UNCHANGED <<tree, x>>

(* read_tag(), read_attributes() and init_indefinite() of an element *)
TlvOf(e) ==
  [shape |-> e.shape, eoc |-> FALSE, indefinite |-> e.indefinite,
   tl |-> IF e.indefinite THEN 2 ELSE 0, length |-> 0]

(* Element i is on top of the stack. *)
Visit(i) == pc = "write" /\ todo # << >> /\ i = Last(todo) /\ UNCHANGED tree

(* A fault: the children are put below the next sibling. *)
AdvanceSiblingFirst(i) ==
  /\ todo' = Front(todo) \o (IF FirstChild(i) = 0 THEN << >> ELSE <<FirstChild(i)>>)
               \o <<NextSibling(i)>>
  /\ UNCHANGED pc

(* Its next sibling takes its place, or the null behind the last one; then *)
(* come its children, if it has any.                                       *)
Advance(i) ==
  /\ todo' = Append(Front(todo), NextSibling(i))
               \o IF FirstChild(i) = 0 THEN << >> ELSE <<FirstChild(i)>>
  /\ UNCHANGED pc

WritePrimitive(i) ==
  /\ Visit(i)
  /\ tree[i].shape = "primitive"
  /\ LET n == tree[i].text
     IN  \/ /\ n > 0
            /\ x' = [x EXCEPT !.writers =
                       WriteTo(@, x.top, [TlvOf(tree[i]) EXCEPT
                                            !.tl = MinimalTl(n), !.length = n])]
            /\ Advance(i)
         \/ \* logic_error("primitive element must have one text_node")
            n = 0 /\ pc' = "failed" /\ UNCHANGED writerVars

ProcessConstructed(i) ==
  /\ Visit(i)
  /\ tree[i].shape = "constructed"
  /\ x' = OpenTag(x, TlvOf(tree[i]))
  /\ Advance(i)

(* A fault: the null behind the root is like any other one. *)
PopConstructedOfRoot ==
  /\ pc = "write" /\ Last(todo) = 0
  /\ todo' = Front(todo)
  /\ IF x.tlvs = << >> THEN pc' = "undefined" /\ UNCHANGED x
     ELSE x' = CloseTag(x) /\ UNCHANGED pc
  /\ UNCHANGED tree

PopConstructed ==
  /\ pc = "write" /\ Last(todo) = 0
  /\ Len(todo) > 1
  /\ todo' = Front(todo)
  /\ IF x.tlvs = << >> THEN pc' = "undefined" /\ UNCHANGED x
     ELSE x' = CloseTag(x) /\ UNCHANGED pc
  /\ UNCHANGED tree

(* "we have to break before the null-next pointer of the root element" *)
Break ==
  /\ pc = "write" /\ todo = <<0>>
  /\ todo' = << >>
  /\ pc' = "done"
  /\ UNCHANGED <<tree, x>>

WriterNext ==
  \/ Start
  \/ \E i \in 1 .. Len(tree) : WritePrimitive(i) \/ ProcessConstructed(i)
  \/ PopConstructed
  \/ Break

(***************************************************************************)
(* Properties                                                              *)
(***************************************************************************)
WriterTypeOK == todo \in Seq(0 .. Len(tree)) /\ x \in WritersType

(* assert(tlv_stack_top_) in pop_constructed(): there is a tag to pop. *)
TagToPop == pc # "undefined"

(* The place of an element on the stack is its depth, and each null on it  *)
(* but the one behind the root stands for the end of an open tag.          *)
WalkInStep ==
  /\ \A k \in 1 .. Len(todo) : todo[k] # 0 => tree[todo[k]].depth = k - 1
  /\ \A k \in 1 .. Len(x.tlvs) : x.tlvs[k].shape = "constructed"
  /\ pc = "write" => Len(todo) \in 1 .. Len(x.tlvs) + 1

(* A constructed element without children is not followed by the null that *)
(* ends it.                                                                *)
NoEmptyTag ==
  \A i \in 1 .. Len(tree) : tree[i].shape = "constructed" => FirstChild(i) # 0
=============================================================================
