---------------------------- MODULE LxmlRoundTrip ----------------------------
(***************************************************************************)
(* BER to a libxml2 tree and back, as `bed edit' does it (bed/command/     *)
(* edit.cc, here without an edit): generate_tree(), then write_ber().      *)
(***************************************************************************)
EXTENDS Lxml2Ber

vars == <<tree, pc, generatorVars, writerVars>>

Init == GeneratorInit /\ WriterInit

Step ==
  \/ GeneratorNext /\ UNCHANGED writerVars
  \/ WriterNext /\ UNCHANGED generatorVars

Ended == pc \in {"done", "failed", "undefined"}

Spec == Init /\ [][Step \/ (Ended /\ UNCHANGED vars)]_vars

(***************************************************************************)
(* Properties                                                              *)
(***************************************************************************)
(* The inductive invariant.  Of the tree: it is one, and the stack of the  *)
(* generator is the path to its last element; of the writer: the stack of  *)
(* elements to come, that of open tags and the writers agree, and there is *)
(* a tag to pop for each null.                                             *)
IInv ==
  /\ GeneratorTypeOK /\ RootKept /\ OpenElements /\ IsTree
  /\ WriterTypeOK /\ WalkInStep /\ WritersMatch(x) /\ TagToPop

(* The tree as a forest: with minimal lengths, and definite ones where the *)
(* tree does not say otherwise                                             *)
TreeForest ==
  [i \in 1 .. Len(tree) |->
     [depth  |-> tree[i].depth,
      form   |-> IF tree[i].shape = "primitive" THEN "primitive"
                 ELSE IF tree[i].indefinite THEN "indefinite" ELSE "definite",
      extra  |-> 0,
      length |-> tree[i].text]]

(* What is written are the tags of the tree, with lengths that count what  *)
(* is inside: but if one of the constructed tags has no children, it may   *)
(* be lost, or end where the tag around it ends.                           *)
TreeWritten ==
  pc = "done" /\ NoEmptyTag => x.writers[1].items = Units(TreeForest)
=============================================================================
