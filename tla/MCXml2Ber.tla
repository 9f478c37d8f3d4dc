------------------------------ MODULE MCXml2Ber ------------------------------
(***************************************************************************)
(* Instances of Xml2Ber for TLC: documents of every forest of up to        *)
(* MaxNodes nodes.  With Inc = 11, files are read in one to five blocks,   *)
(* and the boundaries are in all parts of tags and texts.                  *)
(***************************************************************************)
EXTENDS Xml2Ber

ASSUME BoundAssumption == \E n \in Contents : MinimalTl(n + 2) > MinimalTl(n)
=============================================================================
