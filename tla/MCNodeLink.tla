------------------------------ MODULE MCNodeLink ------------------------------
(****************************************************************************)
(* NodeLink for TLC: one NodeClaim of one capacity type and one ServerClass *)
(* that is always offered, so that what varies is the Nodes.                *)
(****************************************************************************)
EXTENDS NodeLink

OneType == {"a"}

OneCatalog ==
  {[t \in OneType |-> [price |-> [k \in Kinds |-> 1], available |-> TRUE]]}

OneRequirement == {[types |-> OneType, op |-> "In", values |-> <<"spot">>]}
==============================================================================
