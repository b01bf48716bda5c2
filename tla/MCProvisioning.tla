---------------------------- MODULE MCProvisioning ----------------------------
(****************************************************************************)
(* Provisioning for TLC. One NodeClaim: two of them share nothing but the   *)
(* list and the moment of a restart.                                        *)
(****************************************************************************)
EXTENDS Provisioning

Class(spot, onDemand, available) ==
  [price |-> [k \in Kinds |-> IF k = "spot" THEN spot ELSE onDemand],
   available |-> available]

MCTypes == {"a", "b"}

(* a always has both prices; b sometimes has no spot price. Which of the    *)
(* two is the cheaper changes, and a, b or both may be unavailable.         *)
List(a, b) == [t \in MCTypes |-> IF t = "a" THEN a ELSE b]

MCCatalogs == {
  List(Class(3, 4, TRUE), Class(2, 3, TRUE)),
  List(Class(2, 3, TRUE), Class(0, 2, TRUE)),
  List(Class(1, 3, FALSE), Class(0, 2, FALSE))}

In(types, values) == [types |-> types, op |-> "In", values |-> values]

MCRequirements == {
  In({"a", "b"}, <<"spot">>),
  In({"b"}, <<"on-demand">>),
  In({"a"}, <<"on-demand", "spot">>),
  In({"b"}, <<"on-demand", "spot">>),
  [types |-> {"b"}, op |-> "NotIn", values |-> <<"on-demand">>],
  [types |-> {"b"}, op |-> "Exists", values |-> <<>>]}

------------------------------------------------------------------------------
(* For the liveness runs: one class, whose spot price comes and goes and    *)
(* which may be unavailable, and the NodeClaims it suits.                   *)
FewTypes == {"b"}

FewCatalogs == {[t \in FewTypes |-> cl] :
  cl \in {Class(1, 2, TRUE), Class(0, 2, TRUE), Class(0, 2, FALSE)}}

FewRequirements == {In({"b"}, <<"on-demand">>), In({"b"}, <<"on-demand", "spot">>)}
==============================================================================
