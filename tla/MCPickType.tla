------------------------------ MODULE MCPickType ------------------------------
(****************************************************************************)
(* PickType for TLC: three ServerClasses in every order, each dear or cheap *)
(* on the spot market, or without a price, or unavailable.                  *)
(****************************************************************************)
EXTENDS PickType

MCTypes == {"a", "b", "c"}

Class(spot, onDemand, available) ==
  [price |-> [k \in Kinds |-> IF k = "spot" THEN spot ELSE onDemand],
   available |-> available]

MCCatalogs ==
  [MCTypes -> {Class(1, 4, TRUE), Class(2, 3, TRUE), Class(0, 3, TRUE),
               Class(1, 2, FALSE), Class(0, 0, TRUE)}]

MCOrders == {o \in [1 .. 3 -> MCTypes] : Range(o) = MCTypes}

MCRequirements ==
  {[types |-> T, op |-> q[1], values |-> q[2]] :
    T \in {MCTypes, {"a", "b"}},
    q \in {<<"In", <<"spot">>>>, <<"In", <<"on-demand", "spot">>>>,
           <<"NotIn", <<"spot">>>>, <<"Exists", <<>>>>}}
==============================================================================
