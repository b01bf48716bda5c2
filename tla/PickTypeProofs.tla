---------------------------- MODULE PickTypeProofs ----------------------------
(****************************************************************************)
(* PickType, for every list in every order: the loops have the outcome that *)
(* Provisioning takes from ChosenKind and Picks in one step.                *)
(****************************************************************************)
EXTENDS PickType, TLAPS

Seen == 1 .. i - 1

Compat == Compatible(cat, r, kind)

Preferring ==
  pc = "prefer" =>
    /\ kind = "on-demand" /\ best = NoType
    /\ \A n \in Seen : list[n] \notin Compatible(cat, r, "spot")

(* best is the first of the cheapest compatible types seen so far.          *)
Picking ==
  pc # "prefer" =>
    /\ kind = ChosenKind(cat, r)
    /\ best = NoType => \A n \in Seen : list[n] \notin Compat
    /\ best # NoType =>
         /\ best \in Compat
         /\ \A n \in Seen : list[n] \in Compat =>
              cat[best].price[kind] <= cat[list[n]].price[kind]
         /\ \E n \in Seen :
              /\ list[n] = best
              /\ \A m \in 1 .. n - 1 : list[m] \in Compat =>
                   cat[best].price[kind] < cat[list[m]].price[kind]
    /\ pc = "done" => i = Len(list) + 1

IInv == TypeOK /\ Preferring /\ Picking

------------------------------------------------------------------------------
LEMMA Listing ==
  ASSUME TypeOK
  PROVE  /\ Len(list) \in Nat
         /\ \A n \in 1 .. Len(list) : list[n] \in Types
         /\ \A t \in Types : \E n \in 1 .. Len(list) : list[n] = t
         /\ i \in Nat \ {0}
<1>1. list \in Seq(Types) /\ Range(list) = Types
  BY OrdersAssumption DEF TypeOK
<1> QED BY <1>1 DEF Range, TypeOK

LEMMA Priced ==
  ASSUME TypeOK, NEW t \in Types, NEW k \in Kinds
  PROVE  cat[t].price[k] \in Nat
  BY CatalogsAssumption DEF TypeOK, Catalog, ServerClass

LEMMA IInvInit == Init => IInv
<1> SUFFICES ASSUME Init PROVE IInv
  OBVIOUS
<1>1. list \in Seq(Types)
  BY OrdersAssumption DEF Init
<1>2. TypeOK
  BY <1>1 DEF Init, TypeOK, Kinds
<1> QED BY <1>2 DEF Init, IInv, Preferring, Picking, Seen

LEMMA TypeNext == TypeOK /\ [Next]_vars => TypeOK'
<1> SUFFICES ASSUME TypeOK, [Next]_vars PROVE TypeOK'
  OBVIOUS
<1>1. UNCHANGED inputs
  BY DEF Next, Prefer, Pick, Done, vars
<1>2. CASE Prefer
  BY <1>1, <1>2, Listing DEF Prefer, inputs, TypeOK, Kinds
<1>3. CASE Pick
  BY <1>1, <1>3, Listing DEF Pick, it, inputs, TypeOK
<1>4. CASE Done
  BY <1>1, <1>4 DEF Done, inputs, TypeOK
<1>5. CASE UNCHANGED vars
  BY <1>5 DEF vars, inputs, TypeOK
<1> QED BY <1>2, <1>3, <1>4, <1>5 DEF Next

LEMMA IInvNext == IInv /\ [Next]_vars => IInv'
<1> SUFFICES ASSUME IInv, [Next]_vars PROVE Preferring' /\ Picking'
  BY TypeNext DEF IInv
<1> USE DEF IInv
<1>1. UNCHANGED inputs
  BY DEF Next, Prefer, Pick, Done, vars
<1>2. CASE Prefer
  <2>1. CASE Permits(r, "spot") /\ i <= Len(list) /\ Fits("spot")
    <3>1. ChosenKind(cat, r) = "spot"
      BY <2>1 DEF Fits, ChosenKind, preferSpot
    <3> QED
      BY <1>1, <1>2, <2>1, <3>1 DEF Prefer, Preferring, Picking, Seen, inputs
  <2>2. CASE Permits(r, "spot") /\ i <= Len(list) /\ ~Fits("spot")
    BY <1>1, <1>2, <2>2, Listing DEF Prefer, Preferring, Picking, Seen, inputs, Fits, it
  <2>3. CASE ~(Permits(r, "spot") /\ i <= Len(list))
    <3>1. Permits(r, "spot") => Compatible(cat, r, "spot") = {}
      BY <1>2, <2>3, Listing, RequirementsAssumption
         DEF Prefer, Preferring, Seen, Compatible, Requirement, TypeOK
    <3>2. ChosenKind(cat, r) = "on-demand"
      BY <3>1 DEF ChosenKind, preferSpot
    <3> QED
      BY <1>1, <1>2, <2>3, <3>2 DEF Prefer, Preferring, Picking, Seen, inputs
  <2> QED BY <2>1, <2>2, <2>3
<1>3. CASE Pick
  <2>1. Compat' = Compat /\ kind' = kind /\ pc = "pick" /\ pc' = "pick" /\ i' = i + 1
    BY <1>1, <1>3 DEF Pick, Compat, inputs
  <2>2. it \in Types /\ i \in 1 .. Len(list) /\ list' = list /\ cat' = cat /\ r' = r
    BY <1>1, <1>3, Listing DEF Pick, it, inputs
  <2>3. \A t \in Types : cat[t].price[kind] \in Nat
    BY Priced DEF TypeOK
  <2>4. \A n \in Seen' : n \in Seen \/ n = i
    BY <2>1, Listing DEF Seen
  <2>5. CASE it \in Compat /\ Cheaper
    <3>1. best' = it /\ it # NoType
      BY <1>3, <2>2, <2>5, NoTypeAssumption DEF Pick, Fits, Compat
    <3>2. \A n \in Seen : list[n] \in Compat =>
            cat[it].price[kind] < cat[list[n]].price[kind]
      <4>1. CASE best = NoType
        BY <4>1, <2>1 DEF Picking
      <4>2. CASE best # NoType
        <5>1. best \in Types /\ \A n \in Seen : list[n] \in Types
          BY <4>2, Listing DEF TypeOK, Seen
        <5> QED BY <2>1, <2>2, <2>3, <2>5, <4>2, <5>1 DEF Picking, Cheaper
      <4> QED BY <4>1, <4>2
    <3>3. i \in Seen' /\ list[i] = it /\ 1 .. i - 1 = Seen
      BY <2>1, <2>2 DEF it, Seen
    <3>4. \A n \in Seen' : list[n] \in Compat =>
            cat[it].price[kind] <= cat[list[n]].price[kind]
      BY <2>2, <2>3, <2>4, <3>2, <3>3, Listing DEF Seen
    <3>5. \E n \in Seen' :
            /\ list[n] = it
            /\ \A m \in 1 .. n - 1 : list[m] \in Compat =>
                 cat[it].price[kind] < cat[list[m]].price[kind]
      BY <3>2, <3>3
    <3> QED BY <2>1, <2>2, <2>5, <3>1, <3>4, <3>5, <1>1 DEF Preferring, Picking, inputs
  <2>6. CASE ~(it \in Compat /\ Cheaper)
    <3>1. best' = best /\ Seen \subseteq Seen'
      BY <1>3, <2>1, <2>6, Listing DEF Pick, Fits, Compat, Seen
    <3>2. list[i] \in Compat =>
            best # NoType /\ cat[best].price[kind] <= cat[list[i]].price[kind]
      BY <2>2, <2>3, <2>6 DEF it, Cheaper, TypeOK
    <3> QED BY <2>1, <2>2, <2>4, <3>1, <3>2 DEF Preferring, Picking
  <2> QED BY <2>5, <2>6
<1>4. CASE Done
  BY <1>1, <1>4 DEF Done, Preferring, Picking, Seen, Compat, inputs, TypeOK
<1>5. CASE UNCHANGED vars
  BY <1>5 DEF vars, Preferring, Picking, Seen, Compat, inputs
<1> QED BY <1>2, <1>3, <1>4, <1>5 DEF Next

(* What each loop has found is right for the part of the list it has seen.  *)
THEOREM Inductive == Spec => []IInv
  BY IInvInit, IInvNext, PTL DEF Spec

(* The loops stay within the list and choose only from it.                  *)
THEOREM TypeCorrect == Spec => []TypeOK
<1>1. IInv => TypeOK
  BY DEF IInv
<1> QED BY <1>1, Inductive, PTL

------------------------------------------------------------------------------
(* Choosing the capacity type and the ServerClass by the two loops is       *)
(* choosing by ChosenKind and Picks.                                        *)
THEOREM LoopsPickRight == Spec => []PickedRight
<1>1. IInv => PickedRight
  <2> SUFFICES ASSUME IInv, pc = "done" PROVE PickedRight
    BY DEF PickedRight
  <2>1. kind = ChosenKind(cat, r) /\ Seen = 1 .. Len(list)
    BY Listing DEF IInv, Picking, Seen
  <2>2. Compat \subseteq Types
    BY RequirementsAssumption DEF Compat, Compatible, Requirement, IInv, TypeOK
  <2>3. CASE best = NoType
    <3>1. Compat = {}
      BY <2>1, <2>2, <2>3, Listing DEF IInv, Picking
    <3> QED BY <2>1, <2>3, <3>1 DEF PickedRight, Picks, Compat
  <2>4. CASE best # NoType
    <3>1. best \in Compat /\ \A t \in Compat : cat[best].price[kind] <= cat[t].price[kind]
      BY <2>1, <2>2, <2>4, Listing DEF IInv, Picking
    <3>2. best \in Picks(cat, r)
      BY <2>1, <3>1 DEF Picks, Compat
    <3> QED BY <2>1, <3>2 DEF PickedRight
  <2> QED BY <2>3, <2>4
<1> QED BY <1>1, Inductive, PTL

(* Of several cheapest ones the first in the list is picked.                *)
THEOREM LoopsPickEarliest == Spec => []EarliestPicked
<1>1. IInv => EarliestPicked
  <2> SUFFICES ASSUME IInv, pc = "done", best # NoType PROVE EarliestPicked
    BY DEF EarliestPicked
  <2>1. kind = ChosenKind(cat, r) /\ Seen = 1 .. Len(list) /\ best \in Compat
    BY Listing DEF IInv, Picking, Seen
  <2>2. PICK n \in 1 .. Len(list) :
          /\ list[n] = best
          /\ \A m \in 1 .. n - 1 : list[m] \in Compat =>
               cat[best].price[kind] < cat[list[m]].price[kind]
    BY <2>1 DEF IInv, Picking
  <2>3. ASSUME NEW m \in 1 .. n - 1, list[m] \in Picks(cat, r) PROVE FALSE
    <3>1. list[m] \in Compat /\ cat[list[m]].price[kind] <= cat[best].price[kind]
      BY <2>1, <2>3 DEF Picks, Compat
    <3>2. best \in Types /\ list[m] \in Types
      BY <2>2, Listing DEF IInv
    <3>3. cat[best].price[kind] \in Nat /\ cat[list[m]].price[kind] \in Nat
      BY <3>2, Priced DEF IInv, TypeOK
    <3> QED BY <2>2, <2>3, <3>1, <3>3
  <2> QED BY <2>2, <2>3 DEF EarliestPicked
<1> QED BY <1>1, Inductive, PTL
==============================================================================
