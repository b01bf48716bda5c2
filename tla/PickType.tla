------------------------------- MODULE PickType -------------------------------
(****************************************************************************)
(* pickInstanceType and preferSpot (src/pkg/cloudprovider/cloudprovider.go) *)
(* as they are written: two loops over the list in the order Rackspace gave *)
(* it. The other modules use their outcome, ChosenKind and Picks of         *)
(* Offerings; here the loops are shown to have it.                          *)
(****************************************************************************)
EXTENDS Offerings

CONSTANTS
  Requirements,  \* the requirements a NodeClaim may carry
  Orders         \* the orders Rackspace may list the ServerClasses in

ASSUME RequirementsAssumption == Requirements \subseteq Requirement

ASSUME OrdersAssumption == \A o \in Orders : o \in Seq(Types) /\ Range(o) = Types

VARIABLES
  cat,   \* the ServerClasses
  list,  \* their order
  r,     \* the NodeClaim's requirements
  pc,    \* the loop: "prefer", "pick" or "done"
  i,     \* the index of the loop
  kind,  \* capacityType
  best   \* the best type so far, NoType at first

inputs == <<cat, list, r>>
vars == <<inputs, pc, i, kind, best>>

NoType == "no type"

ASSUME NoTypeAssumption == NoType \notin Types

TypeOK ==
  /\ cat \in Catalogs /\ list \in Orders /\ r \in Requirements
  /\ pc \in {"prefer", "pick", "done"}
  /\ i \in 1 .. Len(list) + 1
  /\ kind \in Kinds
  /\ best \in Types \union {NoType}

Init ==
  /\ cat \in Catalogs /\ list \in Orders /\ r \in Requirements
  /\ pc = "prefer"
  /\ i = 1
  /\ kind = "on-demand"
  /\ best = NoType

------------------------------------------------------------------------------
(* The class the loop has come to. *)
it == list[i]

Fits(k) == it \in Compatible(cat, r, k)

(* A later type of the same price takes the place of an earlier one.        *)
CheaperOrEqual == best = NoType \/ cat[it].price[kind] <= cat[best].price[kind]

(* Prices of the wrong capacity type are compared.                          *)
CheaperOnDemand ==
  best = NoType \/ cat[it].price["on-demand"] < cat[best].price["on-demand"]

(* The first type that fits, and then any that is strictly cheaper.         *)
Cheaper == best = NoType \/ cat[it].price[kind] < cat[best].price[kind]

(* preferSpot: is there a spot offering at all?                             *)
Prefer ==
  /\ pc = "prefer"
  /\ IF Permits(r, "spot") /\ i <= Len(list)
     THEN IF Fits("spot")
          THEN kind' = "spot" /\ pc' = "pick" /\ i' = 1
          ELSE i' = i + 1 /\ UNCHANGED <<kind, pc>>
     ELSE pc' = "pick" /\ i' = 1 /\ UNCHANGED kind
  /\ UNCHANGED <<inputs, best>>

(* The cheapest of the types that fit.                                      *)
Pick ==
  /\ pc = "pick" /\ i <= Len(list)
  /\ best' = IF Fits(kind) /\ Cheaper THEN it ELSE best
  /\ i' = i + 1
  /\ UNCHANGED <<inputs, pc, kind>>

Done ==
  /\ pc = "pick" /\ i > Len(list)
  /\ pc' = "done"
  /\ UNCHANGED <<inputs, i, kind, best>>

Next == Prefer \/ Pick \/ Done

Spec == Init /\ [][Next]_vars

------------------------------------------------------------------------------
(* The loops end with the capacity type ChosenKind names and with one of    *)
(* the types of Picks, or with none, which is an error, if there are none.  *)
PickedRight ==
  pc = "done" =>
    /\ kind = ChosenKind(cat, r)
    /\ IF Picks(cat, r) = {} THEN best = NoType ELSE best \in Picks(cat, r)

(* Among equally cheap types the one Rackspace lists first is launched, so  *)
(* that two attempts over one list agree.                                   *)
EarliestPicked ==
  pc = "done" /\ best # NoType =>
    \E n \in 1 .. Len(list) :
      list[n] = best /\ \A m \in 1 .. n - 1 : list[m] \notin Picks(cat, r)
==============================================================================
