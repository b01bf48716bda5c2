------------------------------ MODULE Offerings ------------------------------
(****************************************************************************)
(* How CloudProvider.Create chooses what to launch: the capacity type and   *)
(* the ServerClass (src/pkg/cloudprovider/cloudprovider.go, pickInstanceType *)
(* and preferSpot), over the offerings instancetype.translate publishes.    *)
(* The module has no state: it is shared by every module that launches.     *)
(*                                                                          *)
(* A Cloudspace has one region, which is also its one zone, and every       *)
(* ServerClass is amd64/linux, so of a NodeClaim's requirements only the    *)
(* instance types and the capacity type can tell two offerings apart.       *)
(****************************************************************************)
EXTENDS Naturals, Sequences, Functions

CONSTANTS
  Types,    \* the ServerClasses of the region
  Catalogs  \* the ServerClass lists a refresh of the cache may bring

Kinds == {"spot", "on-demand"}

(* A ServerClass as translate sees it: an hourly price for each capacity    *)
(* type, where 0 is a price that is missing or does not parse, and whether  *)
(* the class is available.                                                  *)
ServerClass == [price : [Kinds -> Nat], available : BOOLEAN]

Catalog == [Types -> ServerClass]

(* The requirements of a NodeClaim: the instance types it allows and its    *)
(* capacity-type requirement, an operator and a list of values in the order *)
(* the NodeClaim spells them. "Exists" with no values stands for a          *)
(* NodeClaim without a capacity-type requirement as well.                   *)
Requirement ==
  [types : SUBSET Types, op : {"In", "NotIn", "Exists"}, values : Seq(Kinds)]

ASSUME CatalogsAssumption == Catalogs \subseteq Catalog

------------------------------------------------------------------------------
(* translate drops the offering of a capacity type with no price and marks  *)
(* the others available or not with their class.                            *)
Offered(cat, t, k) == cat[t].available /\ cat[t].price[k] > 0

Permits(r, k) ==
  \/ r.op = "Exists"
  \/ r.op = "In" /\ k \in Range(r.values)
  \/ r.op = "NotIn" /\ k \notin Range(r.values)

(* The instance types that satisfy r once it is constrained to capacity     *)
(* type k and that have an available offering of that type: none when r     *)
(* excludes k, because the constrained requirement is then empty.           *)
Compatible(cat, r, k) ==
  {t \in r.types : Permits(r, k) /\ Offered(cat, t, k)}

preferSpot(cat, r) == Permits(r, "spot") /\ Compatible(cat, r, "spot") # {}

ChosenKind(cat, r) == IF preferSpot(cat, r) THEN "spot" ELSE "on-demand"

(* A slip in the constrained requirement: the capacity type is looked up in *)
(* the offerings but no longer intersected with the NodeClaim's own.        *)
PicksUnconstrained(cat, r) ==
  LET k == ChosenKind(cat, r)
  IN  {t \in r.types : Offered(cat, t, k)}

(* pickInstanceType: a cheapest compatible type at the price of the chosen  *)
(* capacity type. Which of several equally cheap ones depends on the order  *)
(* of the list Rackspace returned.                                          *)
Picks(cat, r) ==
  LET k == ChosenKind(cat, r)
      S == Compatible(cat, r, k)
  IN  {t \in S : \A u \in S : cat[t].price[k] <= cat[u].price[k]}

(* requirementValue: the first value of the capacity-type requirement, "" if *)
(* it has none. The operator is not looked at.                              *)
requirementValue(r) == IF r.values = <<>> THEN "" ELSE r.values[1]

------------------------------------------------------------------------------
(* The capacity types the catalogs can make Create choose for r. A          *)
(* requirement whose choice cannot change from one attempt to the next is   *)
(* stable.                                                                  *)
KindsOf(r) == {ChosenKind(cat, r) : cat \in {x \in Catalogs : Picks(x, r) # {}}}

StableKind(r) == \A k1, k2 \in KindsOf(r) : k1 = k2
==============================================================================
