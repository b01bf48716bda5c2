------------------------------ MODULE Documented ------------------------------
(****************************************************************************)
(* What the README and the comments say of every NodeClaim, where the code  *)
(* holds to it only under a condition: Provisioning states the conditional  *)
(* properties, and the runs over this module show what happens without the  *)
(* condition.                                                               *)
(****************************************************************************)
EXTENDS Provisioning

(* README.md: "1 Rackspace pool per NodeClaim". The pool name only keeps    *)
(* Create idempotent within one capacity type: an attempt that picks the    *)
(* other one meets no pool of that kind and makes a second.                 *)
OnePoolPerNodeClaim ==
  \A c \in Claims : \A k1, k2 \in Kinds : Exists(c, k1) /\ Exists(c, k2) => k1 = k2

(* README.md: at the launch timeout the NodeClaim is deleted and "the pool  *)
(* is cleaned up". An attempt that makes a pool and fails before hydrate    *)
(* stamps no label, and Delete then goes by the first value of the          *)
(* requirement, which need not be the capacity type that was chosen.        *)
PoolCleanedUp ==
  \A c \in Claims : phase[c] = "gone" /\ StableKind(req[c]) =>
    \A k \in Kinds : Exists(c, k) => pool[c][k].origin = "posthumous"

(* The instancetype.capacity controller takes the NodeClaim's label for the *)
(* ServerClass of the node that booted. An attempt that picks another class *)
(* and finds the pool in flight stamps the class it picked, not the pool's. *)
FlavorIsPoolClass ==
  \A c \in Claims, k \in Kinds :
    launched[c] /\ label[c] = k /\ pool[c][k].origin = "attempt"
      => flavor[c] = pool[c][k].class
==============================================================================
