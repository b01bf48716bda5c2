------------------------------ MODULE MCCapacity ------------------------------
(****************************************************************************)
(* Capacity for TLC: two Nodes of different capacity, one of which does not *)
(* report its disk.                                                         *)
(****************************************************************************)
EXTENDS Capacity

MCClasses == {"a"}

Size(memory, disk) == [memory |-> memory, disk |-> disk]

(* The disk sold is smaller than the floor that a failed lookup falls to.   *)
MCSold == [t \in MCClasses |-> Size(4096, 20480)]

MCOffers == {MCClasses}

MCWants == {All}

MCNodes == {"n1", "n2"}

MCReported == [n \in MCNodes |-> IF n = "n1" THEN Size(4000, 0) ELSE Size(3900, 19800)]
==============================================================================
