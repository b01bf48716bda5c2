--------------------------- MODULE MCNodeClassStatus ---------------------------
(****************************************************************************)
(* NodeClassStatus for TLC: one class that comes and goes, so that the list *)
(* is empty at times, and no reports, which MCCapacity has.                 *)
(****************************************************************************)
EXTENDS NodeClassStatus

MCClasses == {"a"}

MCSold == [t \in MCClasses |-> [memory |-> 8192, disk |-> 81920]]

MCOffers == {{}, MCClasses}

MCWants == {All, "a"}
==============================================================================
