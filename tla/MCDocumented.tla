----------------------------- MODULE MCDocumented -----------------------------
(* Documented for TLC, with the constants of MCProvisioning.                *)
EXTENDS Documented, MCProvisioning
==============================================================================
