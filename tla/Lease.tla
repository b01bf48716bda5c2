-------------------------------- MODULE Lease --------------------------------
(****************************************************************************)
(* What the provider promises karpenter of a NodeClaim, without attempts,   *)
(* labels, lists or requests: there is one server at a time, or the pool    *)
(* that waits for it, and none once the NodeClaim is gone. Provisioning     *)
(* implements it for the NodeClaims whose pool Delete always finds.         *)
(****************************************************************************)
CONSTANT Claims

VARIABLES
  standing,  \* how far each NodeClaim is in its life
  server,    \* the one pool of each, and its server
  told       \* karpenter is about to hear that the server is there

leaseVars == <<standing, server, told>>

LeaseTypeOK ==
  /\ standing \in [Claims -> {"wanted", "launched", "ending", "released", "gone"}]
  /\ server \in [Claims -> {"none", "awaiting", "attached", "lost"}]
  /\ told \in [Claims -> BOOLEAN]

Init ==
  /\ standing = [c \in Claims |-> "wanted"]
  /\ server = [c \in Claims |-> "none"]
  /\ told = [c \in Claims |-> FALSE]

------------------------------------------------------------------------------
(* A pool is asked for and made, however often and however late it was      *)
(* asked for, until the NodeClaim is released: never a second one, and      *)
(* never afresh.                                                            *)
Request(c) ==
  /\ standing[c] \in {"wanted", "launched", "ending"} /\ server[c] = "none"
  /\ server' = [server EXCEPT ![c] = "awaiting"]
  /\ UNCHANGED <<standing, told>>

(* Rackspace attaches a server and takes it away.                           *)
Attach(c) ==
  /\ server[c] \in {"awaiting", "lost"}
  /\ server' = [server EXCEPT ![c] = "attached"]
  /\ UNCHANGED <<standing, told>>

Lose(c) ==
  /\ server[c] = "attached"
  /\ server' = [server EXCEPT ![c] = "lost"]
  /\ UNCHANGED <<standing, told>>

(* The pool goes, by a Delete karpenter does not know succeeded or from     *)
(* outside.                                                                 *)
Drop(c) ==
  /\ server[c] # "none"
  /\ server' = [server EXCEPT ![c] = "none"]
  /\ UNCHANGED <<standing, told>>

(* Only a server that is there is heard of, and only one that was heard of  *)
(* launches the NodeClaim.                                                  *)
Observe(c) ==
  /\ server[c] = "attached"
  /\ told' = [told EXCEPT ![c] = TRUE]
  /\ UNCHANGED <<standing, server>>

Launch(c) ==
  /\ told[c]
  /\ told' = [told EXCEPT ![c] = FALSE]
  /\ standing' = [standing EXCEPT ![c] = IF @ = "wanted" THEN "launched" ELSE @]
  /\ UNCHANGED server

(* Attempts fail, one or all of them at once.                               *)
Overlook ==
  /\ \E S \in SUBSET Claims : told' = [c \in Claims |-> told[c] /\ c \notin S]
  /\ UNCHANGED <<standing, server>>

(* The end: the server is released before the NodeClaim goes.               *)
End(c) ==
  /\ standing[c] \in {"wanted", "launched"}
  /\ standing' = [standing EXCEPT ![c] = "ending"]
  /\ UNCHANGED <<server, told>>

Release(c) ==
  /\ standing[c] = "ending" /\ server[c] # "none" /\ ~told[c]
  /\ standing' = [standing EXCEPT ![c] = "released"]
  /\ server' = [server EXCEPT ![c] = "none"]
  /\ UNCHANGED told

Go(c) ==
  /\ standing[c] \in {"ending", "released"} /\ server[c] = "none" /\ ~told[c]
  /\ standing' = [standing EXCEPT ![c] = "gone"]
  /\ UNCHANGED <<server, told>>

------------------------------------------------------------------------------
Next ==
  \/ \E c \in Claims :
       \/ Request(c) \/ Attach(c) \/ Lose(c) \/ Drop(c)
       \/ Observe(c) \/ Launch(c)
       \/ End(c) \/ Release(c) \/ Go(c)
  \/ Overlook

Spec == Init /\ [][Next]_leaseVars
==============================================================================
