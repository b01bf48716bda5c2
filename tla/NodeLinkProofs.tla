---------------------------- MODULE NodeLinkProofs ----------------------------
(****************************************************************************)
(* NodeLink, for every set of NodeClaims and servers: it implements         *)
(* Provisioning, and its own safety properties hold.                        *)
(****************************************************************************)
EXTENDS NodeLink, ProvisioningProofs

------------------------------------------------------------------------------
LEMMA IDsDiffer ==
  ASSUME NEW v
  PROVE  /\ VMID(v) # NoID
         /\ \A k, c : VMID(v) # PoolID(k, c)
         /\ \A u : VMID(u) = VMID(v) => u = v
  BY DEF VMID, NoID, PoolID

LEMMA LinkTypeInit == LinkInit => LinkTypeOK
  BY DEF LinkInit, LinkTypeOK

LEMMA LinkTypeNext == LinkTypeOK /\ [LinkNext]_allVars => LinkTypeOK'
<1> SUFFICES ASSUME LinkTypeOK, [LinkNext]_allVars PROVE LinkTypeOK'
  OBVIOUS
<1> USE DEF LinkTypeOK
<1>1. \A v \in VMs : InCluster(v) => node[v] \in Node
  BY DEF InCluster, NoNode
<1>2. CASE Provision
  <2>1. \A v \in VMs : InCluster(v) => [node[v] EXCEPT !.dead = TRUE] \in Node
    BY <1>1 DEF Node
  <2> QED BY <1>2, <2>1 DEF Provision
<1>3. CASE Reboot
  BY <1>3 DEF Reboot
<1>4. ASSUME NEW c \in Claims, NEW k \in Kinds, NEW v \in VMs, JoinNode(c, k, v)
      PROVE  LinkTypeOK'
  BY <1>4 DEF JoinNode, Node
<1>5. ASSUME NEW v \in VMs, NameNode(v) PROVE LinkTypeOK'
  <2>1. [node[v] EXCEPT !.state = "named"] \in Node
    BY <1>1, <1>5 DEF NameNode, InCluster, Node
  <2> QED BY <1>5, <2>1 DEF NameNode
<1>6. ASSUME NEW v \in VMs, Heartbeat(v) PROVE LinkTypeOK'
  BY <1>6 DEF Heartbeat
<1>7. ASSUME NEW v \in VMs, RemoveNode(v) PROVE LinkTypeOK'
  <2>1. [node[v] EXCEPT !.state = "removed"] \in Node
    BY <1>1, <1>7 DEF RemoveNode, InCluster, Node
  <2> QED BY <1>7, <2>1 DEF RemoveNode
<1>8. ASSUME NEW v \in VMs, LinkRead(v) PROVE LinkTypeOK'
  <2>1. node[v].state = "named" => node[v].claim \in Claims
    BY <1>1 DEF InCluster, Node
  <2> QED BY <1>8, <2>1 DEF LinkRead, Linker
<1>9. CASE LinkClaim
  <2>1. linker \in Linker
    BY <1>9 DEF LinkClaim, Idle
  <2> QED BY <1>9, <2>1 DEF LinkClaim, Linker
<1>10. CASE LinkPatch
  BY <1>10 DEF LinkPatch
<1>11. CASE LinkFails
  <2>1. linker.vm \in VMs
    BY <1>11 DEF LinkFails, Linker
  <2> QED BY <1>11, <2>1 DEF LinkFails
<1>12. CASE UNCHANGED allVars
  BY <1>12 DEF allVars, linkVars
<1> QED
  BY <1>2, <1>3, <1>4, <1>5, <1>6, <1>7, <1>8, <1>9, <1>10, <1>11, <1>12
     DEF LinkNext, LinkStep

(* Nodes, the queue and the worker have their types.                        *)
THEOREM LinkTypeCorrect == LinkSpec => []LinkTypeOK
  BY LinkTypeInit, LinkTypeNext, PTL DEF LinkSpec

------------------------------------------------------------------------------
(* Refinement.                                                              *)

(* A step of NodeLink is a step of Provisioning or leaves its state alone:  *)
(* the only one of the controller's that changes it is Relink.              *)
LEMMA StepMaps ==
  ASSUME LinkTypeOK, [LinkNext]_allVars
  PROVE  [Next]_vars
<1>1. CASE Provision
  BY <1>1 DEF Provision, Next
<1>2. CASE Reboot
  BY <1>2 DEF Reboot, Next
<1>3. CASE LinkPatch
  <2>1. linker.claim \in Claims /\ linker.vm \in VMs
    BY <1>3 DEF LinkPatch, LinkTypeOK, Linker, Idle
  <2> QED BY <1>3, <2>1 DEF LinkPatch, Next
<1>4. CASE UNCHANGED vars
  BY <1>4
<1> QED
  BY <1>1, <1>2, <1>3, <1>4
     DEF LinkNext, LinkStep, JoinNode, NameNode, Heartbeat, RemoveNode,
         LinkRead, LinkClaim, LinkFails, allVars

(* With nodelink as it is, a NodeClaim lives as Provisioning says.          *)
THEOREM Implements == LinkSpec => ImplementsProvisioning
<1>1. LinkInit => Init
  BY DEF LinkInit
<1> QED
  BY <1>1, StepMaps, LinkTypeCorrect, PTL DEF LinkSpec, Spec, ImplementsProvisioning

------------------------------------------------------------------------------
(* The Node the worker has read was, and is for good, a Node of the         *)
(* NodeClaim it will patch.                                                 *)
LinkInv ==
  /\ LinkTypeOK
  /\ linker.pc # "idle" => OwnNode(linker.claim, linker.vm)
  /\ LinkedToOwnNode

(* A Node that has joined keeps its NodeClaim, even when it is removed.     *)
LEMMA NodeKept ==
  ASSUME LinkTypeOK, [LinkNext]_allVars, NEW c \in Claims, NEW v \in VMs, OwnNode(c, v)
  PROVE  OwnNode(c, v)'
<1>1. node[v] \in Node
  BY DEF LinkTypeOK, OwnNode, NoNode
<1>2. ASSUME NEW u \in VMs, NameNode(u) \/ RemoveNode(u) PROVE OwnNode(c, v)'
  BY <1>1, <1>2 DEF NameNode, RemoveNode, OwnNode, Node, LinkTypeOK
<1>3. ASSUME NEW d \in Claims, NEW k \in Kinds, NEW u \in VMs, JoinNode(d, k, u)
      PROVE  OwnNode(c, v)'
  BY <1>3 DEF JoinNode, OwnNode, LinkTypeOK
<1>4. CASE Provision
  BY <1>1, <1>4 DEF Provision, OwnNode, Node
<1>5. CASE UNCHANGED node
  BY <1>5 DEF OwnNode
<1> QED
  BY <1>2, <1>3, <1>4, <1>5
     DEF LinkNext, LinkStep, Reboot, Heartbeat, LinkRead, LinkClaim, LinkPatch,
         LinkFails, allVars, linkVars

(* status.providerID comes from an attempt's patch or from nodelink's.      *)
LEMMA IDChanges ==
  ASSUME TypeOK, LinkTypeOK, [LinkNext]_allVars, NEW c \in Claims
  PROVE  \/ providerID'[c] = providerID[c]
         \/ worker[c].pc = "patch" /\ \E k : providerID'[c] = PoolID(k, c)
         \/ linker.pc = "patch" /\ linker.claim = c /\ providerID'[c] = VMID(linker.vm)
<1>1. ASSUME NEW d \in Claims, Patch(d)
      PROVE  \/ providerID'[c] = providerID[c]
             \/ worker[c].pc = "patch" /\ \E k : providerID'[c] = PoolID(k, c)
  BY <1>1 DEF Patch, hydrate, TypeOK
<1>2. CASE LinkPatch
  BY <1>2 DEF LinkPatch, Relink, TypeOK
<1>3. CASE UNCHANGED providerID
  BY <1>3
<1> QED
  BY <1>1, <1>2, <1>3
     DEF LinkNext, LinkStep, Provision, Reboot, JoinNode, NameNode, Heartbeat,
         RemoveNode, LinkRead, LinkClaim, LinkFails, Lifecycle, CreateStep,
         DeleteStep, PoolStep, StartCreate, CreatePool, AbandonCreate, GetPool,
         CheckAssigned, StepFails, Restart, MarkDeleted, DeleteAccepted,
         DeleteReplyLost, DeleteNotFound, ConfirmGone, RefreshCatalog,
         AttachServer, LoseServer, DropPool, DeliverLate, LoseLate, vars,
         claimVars, allVars

LEMMA LinkInvInit == LinkInit => LinkInv
<1> SUFFICES ASSUME LinkInit PROVE LinkInv
  OBVIOUS
<1>1. \A c \in Claims, v \in VMs : providerID[c] # VMID(v)
  BY IDsDiffer DEF LinkInit, Init
<1> QED BY <1>1, LinkTypeInit DEF LinkInit, LinkInv, LinkedToOwnNode, Idle

LEMMA LinkInvNext == TypeOK /\ LinkInv /\ [LinkNext]_allVars => LinkInv'
<1> SUFFICES ASSUME TypeOK, LinkInv, [LinkNext]_allVars PROVE LinkInv'
  OBVIOUS
<1>1. LinkTypeOK /\ LinkTypeOK'
  BY LinkTypeNext DEF LinkInv
<1>2. ASSUME linker'.pc # "idle" PROVE OwnNode(linker.claim, linker.vm)'
  <2>1. PICK c \in Claims, v \in VMs : linker'.claim = c /\ linker'.vm = v
    BY <1>1, <1>2 DEF LinkTypeOK, Linker, Idle
  <2>2. \/ linker.pc # "idle" /\ linker.claim = c /\ linker.vm = v
        \/ OwnNode(c, v)
    <3>1. ASSUME NEW u \in VMs, LinkRead(u) PROVE OwnNode(c, v)
      BY <1>2, <2>1, <3>1 DEF LinkRead, OwnNode, Idle
    <3>2. CASE LinkClaim
      BY <1>1, <1>2, <2>1, <3>2 DEF LinkClaim, LinkTypeOK, Linker, Idle
    <3>3. CASE UNCHANGED linker
      BY <1>2, <2>1, <3>3
    <3>4. CASE linker' = Idle
      BY <1>2, <3>4 DEF Idle
    <3> QED
      BY <3>1, <3>2, <3>3, <3>4
         DEF LinkNext, LinkStep, Provision, Reboot, JoinNode, NameNode,
             Heartbeat, RemoveNode, LinkPatch, LinkFails, allVars, linkVars
  <2>3. OwnNode(c, v)
    BY <2>2 DEF LinkInv
  <2>4. OwnNode(c, v)'
    BY <1>1, <2>3, NodeKept
  <2> QED BY <2>1, <2>4 DEF OwnNode
<1>3. ASSUME NEW c \in Claims, NEW v \in VMs, providerID'[c] = VMID(v)
      PROVE  OwnNode(c, v)'
  <2>1. CASE providerID[c] = VMID(v)
    BY <1>1, <2>1, NodeKept DEF LinkInv, LinkedToOwnNode, OwnNode
  <2>2. CASE linker.pc = "patch" /\ linker.claim = c /\ VMID(v) = VMID(linker.vm)
    BY <1>1, <2>2, NodeKept, IDsDiffer DEF LinkInv
  <2> QED BY <1>1, <1>3, <2>1, <2>2, IDChanges, IDsDiffer
<1> QED BY <1>1, <1>2, <1>3 DEF LinkInv, LinkedToOwnNode, OwnNode

(* A NodeClaim gets no other NodeClaim's Node.                              *)
THEOREM OnlyOwnNodes == LinkSpec => []LinkedToOwnNode
<1>1. LinkInv => LinkedToOwnNode
  BY DEF LinkInv
<1> QED
  BY <1>1, LinkInvInit, LinkInvNext, Implements, TypeCorrect, PTL
     DEF LinkSpec, ImplementsProvisioning

(* A Launched NodeClaim keeps the ID of a Node.                             *)
THEOREM LinkKept == LinkSpec => LinkStays
<1>1. IInv /\ LinkTypeOK /\ [LinkNext]_allVars =>
        [\A c \in Claims :
           launched[c] /\ providerID[c] \in VMIDs => providerID'[c] \in VMIDs]_allVars
  <2> SUFFICES ASSUME IInv, LinkTypeOK, [LinkNext]_allVars, NEW c \in Claims,
                      launched[c], providerID[c] \in VMIDs
               PROVE  providerID'[c] \in VMIDs
    OBVIOUS
  <2>1. worker[c].pc = "idle"
    BY DEF IInv, Exclusive
  <2>2. linker.pc = "patch" => VMID(linker.vm) \in VMIDs
    BY DEF LinkTypeOK, Linker, Idle, VMIDs
  <2> QED BY <2>1, <2>2, IDChanges DEF IInv
<1> QED
  BY <1>1, Inductive, Implements, LinkTypeCorrect, PTL
     DEF LinkSpec, LinkStays, ImplementsProvisioning

(* Nothing is orphaned with nodelink as it is, either.                      *)
THEOREM NothingOrphanedByLinking == LinkSpec => []NoOrphan
  BY NothingOrphaned, Implements, PTL DEF ImplementsProvisioning

(* Nor is any other promise of the lifecycle broken by it: Delete's, one    *)
(* pool of a kind that is permitted, Launched on a server, no progress lost *)
(* in a retry.                                                              *)
THEOREM SafeByLinking ==
  LinkSpec => /\ [](TargetGone /\ OnePool /\ KindPermitted /\ LaunchedHasServer)
              /\ RetryKeepsProgress
  BY TargetAlwaysGone, Idempotent, OnlyPermitted, LaunchedOnServer, ProgressKept,
     Implements, PTL DEF ImplementsProvisioning

(* The two refinements compose: with nodelink rewriting provider IDs as its *)
(* code does, a NodeClaim's life is still a Lease.                          *)
THEOREM LeaseByLinking == LinkSpec => ImplementsLease
  BY LeaseImplemented, Implements, PTL DEF ImplementsProvisioning
==============================================================================
