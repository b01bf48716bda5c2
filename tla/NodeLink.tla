------------------------------- MODULE NodeLink -------------------------------
(****************************************************************************)
(* The nodelink controller (src/pkg/controllers/nodelink/controller.go):    *)
(* when the server of a pool has joined the cluster as a Node, the ID the   *)
(* OpenStack cloud controller gives the Node replaces the synthetic one in  *)
(* the NodeClaim's status.providerID.                                       *)
(*                                                                          *)
(* Provisioning lets that happen at any time, by Relink. Here Nodes join,   *)
(* are named and go, their events fill the controller's queue, and its one  *)
(* worker reads a Node, reads a NodeClaim and patches it in three calls,    *)
(* between which everything else may happen. Provisioning's own properties  *)
(* carry over, because Spec of this module implies Spec of that one.        *)
(****************************************************************************)
EXTENDS Provisioning

VARIABLES
  node,    \* the Node of each server, and whether its server is still there
  queue,   \* the Nodes whose events the controller has not handled yet
  linker   \* its worker: the Node and the NodeClaim of the call it makes next

linkVars == <<node, queue, linker>>
allVars == <<vars, linkVars>>

(* A Node carries the labels Create gave its pool: the NodeClaim's name and *)
(* the capacity type. "named" has a spec.providerID. The kubelet of a dead  *)
(* one no longer reports; the Node itself stays until it is removed.        *)
Node == [state : {"joined", "named", "removed"}, claim : Claims, kind : Kinds,
         dead : BOOLEAN]

NoNode == [state |-> "none"]

Linker == [pc : {"claim", "patch"}, vm : VMs, claim : Claims]

LinkTypeOK ==
  /\ node \in [VMs -> Node \union {NoNode}]
  /\ queue \subseteq VMs
  /\ linker \in Linker \union {Idle}

InCluster(v) == node[v].state \in {"joined", "named"}

NodeOf(v, c) == InCluster(v) /\ node[v].claim = c

LinkInit ==
  /\ Init
  /\ node = [v \in VMs |-> NoNode]
  /\ queue = {}
  /\ linker = Idle

------------------------------------------------------------------------------
(* Nodes.                                                                   *)

(* A server that boots has a VM UUID no other ever had; which one matters   *)
(* to nobody.                                                               *)
NewVM == CHOOSE v \in VMs : node[v].state = "none"

(* The server attached to a pool boots and joins.                           *)
JoinNode(c, k, v) ==
  /\ pool[c][k].state = "attached"
  /\ node[v].state = "none" /\ v = NewVM
  /\ \A u \in VMs : NodeOf(u, c) /\ node[u].kind = k => node[u].dead
  /\ node' = [node EXCEPT ![v] =
               [state |-> "joined", claim |-> c, kind |-> k, dead |-> FALSE]]
  /\ queue' = queue \union {v}
  /\ UNCHANGED <<vars, linker>>

(* The OpenStack cloud controller sets the Node's spec.providerID.          *)
NameNode(v) ==
  /\ node[v].state = "joined" /\ ~node[v].dead
  /\ node' = [node EXCEPT ![v].state = "named"]
  /\ queue' = queue \union {v}
  /\ UNCHANGED <<vars, linker>>

(* The kubelet updates the Node's status, again and again.                  *)
Heartbeat(v) ==
  /\ InCluster(v) /\ ~node[v].dead /\ v \notin queue
  /\ queue' = queue \union {v}
  /\ UNCHANGED <<vars, node, linker>>

RemoveNode(v) ==
  /\ InCluster(v) /\ (node[v].dead \/ phase[node[v].claim] # "live")
  /\ node' = [node EXCEPT ![v].state = "removed"]
  /\ queue' = queue \union {v}
  /\ UNCHANGED <<vars, linker>>

(* Provisioning goes on, and the Nodes of servers that go with it die.      *)
Provision ==
  /\ Lifecycle
  /\ node' = [v \in VMs |->
               IF InCluster(v) /\ pool'[node[v].claim][node[v].kind].state # "attached"
               THEN [node[v] EXCEPT !.dead = TRUE] ELSE node[v]]
  /\ UNCHANGED <<queue, linker>>

------------------------------------------------------------------------------
(* Reconcile, one action per call.                                          *)

(* A controller that takes the link back when the Node is gone.             *)
LinkReadUnlinks(v) ==
  /\ linker = Idle /\ v \in queue
  /\ queue' = queue \ {v}
  /\ IF node[v].state = "named"
     THEN /\ linker' = [pc |-> "claim", vm |-> v, claim |-> node[v].claim]
          /\ UNCHANGED vars
     ELSE /\ providerID' = [c \in Claims |->
               IF node[v].state = "removed" /\ node[v].claim = c THEN NoID
                                                                 ELSE providerID[c]]
          /\ UNCHANGED <<linker, req, phase, launched, label, flavor, accepted,
                         catalog, worker, pool, wire>>
  /\ UNCHANGED node

(* A controller that does not wait for the cloud controller and makes the   *)
(* ID itself, of the VM UUID the kubelet reports.                           *)
LinkReadUnnamed(v) ==
  /\ linker = Idle /\ v \in queue
  /\ queue' = queue \ {v}
  /\ linker' = IF InCluster(v)
               THEN [pc |-> "claim", vm |-> v, claim |-> node[v].claim]
               ELSE linker
  /\ UNCHANGED <<vars, node>>

(* The Node is read. One that is gone or has no providerID yet is left to   *)
(* its next event.                                                          *)
LinkRead(v) ==
  /\ linker = Idle /\ v \in queue
  /\ queue' = queue \ {v}
  /\ linker' = IF node[v].state = "named"
               THEN [pc |-> "claim", vm |-> v, claim |-> node[v].claim]
               ELSE linker
  /\ UNCHANGED <<vars, node>>

(* A controller that fills in an ID but never replaces one.                 *)
LinkClaimOnce ==
  LET c == linker.claim IN
  /\ linker.pc = "claim"
  /\ linker' = IF phase[c] = "gone" \/ providerID[c] # NoID
               THEN Idle ELSE [linker EXCEPT !.pc = "patch"]
  /\ UNCHANGED <<vars, node, queue>>

(* The NodeClaim is read. There is nothing to do if it is gone or has the   *)
(* Node's ID.                                                               *)
LinkClaim ==
  LET c == linker.claim IN
  /\ linker.pc = "claim"
  /\ linker' = IF phase[c] = "gone" \/ providerID[c] = VMID(linker.vm)
               THEN Idle ELSE [linker EXCEPT !.pc = "patch"]
  /\ UNCHANGED <<vars, node, queue>>

(* The patch sets status.providerID, whatever it has become meanwhile.      *)
LinkPatch ==
  /\ linker.pc = "patch"
  /\ Relink(linker.claim, linker.vm)
  /\ linker' = Idle
  /\ UNCHANGED <<node, queue>>

(* A call fails, or the NodeClaim is gone when it is patched: the Node goes *)
(* back to the queue.                                                       *)
LinkFails ==
  /\ linker # Idle
  /\ queue' = queue \union {linker.vm}
  /\ linker' = Idle
  /\ UNCHANGED <<vars, node>>

(* The process ends and starts again, and finds every Node anew.            *)
Reboot ==
  /\ Restart \/ (linker # Idle /\ UNCHANGED vars)
  /\ linker' = Idle
  /\ queue' = {v \in VMs : InCluster(v)}
  /\ UNCHANGED node

------------------------------------------------------------------------------
LinkStep == (\E v \in VMs : LinkRead(v)) \/ LinkClaim \/ LinkPatch \/ LinkFails

LinkNext ==
  \/ Provision \/ Reboot
  \/ \E c \in Claims, k \in Kinds, v \in VMs : JoinNode(c, k, v)
  \/ \E v \in VMs : NameNode(v) \/ Heartbeat(v) \/ RemoveNode(v)
  \/ LinkStep

LinkSpec == LinkInit /\ [][LinkNext]_allVars

(* A live kubelet reports again and again, the worker does not stop, and a  *)
(* call made again and again does not fail every time.                      *)
LinkFairness ==
  /\ \A v \in VMs : WF_allVars(Heartbeat(v)) /\ SF_allVars(LinkRead(v))
  /\ WF_allVars(LinkStep) /\ SF_allVars(LinkClaim) /\ SF_allVars(LinkPatch)

FairLinkSpec == LinkSpec /\ LinkFairness

------------------------------------------------------------------------------
(* A NodeClaim is only ever given the ID of a Node that was its own and no  *)
(* longer waits for its ID, whatever the Nodes and NodeClaims did between   *)
(* the three calls: an ID no Node has would keep it from being registered.  *)
OwnNode(c, v) == node[v].state \in {"named", "removed"} /\ node[v].claim = c

LinkedToOwnNode ==
  \A c \in Claims, v \in VMs : providerID[c] = VMID(v) => OwnNode(c, v)

(* Once a NodeClaim is Launched and has the ID of a Node, it never goes     *)
(* back to a synthetic one: no attempt is left that could patch over it.    *)
LinkStays ==
  [][\A c \in Claims :
       launched[c] /\ providerID[c] \in VMIDs => providerID'[c] \in VMIDs]_allVars

(* What nodelink does is what Provisioning foresaw.                         *)
ImplementsProvisioning == Spec

(* A Launched NodeClaim with one Node in the cluster, alive and named, gets *)
(* its ID in the end, although an attempt that was under way may have       *)
(* patched over the link and no event of the NodeClaim is watched.          *)
OnlyNode(c, v) ==
  /\ NodeOf(v, c) /\ node[v].state = "named" /\ ~node[v].dead
  /\ \A u \in VMs : NodeOf(u, c) => u = v

EventuallyLinked ==
  \A c \in Claims, v \in VMs :
    (launched[c] /\ phase[c] # "gone" /\ OnlyNode(c, v))
      ~> (providerID[c] = VMID(v) \/ phase[c] = "gone" \/ ~OnlyNode(c, v))
==============================================================================
