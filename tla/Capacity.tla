------------------------------- MODULE Capacity -------------------------------
(****************************************************************************)
(* The instancetype.capacity controller                                     *)
(* (src/pkg/controllers/instancetypecapacity/controller.go): what a Node    *)
(* reports of its capacity is recorded for the ServerClass in the label of  *)
(* its NodeClaim, and replaces the estimate karpenter is told.              *)
(*                                                                          *)
(* The records are in memory and rebuilt from the Nodes whenever the        *)
(* process starts. Nothing watches the NodeClaim: a Node whose NodeClaim    *)
(* has no label yet, or has its label changed by a later attempt to create  *)
(* it, is taken in with the Node's next event.                              *)
(****************************************************************************)
EXTENDS InstanceTypes

CONSTANTS
  Nodes,   \* the Nodes of this provider
  Reported \* the capacity of each as its kubelet reports it, 0 where it is not

ASSUME ReportedAssumption == Reported \in [Nodes -> Sizes]

VARIABLES
  node,   \* whether each Node has joined, has reported, was removed
  label,  \* the instance-type label of its NodeClaim
  queue,  \* the Nodes whose events have not been handled
  worker  \* the controller: the Node it has read, and the class it found

nodeVars == <<node, label>>
controllerVars == <<queue, worker>>
allVars == <<typeVars, nodeVars, controllerVars>>

NoLabel == "no label"
NoClaim == "no NodeClaim"

Idle == [pc |-> "idle"]

Worker == [pc : {"claim", "update"}, node : Nodes, class : Classes \union {NoLabel}]

CapacityTypeOK ==
  /\ TypeOK
  /\ node \in [Nodes -> {"none", "joined", "reported", "removed"}]
  /\ label \in [Nodes -> Classes \union {NoLabel, NoClaim}]
  /\ queue \subseteq Nodes
  /\ worker \in Worker \union {Idle}
  /\ worker.pc = "update" => worker.class \in Classes

CapacityInit ==
  /\ Init
  /\ node = [n \in Nodes |-> "none"]
  /\ label = [n \in Nodes |-> NoLabel]
  /\ queue = {} /\ worker = Idle

InCluster(n) == node[n] \in {"joined", "reported"}

------------------------------------------------------------------------------
(* Nodes and NodeClaims.                                                    *)

(* A Node joins, in the queue with its first event.                         *)
JoinNode(n) ==
  /\ node[n] = "none" /\ node' = [node EXCEPT ![n] = "joined"]
  /\ queue' = queue \union {n}
  /\ UNCHANGED <<typeVars, label, worker>>

(* Its kubelet reports the capacity.                                        *)
ReportNode(n) ==
  /\ node[n] = "joined" /\ node' = [node EXCEPT ![n] = "reported"]
  /\ queue' = queue \union {n}
  /\ UNCHANGED <<typeVars, label, worker>>

(* And its status, again and again.                                         *)
Heartbeat(n) ==
  /\ node[n] = "reported" /\ n \notin queue
  /\ queue' = queue \union {n}
  /\ UNCHANGED <<typeVars, nodeVars, worker>>

RemoveNode(n) ==
  /\ InCluster(n) /\ node' = [node EXCEPT ![n] = "removed"]
  /\ queue' = queue \union {n}
  /\ UNCHANGED <<typeVars, label, worker>>

(* An attempt to create the NodeClaim stamps the class it picked, which     *)
(* need not be the one an earlier attempt picked.                           *)
Stamp(n, t) ==
  /\ label[n] # NoClaim /\ label' = [label EXCEPT ![n] = t]
  /\ UNCHANGED <<typeVars, node, controllerVars>>

DeleteClaim(n) ==
  /\ label[n] # NoClaim /\ label' = [label EXCEPT ![n] = NoClaim]
  /\ UNCHANGED <<typeVars, node, controllerVars>>

------------------------------------------------------------------------------
(* Reconcile, one action per call.                                          *)

(* The Node is read. One that is gone or has no capacity is left alone.     *)
ReadNode(n) ==
  /\ worker = Idle /\ n \in queue
  /\ queue' = queue \ {n}
  /\ worker' = IF node[n] = "reported"
               THEN [pc |-> "claim", node |-> n, class |-> NoLabel] ELSE Idle
  /\ UNCHANGED <<typeVars, nodeVars>>

(* The NodeClaim is read. One that is gone, or has no label, is not an      *)
(* error.                                                                   *)
ReadClaim ==
  /\ worker.pc = "claim"
  /\ worker' = IF label[worker.node] \in Classes
               THEN [worker EXCEPT !.pc = "update", !.class = label[worker.node]]
               ELSE Idle
  /\ UNCHANGED <<typeVars, nodeVars, queue>>

Record ==
  /\ worker.pc = "update"
  /\ UpdateFromNode(worker.class, Reported[worker.node])
  /\ worker' = Idle
  /\ UNCHANGED <<nodeVars, queue>>

(* The Node or the NodeClaim cannot be read: the Node goes back.            *)
ReadFails ==
  /\ worker.pc = "claim"
  /\ queue' = queue \union {worker.node}
  /\ worker' = Idle
  /\ UNCHANGED <<typeVars, nodeVars>>

------------------------------------------------------------------------------
(* The process ends. When it starts again, each Node there is an event.     *)
Restart ==
  /\ Forget
  /\ queue' = {n \in Nodes : InCluster(n)} /\ worker' = Idle
  /\ UNCHANGED nodeVars

(* Karpenter asks for instance types, Rackspace answers or does not.        *)
Serve ==
  /\ \/ Outside
     \/ \E c \in Callers :
          (\E want \in Wants : Start(c, want)) \/ CallStep(c) \/ Return(c)
  /\ UNCHANGED <<nodeVars, controllerVars>>

NodeStep(n) ==
  \/ JoinNode(n) \/ ReportNode(n) \/ Heartbeat(n) \/ RemoveNode(n)
  \/ DeleteClaim(n) \/ \E t \in Classes : Stamp(n, t)

ControllerStep ==
  (\E n \in Nodes : ReadNode(n)) \/ ReadClaim \/ Record \/ ReadFails

CapacityNext ==
  (\E n \in Nodes : NodeStep(n)) \/ ControllerStep \/ Serve \/ Restart

CapacitySpec == CapacityInit /\ [][CapacityNext]_allVars

(* Kubelets report, the worker goes on, and what it does for a Node again   *)
(* and again is not cut short every time. Nothing is assumed of Rackspace   *)
(* or of those who wait for it: a request may hang for ever with p.mu held. *)
CapacityFairness ==
  /\ WF_allVars(ReadClaim \/ Record \/ ReadFails)
  /\ \A n \in Nodes :
       /\ WF_allVars(Heartbeat(n)) /\ SF_allVars(ReadNode(n))
       /\ SF_allVars(ReadClaim /\ worker.node = n)
       /\ SF_allVars(Record /\ worker.node = n)

FairCapacitySpec == CapacitySpec /\ CapacityFairness

------------------------------------------------------------------------------
(* A Node that stays, and whose NodeClaim keeps its label, bounds what is   *)
(* recorded for its class in the end, after every restart anew, though the  *)
(* label may have come after the Node's report and Rackspace may never      *)
(* answer a refresh. This is the README's "rebuilds from the running nodes  *)
(* on startup", and why discoveredMu is not p.mu.                           *)
Bounds(n, t) ==
  \A r \in Resources :
    Reported[n][r] # 0 => measured[t][r] \in 1 .. Reported[n][r]

EventuallyMeasured ==
  \A n \in Nodes, t \in Classes :
    (node[n] = "reported" /\ label[n] = t)
      ~> (Bounds(n, t) \/ node[n] # "reported" \/ label[n] # t)
==============================================================================
