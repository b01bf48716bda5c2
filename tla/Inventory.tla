------------------------------ MODULE Inventory ------------------------------
(****************************************************************************)
(* What karpenter is told it has: CloudProvider.List and CloudProvider.Get  *)
(* (src/pkg/cloudprovider/cloudprovider.go) over instance.List and          *)
(* instance.Get (src/pkg/providers/instance/instance.go).                   *)
(*                                                                          *)
(* A List is three calls, for the spot pools, the on-demand pools and the   *)
(* Nodes, and a Get by a Node's ID is two. Pools are made and deleted and   *)
(* Nodes come and go between them. Karpenter takes a NodeClaim whose        *)
(* providerID is not in a List, or not found by a Get, for one whose        *)
(* instance is gone.                                                        *)
(*                                                                          *)
(* Pools and Nodes are known by their labels. A pool has those that         *)
(* mergeLabels gave it when it was made, and a Node those of its pool.      *)
(****************************************************************************)
CONSTANTS
  Claims,  \* the NodeClaims, each named by its UID
  VMs,     \* the servers, each named by its VM UUID
  Customs  \* the labels a NodeClass may have of its own

Kinds == {"spot", "on-demand"}

(* The labels that List and Get read: the managed label, the NodeClaim's    *)
(* UID and the capacity type. "other" is any value that means nothing here. *)
LabelKeys == {"managed", "uid", "kind"}
LabelValues == {"true", "other"} \union Claims \union Kinds

Labels == [LabelKeys -> LabelValues]

ASSUME CustomsAssumption ==
  \A x \in Customs : DOMAIN x \subseteq LabelKeys /\ \A l \in DOMAIN x : x[l] \in LabelValues

VARIABLES
  custom,  \* the NodeClass's own labels
  pool,    \* the labels of the pool of each kind named after each NodeClaim
  node,    \* each server's Node: its labels, and whether it has its ID
  reader   \* the List or the Get in progress

vars == <<custom, pool, node, reader>>

------------------------------------------------------------------------------
(* A pool and the Node of a server, by the IDs that Get takes.              *)
MakeProviderID(k, c) == [scheme |-> "rackspacespot", kind |-> k, name |-> c]
VMID(v) == [scheme |-> "openstack", vm |-> v]

PoolIDs == [scheme : {"rackspacespot"}, kind : Kinds, name : Claims]
VMIDs == [scheme : {"openstack"}, vm : VMs]

NoPool == [l \in LabelKeys |-> "none"]

Exists(c, k) == pool[c][k] # NoPool

systemLabels(c, k) ==
  [l \in LabelKeys |-> CASE l = "managed" -> "true" [] l = "uid" -> c [] l = "kind" -> k]

(* The NodeClass's labels are merged last and win.                          *)
mergeLabels(c, k) ==
  [l \in LabelKeys |-> IF l \in DOMAIN custom THEN custom[l] ELSE systemLabels(c, k)[l]]

Managed(labels) == labels["managed"] = "true"

Pools == [of : Claims \X Kinds, labels : Labels]

Nodes == [state : {"joined", "named", "removed"}, labels : Labels, of : Claims \X Kinds]

NoNode == [state |-> "none"]

ManagedNodes == {v \in VMs : node[v].state \in {"joined", "named"} /\ Managed(node[v].labels)}

(* An entry of a List: the pool, the NodeClaim it is said to be of, and its *)
(* providerID.                                                              *)
Entries == [pool : Claims \X Kinds, uid : LabelValues, id : PoolIDs \union VMIDs]

Lists == [op : {"List"}, pc : {"on-demand", "nodes", "done"},
          pools : SUBSET Pools, entries : SUBSET Entries,
          all : SUBSET (Claims \X Kinds), some : SUBSET (Claims \X Kinds),
          lone : SUBSET VMs]

Gets == [op : {"Get"}, pc : {"nodes", "pool", "found", "NotFound"},
         id : PoolIDs \union VMIDs, uid : LabelValues, kind : Kinds, there : BOOLEAN]

Idle == [op |-> "none", pc |-> "idle"]

(* The type invariant. A Get asks for a pool of one of the two kinds,       *)
(* whatever the labels say.                                                 *)
TypeOK ==
  /\ custom \in Customs
  /\ pool \in [Claims -> [Kinds -> Labels \union {NoPool}]]
  /\ node \in [VMs -> Nodes \union {NoNode}]
  /\ reader \in Lists \union Gets \union {Idle}

Init ==
  /\ custom \in Customs
  /\ pool = [c \in Claims |-> [k \in Kinds |-> NoPool]]
  /\ node = [v \in VMs |-> NoNode]
  /\ reader = Idle

------------------------------------------------------------------------------
(* What was so throughout a List or a Get, and what was so at some time in  *)
(* it. The properties compare the answer with it, no action reads it.       *)

(* The managed pools.                                                       *)
Present == {p \in Claims \X Kinds : Exists(p[1], p[2]) /\ Managed(pool[p[1]][p[2]])}

(* Nodes with their ID that carry the labels the provider gives, as their   *)
(* pools do.                                                                *)
Linked ==
  {v \in VMs :
    /\ node[v].state = "named"
    /\ LET c == node[v].of[1]
           k == node[v].of[2]
       IN  node[v].labels = systemLabels(c, k) /\ pool[c][k] = systemLabels(c, k)}

(* Those of them that are the only Node of their NodeClaim.                 *)
Lone ==
  {v \in Linked :
    \A u \in ManagedNodes : node[u].labels["uid"] = node[v].labels["uid"] => u = v}

(* What a Get finds if it asks at one moment.                               *)
Findable ==
  {VMID(v) : v \in Linked}
    \union {i \in PoolIDs : Exists(i.name, i.kind)}

Watch ==
  reader' =
    CASE reader.op = "List" ->
           [reader EXCEPT !.all = @ \intersect Present', !.some = @ \union Present',
                          !.lone = @ \intersect Lone']
      [] reader.op = "Get" -> [reader EXCEPT !.there = @ /\ reader.id \in Findable']
      [] OTHER -> reader

------------------------------------------------------------------------------
(* Pools, Nodes and the NodeClass.                                          *)
MakePool(c, k) ==
  /\ ~Exists(c, k)
  /\ pool' = [pool EXCEPT ![c][k] = mergeLabels(c, k)]
  /\ UNCHANGED <<custom, node>> /\ Watch

DropPool(c, k) ==
  /\ Exists(c, k)
  /\ pool' = [pool EXCEPT ![c][k] = NoPool]
  /\ UNCHANGED <<custom, node>> /\ Watch

(* A server boots and joins; it may be the successor of one whose Node is   *)
(* still there.                                                             *)
JoinNode(c, k, v) ==
  /\ Exists(c, k) /\ node[v].state = "none"
  /\ node' = [node EXCEPT ![v] =
               [state |-> "joined", labels |-> pool[c][k], of |-> <<c, k>>]]
  /\ UNCHANGED <<custom, pool>> /\ Watch

NameNode(v) ==
  /\ node[v].state = "joined" /\ node' = [node EXCEPT ![v].state = "named"]
  /\ UNCHANGED <<custom, pool>> /\ Watch

RemoveNode(v) ==
  /\ node[v].state \in {"joined", "named"}
  /\ node' = [node EXCEPT ![v].state = "removed"]
  /\ UNCHANGED <<custom, pool>> /\ Watch

EditNodeClass ==
  /\ \E x \in Customs \ {custom} : custom' = x
  /\ UNCHANGED <<pool, node>> /\ Watch

------------------------------------------------------------------------------
(* List.                                                                    *)
PoolsOfKind(k) ==
  {[of |-> <<c, k>>, labels |-> pool[c][k]] : c \in {x \in Claims : Exists(x, k)}}

(* instance.List keeps the pools that carry the managed label, as they were *)
(* when their kind was listed.                                              *)
managedOf(k) == {p \in PoolsOfKind(k) : Managed(p.labels)}

ListSpotNodePools ==
  /\ reader = Idle
  /\ reader' = [op |-> "List", pc |-> "on-demand", pools |-> managedOf("spot"),
                entries |-> {}, all |-> Present, some |-> Present, lone |-> Lone]
  /\ UNCHANGED <<custom, pool, node>>

(* A List that asks for the on-demand pools only where there is no spot one.*)
ListOnDemandNodePoolsSkipped ==
  /\ reader.op = "List" /\ reader.pc = "on-demand"
  /\ reader' = [reader EXCEPT !.pc = "nodes",
                  !.pools = IF @ = {} THEN managedOf("on-demand") ELSE @]
  /\ UNCHANGED <<custom, pool, node>>

ListOnDemandNodePools ==
  /\ reader.op = "List" /\ reader.pc = "on-demand"
  /\ reader' = [reader EXCEPT !.pc = "nodes", !.pools = @ \union managedOf("on-demand")]
  /\ UNCHANGED <<custom, pool, node>>

(* The managed Nodes of a UID, of which the index keeps the one it met last.*)
NodesOf(uid) == {v \in ManagedNodes : node[v].labels["uid"] = uid}

(* An index that nobody looks in: every NodeClaim has its pool's ID.        *)
providerIDSynthetic(p, last) == MakeProviderID(p.of[2], p.of[1])

(* A Node's ID takes the place of the pool's own, if it has one.            *)
providerID(p, last) ==
  LET uid == p.labels["uid"]
  IN  IF NodesOf(uid) # {} /\ node[last[uid]].state = "named"
      THEN VMID(last[uid]) ELSE MakeProviderID(p.of[2], p.of[1])

(* In which order the Nodes are listed is not settled.                      *)
ListNodes ==
  /\ reader.op = "List" /\ reader.pc = "nodes"
  /\ \E last \in [{p.labels["uid"] : p \in reader.pools} -> VMs] :
       /\ \A uid \in DOMAIN last : NodesOf(uid) # {} => last[uid] \in NodesOf(uid)
       /\ reader' = [reader EXCEPT !.pc = "done",
             !.entries = {[pool |-> p.of, uid |-> p.labels["uid"],
                           id |-> providerID(p, last)] : p \in reader.pools}]
  /\ UNCHANGED <<custom, pool, node>>

------------------------------------------------------------------------------
(* Get. A pool's own ID names the pool to ask for.                          *)
GetByPoolID(i) ==
  /\ reader = Idle
  /\ reader' = [op |-> "Get", pc |-> "pool", id |-> i, uid |-> i.name, kind |-> i.kind,
                there |-> i \in Findable]
  /\ UNCHANGED <<custom, pool, node>>

(* With the ID of a Node the managed Nodes are searched first.              *)
GetByNodeID(i) ==
  /\ reader = Idle
  /\ reader' = [op |-> "Get", pc |-> "nodes", id |-> i, uid |-> "other", kind |-> "spot",
                there |-> i \in Findable]
  /\ UNCHANGED <<custom, pool, node>>

(* A Get that takes every NodeClaim for one with a spot pool.               *)
kindOfSpot(labels) == "spot"

kindOf(labels) == IF labels["kind"] = "on-demand" THEN "on-demand" ELSE "spot"

GetNode ==
  /\ reader.op = "Get" /\ reader.pc = "nodes"
  /\ \/ /\ reader.id.vm \in ManagedNodes /\ node[reader.id.vm].state = "named"
        /\ reader' = [reader EXCEPT !.pc = "pool",
                        !.uid = node[reader.id.vm].labels["uid"],
                        !.kind = kindOf(node[reader.id.vm].labels)]
     \/ /\ ~(reader.id.vm \in ManagedNodes /\ node[reader.id.vm].state = "named")
        /\ reader' = [reader EXCEPT !.pc = "NotFound"]
  /\ UNCHANGED <<custom, pool, node>>

(* The pool is asked for; ErrPoolNotFound becomes karpenter's NotFound.     *)
GetPool ==
  /\ reader.op = "Get" /\ reader.pc = "pool"
  /\ reader' = [reader EXCEPT
       !.pc = IF reader.uid \in Claims /\ Exists(reader.uid, reader.kind)
              THEN "found" ELSE "NotFound"]
  /\ UNCHANGED <<custom, pool, node>>

(* The caller has its answer, or a call failed and it has an error.         *)
Return ==
  /\ reader # Idle /\ reader' = Idle
  /\ UNCHANGED <<custom, pool, node>>

------------------------------------------------------------------------------
Outside ==
  \/ \E c \in Claims, k \in Kinds : MakePool(c, k) \/ DropPool(c, k)
  \/ \E c \in Claims, k \in Kinds, v \in VMs : JoinNode(c, k, v)
  \/ \E v \in VMs : NameNode(v) \/ RemoveNode(v)
  \/ EditNodeClass

List == ListSpotNodePools \/ ListOnDemandNodePools \/ ListNodes

Get ==
  \/ \E i \in PoolIDs : GetByPoolID(i)
  \/ \E i \in VMIDs : GetByNodeID(i)
  \/ GetNode \/ GetPool

Next == Outside \/ List \/ Get \/ Return

Spec == Init /\ [][Next]_vars

------------------------------------------------------------------------------
(* A List has every managed pool that was there from its first call to its  *)
(* last, and none that was not there at any time in between, although the   *)
(* three calls see three different moments.                                 *)
Listed == {e.pool : e \in reader.entries}

ListComplete ==
  reader.op = "List" /\ reader.pc = "done" =>
    reader.all \subseteq Listed /\ Listed \subseteq reader.some

(* A NodeClaim whose one Node was there with its ID throughout is listed    *)
(* under that ID, which is the one nodelink gave it, so that karpenter does *)
(* not take it for lost. With two Nodes, or with labels of the NodeClass's  *)
(* over the provider's, it may.                                             *)
LoneNodeListed ==
  reader.op = "List" /\ reader.pc = "done" =>
    \A v \in reader.lone : \E e \in reader.entries :
      e.id = VMID(v) /\ e.pool = node[v].of /\ e.uid = node[v].of[1]

(* A Get finds the pool it was asked for, by the pool's ID or by that of a  *)
(* Node of the pool, if the two were there throughout with the labels the   *)
(* provider gave them: karpenter takes NotFound for the loss of the server. *)
Asked ==
  IF reader.id \in PoolIDs THEN <<reader.id.name, reader.id.kind>> ELSE node[reader.id.vm].of

GetFinds ==
  reader.op = "Get" /\ reader.there =>
    /\ reader.pc # "NotFound"
    /\ reader.pc \in {"pool", "found"} => <<reader.uid, reader.kind>> = Asked
==============================================================================
