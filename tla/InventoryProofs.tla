--------------------------- MODULE InventoryProofs ---------------------------
(****************************************************************************)
(* Inventory, for every set of NodeClaims, servers and labels a NodeClass   *)
(* may have.                                                                *)
(****************************************************************************)
EXTENDS Inventory, TLAPS

------------------------------------------------------------------------------
(* Labels.                                                                  *)

LEMMA SystemLabels ==
  ASSUME NEW c \in Claims, NEW k \in Kinds
  PROVE  /\ systemLabels(c, k) \in Labels
         /\ systemLabels(c, k)["managed"] = "true"
         /\ systemLabels(c, k)["uid"] = c
         /\ systemLabels(c, k)["kind"] = k
         /\ systemLabels(c, k) # NoPool
<1>1. \A l \in LabelKeys : systemLabels(c, k)[l] \in LabelValues
  BY DEF systemLabels, LabelKeys, LabelValues
<1>2. systemLabels(c, k) \in Labels
  BY <1>1 DEF systemLabels, Labels
<1>3. /\ systemLabels(c, k)["managed"] = "true"
      /\ systemLabels(c, k)["uid"] = c
      /\ systemLabels(c, k)["kind"] = k
  BY DEF systemLabels, LabelKeys
<1>4. NoPool["managed"] = "none"
  BY DEF NoPool, LabelKeys
<1> QED BY <1>2, <1>3, <1>4

LEMMA MergedLabels ==
  ASSUME custom \in Customs, NEW c \in Claims, NEW k \in Kinds
  PROVE  mergeLabels(c, k) \in Labels
  BY CustomsAssumption, SystemLabels DEF mergeLabels, Labels

LEMMA KindOfLabels ==
  ASSUME NEW labels
  PROVE  kindOf(labels) \in Kinds
  BY DEF kindOf, Kinds

------------------------------------------------------------------------------
(* Types.                                                                   *)

ReaderType == reader \in Lists \union Gets \union {Idle}

OutsideType ==
  /\ custom \in Customs
  /\ pool \in [Claims -> [Kinds -> Labels \union {NoPool}]]
  /\ node \in [VMs -> Nodes \union {NoNode}]

LEMMA Readers ==
  ASSUME ReaderType
  PROVE  /\ reader.op = "List" => reader \in Lists
         /\ reader.op = "Get" => reader \in Gets
         /\ reader.op \notin {"List", "Get"} => reader = Idle
  BY DEF ReaderType, Lists, Gets, Idle

LEMMA WatchType ==
  ASSUME ReaderType, Watch
  PROVE  ReaderType'
<1>1. Present' \subseteq Claims \X Kinds
  BY DEF Present
<1>2. CASE reader.op = "List"
  <2>1. reader \in Lists
    BY <1>2, Readers
  <2>2. reader' = [reader EXCEPT !.all = @ \intersect Present', !.some = @ \union Present',
                                 !.lone = @ \intersect Lone']
    BY <1>2 DEF Watch
  <2> QED BY <1>1, <2>1, <2>2 DEF ReaderType, Lists
<1>3. CASE reader.op = "Get"
  <2>1. reader \in Gets
    BY <1>3, Readers
  <2>2. reader' = [reader EXCEPT !.there = @ /\ reader.id \in Findable']
    BY <1>3 DEF Watch
  <2>3. (reader.there /\ reader.id \in Findable') \in BOOLEAN
    OBVIOUS
  <2> QED BY <2>1, <2>2, <2>3 DEF ReaderType, Gets
<1>4. CASE reader.op \notin {"List", "Get"}
  BY <1>4 DEF Watch, ReaderType
<1> QED BY <1>2, <1>3, <1>4

LEMMA OutsideKeeps ==
  ASSUME OutsideType, Outside
  PROVE  /\ OutsideType' /\ Watch
         /\ \A v \in VMs : node[v].state = "named" /\ node'[v].state = "named"
                             => node'[v].of = node[v].of
<1> USE DEF OutsideType
<1>1. ASSUME NEW c \in Claims, NEW k \in Kinds, MakePool(c, k) \/ DropPool(c, k)
      PROVE  OutsideType' /\ Watch /\ node' = node
  BY <1>1, MergedLabels DEF MakePool, DropPool
<1>2. ASSUME NEW c \in Claims, NEW k \in Kinds, NEW v \in VMs, JoinNode(c, k, v)
      PROVE  OutsideType' /\ Watch /\ \A u \in VMs : u # v => node'[u] = node[u]
  <2>1. pool[c][k] \in Labels
    BY <1>2 DEF JoinNode, Exists
  <2>2. [state |-> "joined", labels |-> pool[c][k], of |-> <<c, k>>] \in Nodes
    BY <2>1 DEF Nodes
  <2> QED BY <1>2, <2>2 DEF JoinNode
<1>3. ASSUME NEW v \in VMs, NameNode(v) \/ RemoveNode(v)
      PROVE  /\ OutsideType' /\ Watch
             /\ \A u \in VMs : u # v => node'[u] = node[u]
             /\ node'[v].of = node[v].of
  <2>1. node[v] \in Nodes
    BY <1>3 DEF NameNode, RemoveNode, NoNode
  <2>2. /\ [node[v] EXCEPT !.state = "named"] \in Nodes
        /\ [node[v] EXCEPT !.state = "removed"] \in Nodes
    BY <2>1 DEF Nodes
  <2> QED BY <1>3, <2>1, <2>2 DEF NameNode, RemoveNode, Nodes
<1>4. CASE EditNodeClass
  BY <1>4 DEF EditNodeClass
<1>5. ASSUME NEW c \in Claims, NEW k \in Kinds, NEW v \in VMs, JoinNode(c, k, v)
      PROVE  node[v].state # "named"
  BY <1>5 DEF JoinNode
<1> QED BY <1>1, <1>2, <1>3, <1>4, <1>5 DEF Outside, EditNodeClass

(* The pools of a kind as a List takes them.                                *)
LEMMA ManagedPools ==
  ASSUME OutsideType, NEW k \in Kinds
  PROVE  /\ managedOf(k) \in SUBSET Pools
         /\ \A c \in Claims :
              Exists(c, k) /\ Managed(pool[c][k])
                => [of |-> <<c, k>>, labels |-> pool[c][k]] \in managedOf(k)
         /\ \A p \in managedOf(k) : p.of \in Present
<1>1. ASSUME NEW p \in PoolsOfKind(k), Managed(p.labels)
      PROVE  p \in Pools /\ p.of \in Present
  <2>1. PICK c \in Claims : Exists(c, k) /\ p = [of |-> <<c, k>>, labels |-> pool[c][k]]
    BY <1>1 DEF PoolsOfKind
  <2>2. pool[c][k] \in Labels
    BY <2>1 DEF OutsideType, Exists
  <2> QED BY <1>1, <2>1, <2>2 DEF Pools, Present
<1> QED BY <1>1 DEF managedOf, PoolsOfKind

LEMMA LastNode ==
  ASSUME NEW uids, NEW last \in [uids -> VMs], NEW p, p.labels["uid"] \in uids,
         p.of \in Claims \X Kinds
  PROVE  providerID(p, last) \in PoolIDs \union VMIDs
  BY DEF providerID, VMID, MakeProviderID, PoolIDs, VMIDs

LEMMA ListStepType ==
  ASSUME TypeOK, List
  PROVE  TypeOK'
<1>0. OutsideType /\ ReaderType
  BY DEF TypeOK, OutsideType, ReaderType
<1> SUFFICES ReaderType'
  BY <1>0 DEF List, ListSpotNodePools, ListOnDemandNodePools, ListNodes,
              TypeOK, OutsideType, ReaderType
<1>1. CASE ListSpotNodePools
  <2>1. /\ managedOf("spot") \in SUBSET Pools
        /\ Present \in SUBSET (Claims \X Kinds) /\ Lone \in SUBSET VMs
    BY <1>0, ManagedPools DEF Kinds, Present, Lone, Linked
  <2>2. [op |-> "List", pc |-> "on-demand", pools |-> managedOf("spot"), entries |-> {},
         all |-> Present, some |-> Present, lone |-> Lone] \in Lists
    BY <2>1 DEF Lists
  <2> QED BY <1>1, <2>2 DEF ListSpotNodePools, ReaderType
<1>2. CASE ListOnDemandNodePools
  <2>1. reader \in Lists /\ managedOf("on-demand") \in SUBSET Pools
    BY <1>0, <1>2, Readers, ManagedPools DEF ListOnDemandNodePools, Kinds
  <2>2. reader' = [reader EXCEPT !.pc = "nodes", !.pools = @ \union managedOf("on-demand")]
    BY <1>2 DEF ListOnDemandNodePools
  <2> QED BY <2>1, <2>2 DEF ReaderType, Lists
<1>3. CASE ListNodes
  <2>1. reader \in Lists
    BY <1>0, <1>3, Readers DEF ListNodes
  <2>2. PICK last \in [{p.labels["uid"] : p \in reader.pools} -> VMs] :
          reader' = [reader EXCEPT !.pc = "done",
             !.entries = {[pool |-> p.of, uid |-> p.labels["uid"],
                           id |-> providerID(p, last)] : p \in reader.pools}]
    BY <1>3 DEF ListNodes
  <2>3. ASSUME NEW p \in reader.pools
        PROVE  [pool |-> p.of, uid |-> p.labels["uid"], id |-> providerID(p, last)]
                 \in Entries
    <3>1. p \in Pools
      BY <2>1 DEF Lists
    <3>2. p.of \in Claims \X Kinds /\ p.labels["uid"] \in LabelValues
      BY <3>1 DEF Pools, Labels, LabelKeys
    <3>3. providerID(p, last) \in PoolIDs \union VMIDs
      BY <3>2, LastNode
    <3> QED BY <3>2, <3>3 DEF Entries
  <2> DEFINE E == {[pool |-> p.of, uid |-> p.labels["uid"],
                    id |-> providerID(p, last)] : p \in reader.pools}
  <2>4. E \in SUBSET Entries
    BY <2>3
  <2>5. reader' = [reader EXCEPT !.pc = "done", !.entries = E]
    BY <2>2
  <2> HIDE DEF E
  <2> QED BY <2>1, <2>4, <2>5 DEF ReaderType, Lists
<1> QED BY <1>1, <1>2, <1>3 DEF List

LEMMA GetStepType ==
  ASSUME TypeOK, Get
  PROVE  TypeOK'
<1>0. OutsideType /\ ReaderType
  BY DEF TypeOK, OutsideType, ReaderType
<1> SUFFICES ReaderType'
  BY <1>0 DEF Get, GetByPoolID, GetByNodeID, GetNode, GetPool,
              TypeOK, OutsideType, ReaderType
<1>1. ASSUME NEW i \in PoolIDs, GetByPoolID(i) PROVE ReaderType'
  <2>1. i.name \in LabelValues /\ i.kind \in Kinds /\ (i \in Findable) \in BOOLEAN
    BY DEF PoolIDs, LabelValues
  <2> QED BY <1>1, <2>1 DEF GetByPoolID, ReaderType, Gets
<1>2. ASSUME NEW i \in VMIDs, GetByNodeID(i) PROVE ReaderType'
  <2>1. "other" \in LabelValues /\ "spot" \in Kinds /\ (i \in Findable) \in BOOLEAN
    BY DEF Kinds, LabelValues
  <2> QED BY <1>2, <2>1 DEF GetByNodeID, ReaderType, Gets
<1>3. CASE GetNode
  <2>1. reader \in Gets
    BY <1>0, <1>3, Readers DEF GetNode
  <2>2. CASE reader' = [reader EXCEPT !.pc = "NotFound"]
    BY <2>1, <2>2 DEF ReaderType, Gets
  <2>3. CASE /\ reader.id.vm \in ManagedNodes
             /\ reader' = [reader EXCEPT !.pc = "pool",
                            !.uid = node[reader.id.vm].labels["uid"],
                            !.kind = kindOf(node[reader.id.vm].labels)]
    <3>1. node[reader.id.vm] \in Nodes
      BY <1>0, <2>3 DEF ManagedNodes, OutsideType, NoNode
    <3>2. node[reader.id.vm].labels["uid"] \in LabelValues
      BY <3>1 DEF Nodes, Labels, LabelKeys
    <3> QED BY <2>1, <2>3, <3>2, KindOfLabels DEF ReaderType, Gets
  <2> QED BY <1>3, <2>2, <2>3 DEF GetNode
<1>4. CASE GetPool
  <2>1. reader \in Gets
    BY <1>0, <1>4, Readers DEF GetPool
  <2>2. \/ reader' = [reader EXCEPT !.pc = "found"]
        \/ reader' = [reader EXCEPT !.pc = "NotFound"]
    BY <1>4 DEF GetPool
  <2> QED BY <2>1, <2>2 DEF ReaderType, Gets
<1> QED BY <1>1, <1>2, <1>3, <1>4 DEF Get

LEMMA TypeInit == Init => TypeOK
  BY DEF Init, TypeOK

LEMMA TypeNext == TypeOK /\ [Next]_vars => TypeOK'
<1> SUFFICES ASSUME TypeOK, [Next]_vars PROVE TypeOK'
  OBVIOUS
<1>1. CASE Outside
  <2>1. OutsideType /\ ReaderType
    BY DEF TypeOK, OutsideType, ReaderType
  <2>2. OutsideType' /\ ReaderType'
    BY <1>1, <2>1, OutsideKeeps, WatchType
  <2> QED BY <2>2 DEF TypeOK, OutsideType, ReaderType
<1>2. CASE Return
  BY <1>2 DEF Return, TypeOK
<1>3. CASE UNCHANGED vars
  BY <1>3 DEF vars, TypeOK
<1> QED BY <1>1, <1>2, <1>3, ListStepType, GetStepType DEF Next

(* The state keeps its type: whatever labels a NodeClass has, a Get asks    *)
(* for a pool of one of the two kinds.                                      *)
THEOREM TypeCorrect == Spec => []TypeOK
  BY TypeInit, TypeNext, PTL DEF Spec

------------------------------------------------------------------------------
(* A List. What was there throughout is there now, and what a List has      *)
(* taken by now of what was there throughout is fixed.                      *)

Taken == {p.of : p \in reader.pools}

(* The pool of a Node that carries the provider's labels, as a List takes it*)
Own(v) == [of |-> node[v].of, labels |-> systemLabels(node[v].of[1], node[v].of[2])]

PoolsTaken ==
  /\ reader.pc = "on-demand" => /\ \A p \in reader.all : p[2] = "spot" => p \in Taken
                                /\ Taken \subseteq reader.some
  /\ reader.pc = "nodes" => reader.all \subseteq Taken /\ Taken \subseteq reader.some
  /\ reader.pc = "done" => reader.all \subseteq Listed /\ Listed \subseteq reader.some

OwnTaken(v) ==
  /\ reader.pc = "on-demand" /\ node[v].of[2] = "spot" => Own(v) \in reader.pools
  /\ reader.pc = "nodes" => Own(v) \in reader.pools
  /\ reader.pc = "done" => \E e \in reader.entries :
       e.id = VMID(v) /\ e.pool = node[v].of /\ e.uid = node[v].of[1]

ListInv ==
  reader.op = "List" =>
    /\ reader.all \subseteq Present /\ Present \subseteq reader.some
    /\ reader.lone \subseteq Lone
    /\ PoolsTaken
    /\ \A v \in reader.lone : OwnTaken(v)

(* The pool of a Node that is linked is one that a List takes.              *)
LEMMA LinkedPool ==
  ASSUME OutsideType, NEW v \in Linked
  PROVE  /\ v \in VMs /\ node[v].state = "named" /\ v \in ManagedNodes
         /\ node[v].of \in Claims \X Kinds
         /\ node[v].labels["uid"] = node[v].of[1]
         /\ kindOf(node[v].labels) = node[v].of[2]
         /\ Exists(node[v].of[1], node[v].of[2])
         /\ Own(v) \in managedOf(node[v].of[2])
<1>1. v \in VMs /\ node[v].state = "named"
  BY DEF Linked
<1>2. node[v] \in Nodes
  BY <1>1 DEF OutsideType, NoNode
<1>3. node[v].of \in Claims \X Kinds
  BY <1>2 DEF Nodes
<1>4. PICK c \in Claims, k \in Kinds : node[v].of = <<c, k>>
  BY <1>3
<1>5. node[v].labels = systemLabels(c, k) /\ pool[c][k] = systemLabels(c, k)
  BY <1>4 DEF Linked
<1>6. /\ systemLabels(c, k)["managed"] = "true"
      /\ systemLabels(c, k)["uid"] = c /\ systemLabels(c, k)["kind"] = k
      /\ systemLabels(c, k) # NoPool
  BY SystemLabels
<1>7. v \in ManagedNodes
  BY <1>1, <1>5, <1>6 DEF ManagedNodes, Managed
<1>8. kindOf(node[v].labels) = k
  BY <1>5, <1>6 DEF kindOf, Kinds
<1>9. Exists(c, k) /\ Managed(pool[c][k])
  BY <1>5, <1>6 DEF Exists, Managed
<1>10. [of |-> <<c, k>>, labels |-> pool[c][k]] \in managedOf(k)
  BY <1>9, ManagedPools
<1> QED BY <1>1, <1>3, <1>4, <1>5, <1>6, <1>7, <1>8, <1>9, <1>10 DEF Own

LEMMA ListOutside ==
  ASSUME TypeOK, ListInv, Outside
  PROVE  ListInv'
<1>0. OutsideType /\ ReaderType
  BY DEF TypeOK, OutsideType, ReaderType
<1>1. /\ Watch
      /\ \A v \in VMs : node[v].state = "named" /\ node'[v].state = "named"
                          => node'[v].of = node[v].of
  BY <1>0, OutsideKeeps
<1> SUFFICES ASSUME reader'.op = "List" PROVE ListInv'
  BY DEF ListInv
<1>2. reader.op = "List" /\ reader \in Lists
  <2>1. CASE reader.op = "Get"
    <3>1. reader \in Gets /\ reader' = [reader EXCEPT !.there = @ /\ reader.id \in Findable']
      BY <1>0, <1>1, <2>1, Readers DEF Watch
    <3> QED BY <2>1, <3>1 DEF Gets
  <2>2. CASE reader.op \notin {"List", "Get"}
    BY <1>1, <2>2 DEF Watch
  <2> QED BY <1>0, <2>1, <2>2, Readers
<1>3. reader' = [reader EXCEPT !.all = @ \intersect Present', !.some = @ \union Present',
                               !.lone = @ \intersect Lone']
  BY <1>1, <1>2 DEF Watch
<1>4. /\ reader'.pc = reader.pc /\ reader'.pools = reader.pools
      /\ reader'.entries = reader.entries
      /\ reader'.all = reader.all \intersect Present'
      /\ reader'.some = reader.some \union Present'
      /\ reader'.lone = reader.lone \intersect Lone'
  BY <1>2, <1>3 DEF Lists
<1>5. PoolsTaken'
  BY <1>2, <1>4 DEF ListInv, PoolsTaken, Taken, Listed
<1>6. ASSUME NEW v \in reader'.lone PROVE OwnTaken(v)'
  <2>1. v \in reader.lone /\ v \in Lone /\ v \in Lone'
    BY <1>2, <1>4 DEF ListInv
  <2>2. node'[v].of = node[v].of
    BY <1>1, <2>1 DEF Lone, Linked
  <2>3. OwnTaken(v)
    BY <1>2, <2>1 DEF ListInv
  <2> QED BY <1>4, <2>2, <2>3 DEF OwnTaken, Own
<1> QED BY <1>4, <1>5, <1>6 DEF ListInv

LEMMA ListSteps ==
  ASSUME TypeOK, ListInv, List
  PROVE  ListInv'
<1>0. OutsideType /\ ReaderType
  BY DEF TypeOK, OutsideType, ReaderType
<1>1. CASE ListSpotNodePools
  <2>1. reader' = [op |-> "List", pc |-> "on-demand", pools |-> managedOf("spot"),
                   entries |-> {}, all |-> Present, some |-> Present, lone |-> Lone]
    BY <1>1 DEF ListSpotNodePools
  <2>2. Present' = Present /\ Lone' = Lone /\ node' = node
    BY <1>1 DEF ListSpotNodePools, Present, Lone, Linked, ManagedNodes, Exists
  <2>3. ASSUME NEW p \in Present, p[2] = "spot" PROVE p \in Taken'
    <3>1. PICK c \in Claims : p = <<c, "spot">>
      BY <2>3 DEF Present
    <3>2. [of |-> <<c, "spot">>, labels |-> pool[c]["spot"]] \in managedOf("spot")
      BY <1>0, <3>1, ManagedPools DEF Present, Kinds
    <3> QED BY <2>1, <3>1, <3>2 DEF Taken
  <2>4. Taken' \subseteq Present
    BY <1>0, <2>1, ManagedPools DEF Taken, Kinds
  <2>5. ASSUME NEW v \in Lone, node[v].of[2] = "spot" PROVE Own(v) \in managedOf("spot")
    BY <1>0, <2>5, LinkedPool DEF Lone
  <2>6. PoolsTaken'
    BY <2>1, <2>3, <2>4 DEF PoolsTaken
  <2>7. \A v \in Lone : OwnTaken(v)'
    BY <2>1, <2>2, <2>5 DEF OwnTaken, Own
  <2> QED BY <2>1, <2>2, <2>6, <2>7 DEF ListInv
<1>2. CASE ListOnDemandNodePools
  <2>1. reader \in Lists
    BY <1>0, <1>2, Readers DEF ListOnDemandNodePools
  <2>2. reader.op = "List" /\ reader.pc = "on-demand"
    BY <1>2 DEF ListOnDemandNodePools
  <2>3. reader' = [reader EXCEPT !.pc = "nodes", !.pools = @ \union managedOf("on-demand")]
    BY <1>2 DEF ListOnDemandNodePools
  <2>4. /\ reader'.pc = "nodes" /\ reader'.all = reader.all /\ reader'.some = reader.some
        /\ reader'.lone = reader.lone
        /\ reader'.pools = reader.pools \union managedOf("on-demand")
    BY <2>1, <2>3 DEF Lists
  <2>5. Present' = Present /\ Lone' = Lone /\ node' = node
    BY <1>2 DEF ListOnDemandNodePools, Present, Lone, Linked, ManagedNodes, Exists
  <2>6. Taken' = Taken \union {p.of : p \in managedOf("on-demand")}
    BY <2>4 DEF Taken
  <2>7. ASSUME NEW p \in reader.all PROVE p \in Taken'
    <3>1. p \in Present
      BY <2>2 DEF ListInv
    <3>2. PICK c \in Claims, k \in Kinds : p = <<c, k>>
      BY <3>1 DEF Present
    <3>3. CASE k = "spot"
      BY <2>2, <2>6, <3>2, <3>3 DEF ListInv, PoolsTaken
    <3>4. CASE k = "on-demand"
      <4>1. [of |-> <<c, k>>, labels |-> pool[c][k]] \in managedOf(k)
        BY <1>0, <3>1, <3>2, ManagedPools DEF Present
      <4> QED BY <2>6, <3>2, <3>4, <4>1
    <3> QED BY <3>3, <3>4 DEF Kinds
  <2>8. Taken' \subseteq reader.some
    <3>1. Taken \subseteq reader.some /\ Present \subseteq reader.some
      BY <2>2 DEF ListInv, PoolsTaken
    <3> QED BY <1>0, <2>6, <3>1, ManagedPools DEF Kinds
  <2>9. ASSUME NEW v \in reader.lone PROVE OwnTaken(v)'
    <3>1. v \in Lone /\ OwnTaken(v)
      BY <2>2 DEF ListInv
    <3>2. Own(v) \in managedOf(node[v].of[2]) /\ node[v].of \in Claims \X Kinds
      BY <1>0, <3>1, LinkedPool DEF Lone
    <3>3. Own(v) \in reader'.pools
      BY <2>2, <2>4, <3>1, <3>2 DEF OwnTaken, Kinds
    <3> QED BY <2>4, <2>5, <3>3 DEF OwnTaken, Own
  <2> QED BY <2>2, <2>4, <2>5, <2>7, <2>8, <2>9 DEF ListInv, PoolsTaken
<1>3. CASE ListNodes
  <2>1. reader \in Lists
    BY <1>0, <1>3, Readers DEF ListNodes
  <2>2. reader.op = "List" /\ reader.pc = "nodes"
    BY <1>3 DEF ListNodes
  <2>3. PICK last \in [{p.labels["uid"] : p \in reader.pools} -> VMs] :
          /\ \A uid \in DOMAIN last : NodesOf(uid) # {} => last[uid] \in NodesOf(uid)
          /\ reader' = [reader EXCEPT !.pc = "done",
               !.entries = {[pool |-> p.of, uid |-> p.labels["uid"],
                             id |-> providerID(p, last)] : p \in reader.pools}]
    BY <1>3 DEF ListNodes
  <2> DEFINE E == {[pool |-> p.of, uid |-> p.labels["uid"],
                    id |-> providerID(p, last)] : p \in reader.pools}
  <2>4. Present' = Present /\ Lone' = Lone /\ node' = node
    BY <1>3 DEF ListNodes, Present, Lone, Linked, ManagedNodes, Exists
  <2>5. {e.pool : e \in E} = Taken
    <3> DEFINE entry(p) == [pool |-> p.of, uid |-> p.labels["uid"],
                            id |-> providerID(p, last)]
    <3>1. \A p : entry(p).pool = p.of
      OBVIOUS
    <3>2. E = {entry(p) : p \in reader.pools}
      OBVIOUS
    <3> HIDE DEF entry, E
    <3> QED BY <3>1, <3>2 DEF Taken
  <2>6. ASSUME NEW v \in reader.lone
        PROVE  \E e \in E :
                 e.id = VMID(v) /\ e.pool = node[v].of /\ e.uid = node[v].of[1]
    <3>1. v \in Lone /\ Own(v) \in reader.pools
      BY <2>2 DEF ListInv, OwnTaken
    <3>2. /\ v \in ManagedNodes /\ node[v].labels["uid"] = node[v].of[1]
          /\ node[v].of \in Claims \X Kinds /\ node[v].state = "named"
      BY <1>0, <3>1, LinkedPool DEF Lone
    <3>3. Own(v).of = node[v].of /\ Own(v).labels["uid"] = node[v].of[1]
      BY <3>2, SystemLabels DEF Own
    <3>4. NodesOf(node[v].of[1]) = {v}
      BY <3>1, <3>2 DEF NodesOf, Lone
    <3>5. node[v].of[1] \in DOMAIN last
      BY <2>3, <3>1, <3>3
    <3>6. last[node[v].of[1]] = v
      BY <2>3, <3>4, <3>5
    <3>7. providerID(Own(v), last) = VMID(v)
      BY <3>2, <3>3, <3>4, <3>6 DEF providerID
    <3>8. [pool |-> Own(v).of, uid |-> Own(v).labels["uid"],
           id |-> providerID(Own(v), last)] \in E
      BY <3>1
    <3> QED BY <3>3, <3>7, <3>8
  <2>7. reader' = [reader EXCEPT !.pc = "done", !.entries = E]
    BY <2>3
  <2> HIDE DEF E
  <2>8. /\ reader'.pc = "done" /\ reader'.all = reader.all /\ reader'.some = reader.some
        /\ reader'.lone = reader.lone /\ reader'.entries = E
    BY <2>1, <2>7 DEF Lists
  <2>9. reader.all \subseteq Taken /\ Taken \subseteq reader.some
    BY <2>2 DEF ListInv, PoolsTaken
  <2>10. PoolsTaken'
    BY <2>5, <2>8, <2>9 DEF PoolsTaken, Listed
  <2>11. \A v \in reader.lone : OwnTaken(v)'
    BY <2>4, <2>6, <2>8 DEF OwnTaken
  <2> QED BY <2>2, <2>4, <2>8, <2>10, <2>11 DEF ListInv
<1> QED BY <1>1, <1>2, <1>3 DEF List

------------------------------------------------------------------------------
(* A Get.                                                                   *)

GetInv ==
  reader.op = "Get" =>
    /\ reader.pc = "nodes" => reader.id \in VMIDs
    /\ reader.there => reader.id \in Findable
    /\ GetFinds

LEMMA IDs ==
  ASSUME NEW v \in VMs
  PROVE  VMID(v) \in VMIDs /\ VMID(v) \notin PoolIDs /\ VMID(v).vm = v
  BY DEF VMID, VMIDs, PoolIDs

(* What there is to find under an ID.                                       *)
LEMMA Found ==
  ASSUME OutsideType, NEW i \in PoolIDs \union VMIDs, i \in Findable
  PROVE  \/ /\ i \in PoolIDs /\ Exists(i.name, i.kind)
         \/ /\ i \notin PoolIDs /\ i \in VMIDs
            /\ i.vm \in Linked
<1>1. CASE \E v \in Linked : i = VMID(v)
  BY <1>1, IDs, LinkedPool
<1>2. CASE i \in PoolIDs /\ Exists(i.name, i.kind)
  BY <1>2
<1> QED BY <1>1, <1>2 DEF Findable

LEMMA GetOutside ==
  ASSUME TypeOK, GetInv, Outside
  PROVE  GetInv'
<1>0. OutsideType /\ OutsideType' /\ ReaderType
  BY OutsideKeeps DEF TypeOK, OutsideType, ReaderType
<1>1. /\ Watch
      /\ \A v \in VMs : node[v].state = "named" /\ node'[v].state = "named"
                          => node'[v].of = node[v].of
  BY <1>0, OutsideKeeps
<1> SUFFICES ASSUME reader'.op = "Get" PROVE GetInv'
  BY DEF GetInv
<1>2. reader.op = "Get" /\ reader \in Gets
  <2>1. CASE reader.op = "List"
    <3>1. reader \in Lists
      BY <1>0, <2>1, Readers
    <3>2. reader' = [reader EXCEPT !.all = @ \intersect Present',
                       !.some = @ \union Present', !.lone = @ \intersect Lone']
      BY <1>1, <2>1 DEF Watch
    <3> QED BY <2>1, <3>1, <3>2 DEF Lists
  <2>2. CASE reader.op \notin {"List", "Get"}
    BY <1>1, <2>2 DEF Watch
  <2> QED BY <1>0, <2>1, <2>2, Readers
<1>3. reader' = [reader EXCEPT !.there = @ /\ reader.id \in Findable']
  BY <1>1, <1>2 DEF Watch
<1>4. /\ reader'.pc = reader.pc /\ reader'.id = reader.id /\ reader'.uid = reader.uid
      /\ reader'.kind = reader.kind
      /\ reader'.there <=> reader.there /\ reader.id \in Findable'
  BY <1>2, <1>3 DEF Gets
<1>5. ASSUME reader'.there PROVE Asked' = Asked
  <2>1. reader.id \in Findable /\ reader.id \in Findable'
    BY <1>2, <1>4, <1>5 DEF GetInv
  <2>2. CASE reader.id \in PoolIDs
    BY <1>4, <2>2 DEF Asked
  <2>3. CASE reader.id \notin PoolIDs
    <3>1. reader.id \in PoolIDs \union VMIDs
      BY <1>2 DEF Gets
    <3>2. reader.id.vm \in Linked
      BY <1>0, <2>1, <2>3, <3>1, Found
    <3>3. \E v \in Linked' : reader.id = VMID(v)
      BY <2>1, <2>3 DEF Findable
    <3>4. PICK v \in Linked' : reader.id = VMID(v)
      BY <3>3
    <3>5. reader.id.vm = v /\ v \in VMs
      BY <3>4, IDs DEF Linked
    <3>6. node'[v].of = node[v].of
      BY <1>1, <3>2, <3>4, <3>5 DEF Linked
    <3> QED BY <1>4, <2>3, <3>5, <3>6 DEF Asked
  <2> QED BY <2>2, <2>3
<1> QED BY <1>2, <1>4, <1>5 DEF GetInv, GetFinds

LEMMA GetSteps ==
  ASSUME TypeOK, GetInv, Get
  PROVE  GetInv'
<1>0. OutsideType /\ ReaderType
  BY DEF TypeOK, OutsideType, ReaderType
<1>1. Findable' = Findable /\ node' = node
  BY DEF Get, GetByPoolID, GetByNodeID, GetNode, GetPool, Findable, Linked, Exists
<1>2. ASSUME NEW i \in PoolIDs, GetByPoolID(i) PROVE GetInv'
  <2>1. reader' = [op |-> "Get", pc |-> "pool", id |-> i, uid |-> i.name,
                   kind |-> i.kind, there |-> i \in Findable]
    BY <1>2 DEF GetByPoolID
  <2> QED BY <1>1, <2>1 DEF GetInv, GetFinds, Asked
<1>3. ASSUME NEW i \in VMIDs, GetByNodeID(i) PROVE GetInv'
  <2>1. reader' = [op |-> "Get", pc |-> "nodes", id |-> i, uid |-> "other",
                   kind |-> "spot", there |-> i \in Findable]
    BY <1>3 DEF GetByNodeID
  <2> QED BY <1>1, <2>1 DEF GetInv, GetFinds
<1>4. CASE GetNode
  <2>1. /\ reader.op = "Get" /\ reader.pc = "nodes" /\ reader \in Gets
        /\ reader.id \in VMIDs
    BY <1>0, <1>4, Readers DEF GetNode, GetInv
  <2>2. ASSUME reader.there
        PROVE  /\ reader.id \notin PoolIDs /\ reader.id.vm \in Linked
    <3>1. reader.id \in Findable
      BY <2>1, <2>2 DEF GetInv
    <3>2. reader.id \notin PoolIDs
      BY <2>1, IDs DEF VMIDs, PoolIDs
    <3> QED BY <1>0, <2>1, <3>1, <3>2, Found
  <2>3. CASE /\ ~(reader.id.vm \in ManagedNodes /\ node[reader.id.vm].state = "named")
             /\ reader' = [reader EXCEPT !.pc = "NotFound"]
    <3>1. ~reader.there
      BY <1>0, <2>2, <2>3, LinkedPool
    <3>2. reader'.pc = "NotFound" /\ (reader'.there <=> reader.there)
      BY <2>1, <2>3 DEF Gets
    <3> QED BY <3>1, <3>2 DEF GetInv, GetFinds
  <2>4. CASE reader' = [reader EXCEPT !.pc = "pool",
                          !.uid = node[reader.id.vm].labels["uid"],
                          !.kind = kindOf(node[reader.id.vm].labels)]
    <3>1. /\ reader'.pc = "pool" /\ (reader'.there <=> reader.there)
          /\ reader'.id = reader.id
          /\ reader'.uid = node[reader.id.vm].labels["uid"]
          /\ reader'.kind = kindOf(node[reader.id.vm].labels)
      BY <2>1, <2>4 DEF Gets
    <3>2. ASSUME reader.there
          PROVE  <<reader'.uid, reader'.kind>> = Asked'
      <4>1. /\ node[reader.id.vm].of \in Claims \X Kinds
            /\ node[reader.id.vm].labels["uid"] = node[reader.id.vm].of[1]
            /\ kindOf(node[reader.id.vm].labels) = node[reader.id.vm].of[2]
        BY <1>0, <2>2, <3>2, LinkedPool
      <4>2. Asked' = node[reader.id.vm].of
        BY <1>1, <2>2, <3>1, <3>2 DEF Asked
      <4> QED BY <3>1, <4>1, <4>2
    <3> QED BY <1>1, <2>1, <3>1, <3>2 DEF GetInv, GetFinds
  <2> QED BY <1>4, <2>3, <2>4 DEF GetNode
<1>5. CASE GetPool
  <2>1. reader.op = "Get" /\ reader.pc = "pool" /\ reader \in Gets
    BY <1>0, <1>5, Readers DEF GetPool
  <2>2. /\ reader'.id = reader.id /\ reader'.uid = reader.uid
        /\ reader'.kind = reader.kind /\ (reader'.there <=> reader.there)
        /\ reader'.pc = IF reader.uid \in Claims /\ Exists(reader.uid, reader.kind)
                        THEN "found" ELSE "NotFound"
    BY <1>5, <2>1 DEF GetPool, Gets
  <2>3. ASSUME reader.there
        PROVE  reader.uid \in Claims /\ Exists(reader.uid, reader.kind)
    <3>1. reader.id \in Findable /\ <<reader.uid, reader.kind>> = Asked
      BY <2>1, <2>3 DEF GetInv, GetFinds
    <3>2. CASE reader.id \in PoolIDs /\ Exists(reader.id.name, reader.id.kind)
      BY <3>1, <3>2 DEF Asked, PoolIDs
    <3>3. CASE reader.id \notin PoolIDs /\ reader.id.vm \in Linked
      <4>1. /\ node[reader.id.vm].of \in Claims \X Kinds
            /\ Exists(node[reader.id.vm].of[1], node[reader.id.vm].of[2])
        BY <1>0, <3>3, LinkedPool
      <4> QED BY <3>1, <3>3, <4>1 DEF Asked
    <3>4. reader.id \in PoolIDs \union VMIDs
      BY <2>1 DEF Gets
    <3> QED BY <1>0, <3>1, <3>2, <3>3, <3>4, Found
  <2>4. Asked' = Asked
    BY <1>1, <2>2 DEF Asked
  <2> QED BY <1>1, <2>1, <2>2, <2>3, <2>4 DEF GetInv, GetFinds
<1> QED BY <1>2, <1>3, <1>4, <1>5 DEF Get

------------------------------------------------------------------------------
(* The invariants.                                                          *)

InventoryInv == TypeOK /\ ListInv /\ GetInv

LEMMA InvInit == Init => InventoryInv
  BY TypeInit DEF Init, InventoryInv, ListInv, GetInv, Idle

LEMMA ListLeavesGet ==
  ASSUME TypeOK, List
  PROVE  reader'.op = "List"
<1>1. reader.op = "List" => reader \in Lists
  BY Readers DEF TypeOK, ReaderType
<1>2. CASE ListSpotNodePools
  BY <1>2 DEF ListSpotNodePools
<1>3. CASE ListOnDemandNodePools
  BY <1>1, <1>3 DEF ListOnDemandNodePools, Lists
<1>4. CASE ListNodes
  BY <1>1, <1>4 DEF ListNodes, Lists
<1> QED BY <1>2, <1>3, <1>4 DEF List

LEMMA GetLeavesList ==
  ASSUME TypeOK, Get
  PROVE  reader'.op = "Get"
<1>1. reader.op = "Get" => reader \in Gets
  BY Readers DEF TypeOK, ReaderType
<1>2. CASE GetNode
  BY <1>1, <1>2 DEF GetNode, Gets
<1>3. CASE GetPool
  BY <1>1, <1>3 DEF GetPool, Gets
<1>4. ASSUME NEW i, GetByPoolID(i) \/ GetByNodeID(i) PROVE reader'.op = "Get"
  BY <1>4 DEF GetByPoolID, GetByNodeID
<1> QED BY <1>2, <1>3, <1>4 DEF Get

LEMMA InvNext == InventoryInv /\ [Next]_vars => InventoryInv'
<1> SUFFICES ASSUME InventoryInv, [Next]_vars PROVE InventoryInv'
  OBVIOUS
<1>0. TypeOK /\ ListInv /\ GetInv /\ TypeOK'
  BY TypeNext DEF InventoryInv
<1>1. CASE Outside
  BY <1>0, <1>1, ListOutside, GetOutside DEF InventoryInv
<1>2. CASE List
  BY <1>0, <1>2, ListSteps, ListLeavesGet DEF InventoryInv, GetInv
<1>3. CASE Get
  BY <1>0, <1>3, GetSteps, GetLeavesList DEF InventoryInv, ListInv
<1>4. CASE Return
  BY <1>0, <1>4 DEF Return, InventoryInv, ListInv, GetInv, Idle
<1>5. CASE UNCHANGED vars
  BY <1>0, <1>5 DEF vars, InventoryInv, ListInv, GetInv, GetFinds, Asked, PoolsTaken,
     OwnTaken, Own, Taken, Listed, Present, Lone, Linked, ManagedNodes, Findable, Exists
<1> QED BY <1>1, <1>2, <1>3, <1>4, <1>5 DEF Next

(* A List holds what was there throughout and nothing that never was,       *)
(* although its three calls see three moments: for every set of NodeClaims  *)
(* and servers.                                                             *)
THEOREM ListIsComplete == Spec => []ListComplete
<1>1. InventoryInv => ListComplete
  BY DEF InventoryInv, ListInv, PoolsTaken, ListComplete
<1> QED BY <1>1, InvInit, InvNext, PTL DEF Spec

(* The one Node of a NodeClaim is listed under its own ID.                  *)
THEOREM LoneNodeIsListed == Spec => []LoneNodeListed
<1>1. InventoryInv => LoneNodeListed
  BY DEF InventoryInv, ListInv, OwnTaken, LoneNodeListed
<1> QED BY <1>1, InvInit, InvNext, PTL DEF Spec

(* A Get finds what was there throughout.                                   *)
THEOREM GetAlwaysFinds == Spec => []GetFinds
<1>1. InventoryInv => GetFinds
  BY DEF InventoryInv, GetInv, GetFinds
<1> QED BY <1>1, InvInit, InvNext, PTL DEF Spec
==============================================================================
