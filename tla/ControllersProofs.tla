--------------------------- MODULE ControllersProofs ---------------------------
(****************************************************************************)
(* The two controllers that use the instance type provider: Capacity, which *)
(* feeds it, and NodeClassStatus, which is one of its callers; for every    *)
(* number of Nodes and callers, every set of classes and all sizes. Every   *)
(* step of a controller is a step of the provider or leaves the provider    *)
(* alone, so that what InstanceTypesProofs shows of the provider holds with *)
(* either. The two specifications have no variable in common but the        *)
(* provider's.                                                              *)
(****************************************************************************)
EXTENDS Capacity, NodeClassStatus, InstanceTypesProofs

------------------------------------------------------------------------------
(* Capacity.                                                                *)

ControllerType ==
  /\ node \in [Nodes -> {"none", "joined", "reported", "removed"}]
  /\ label \in [Nodes -> Classes \union {NoLabel, NoClaim}]
  /\ queue \subseteq Nodes
  /\ worker \in Worker \union {Idle}
  /\ worker.pc = "update" => worker.class \in Classes

CapacityInv == ProviderInv /\ ControllerType

LEMMA AtWork ==
  ASSUME ControllerType, worker.pc # "idle"
  PROVE  worker \in Worker
  BY DEF ControllerType, Idle

LEMMA Initially == CapacityInit => CapacityInv
  BY ProviderInit DEF CapacityInit, CapacityInv, ControllerType, Idle

LEMMA NodeSteps ==
  ASSUME ControllerType, NEW n \in Nodes, NodeStep(n)
  PROVE  ControllerType' /\ UNCHANGED typeVars
<1>1. CASE JoinNode(n) \/ ReportNode(n) \/ RemoveNode(n)
  BY <1>1 DEF JoinNode, ReportNode, RemoveNode, ControllerType
<1>2. CASE Heartbeat(n)
  BY <1>2 DEF Heartbeat, nodeVars, ControllerType
<1>3. CASE DeleteClaim(n)
  BY <1>3 DEF DeleteClaim, controllerVars, ControllerType
<1>4. ASSUME NEW t \in Classes, Stamp(n, t) PROVE ControllerType' /\ UNCHANGED typeVars
  BY <1>4 DEF Stamp, controllerVars, ControllerType
<1> QED BY <1>1, <1>2, <1>3, <1>4 DEF NodeStep

LEMMA ControllerSteps ==
  ASSUME ControllerType, ControllerStep
  PROVE  ControllerType' /\ (UNCHANGED typeVars \/ AnyReport)
<1>1. ASSUME NEW n \in Nodes, ReadNode(n) PROVE ControllerType' /\ UNCHANGED typeVars
  <2>1. [pc |-> "claim", node |-> n, class |-> NoLabel] \in Worker
    BY DEF Worker
  <2> QED BY <1>1, <2>1 DEF ReadNode, nodeVars, ControllerType, Idle
<1>2. CASE ReadClaim
  <2>1. worker \in Worker
    BY <1>2, AtWork DEF ReadClaim
  <2>2. CASE worker' = Idle
    BY <1>2, <2>2 DEF ReadClaim, nodeVars, ControllerType, Idle
  <2>3. CASE /\ label[worker.node] \in Classes
             /\ worker' = [worker EXCEPT !.pc = "update", !.class = label[worker.node]]
    <3>1. worker' \in Worker /\ worker'.class \in Classes
      BY <2>1, <2>3 DEF Worker
    <3> QED BY <1>2, <3>1 DEF ReadClaim, nodeVars, ControllerType
  <2> QED BY <1>2, <2>2, <2>3 DEF ReadClaim
<1>3. CASE Record
  <2>1. worker \in Worker /\ worker.class \in Classes
    BY <1>3, AtWork DEF Record, ControllerType
  <2>2. Reported[worker.node] \in Sizes
    BY <2>1, ReportedAssumption DEF Worker
  <2>3. AnyReport
    BY <1>3, <2>1, <2>2 DEF Record, AnyReport
  <2> QED BY <1>3, <2>3 DEF Record, nodeVars, ControllerType, Idle
<1>4. CASE ReadFails
  <2>1. worker \in Worker
    BY <1>4, AtWork DEF ReadFails
  <2>2. worker.node \in Nodes
    BY <2>1 DEF Worker
  <2> QED BY <1>4, <2>2 DEF ReadFails, nodeVars, ControllerType, Idle
<1> QED BY <1>1, <1>2, <1>3, <1>4 DEF ControllerStep

LEMMA ServeSteps ==
  ASSUME ControllerType, Serve \/ Restart
  PROVE  ControllerType' /\ ProviderStep
<1>1. CASE Serve
  BY <1>1 DEF Serve, nodeVars, controllerVars, ControllerType, ProviderStep
<1>2. CASE Restart
  BY <1>2 DEF Restart, nodeVars, ControllerType, ProviderStep, Idle
<1> QED BY <1>1, <1>2

LEMMA NextKeeps == CapacityInv /\ [CapacityNext]_allVars => CapacityInv' /\ Step
<1> SUFFICES ASSUME CapacityInv, [CapacityNext]_allVars PROVE CapacityInv' /\ Step
  OBVIOUS
<1>0. ProviderInv /\ ControllerType
  BY DEF CapacityInv
<1>1. ControllerType' /\ Step
  <2>1. CASE CapacityNext
    BY <1>0, <2>1, NodeSteps, ControllerSteps, ServeSteps DEF CapacityNext, Step
  <2>2. CASE UNCHANGED allVars
    BY <1>0, <2>2 DEF allVars, nodeVars, controllerVars, ControllerType, Step
  <2> QED BY <2>1, <2>2
<1> QED BY <1>0, <1>1, ProviderNext DEF CapacityInv

(* The state keeps its type, and the controller never records for anything  *)
(* but a class, whatever becomes of the NodeClaim between its two reads.    *)
THEOREM CapacityTypeCorrect == CapacitySpec => []CapacityTypeOK
<1>1. CapacityInv => CapacityTypeOK
  BY ProviderSafe DEF CapacityInv, ControllerType, CapacityTypeOK
<1> QED BY <1>1, Initially, NextKeeps, PTL DEF CapacitySpec

(* What the controller has recorded is the smallest reported, and what      *)
(* karpenter is told fits the Nodes that had reported when it asked: for    *)
(* any number of Nodes, labels that change, and restarts.                   *)
THEOREM CapacityFits == CapacitySpec => [](SmallestSeen /\ AnswersFitNodes)
<1>1. CapacityInv => SmallestSeen /\ AnswersFitNodes
  BY ProviderSafe DEF CapacityInv
<1> QED BY <1>1, Initially, NextKeeps, PTL DEF CapacitySpec

(* Karpenter, and whoever else asks, sees one cache while Nodes report, and  *)
(* nobody who asks waits for one who has gone.                              *)
THEOREM CapacityKeepsCache == CapacitySpec => ImplementsCache /\ []SomebodyGoesOn
<1>1. CapacityInit => Shared!Init
  BY CacheInit DEF CapacityInit
<1>2. CapacityInv /\ [CapacityNext]_allVars => [Shared!Next]_Shared!cacheVars
  BY NextKeeps, CacheStep DEF CapacityInv, ProviderInv
<1>3. CapacityInv => SomebodyGoesOn
  BY ProviderSafe DEF CapacityInv
<1> QED
  BY <1>1, <1>2, <1>3, Initially, NextKeeps, PTL
     DEF CapacitySpec, ImplementsCache, Shared!Spec

------------------------------------------------------------------------------
(* NodeClassStatus. The NodeClass is not forgotten, and while its status is *)
(* about to be written the controller has no call.                          *)
StatusType ==
  /\ status \in NodeClassState
  /\ due \in BOOLEAN /\ timer \in BOOLEAN
  /\ patch \in NodeClassState \union {None}
  /\ patch # None => call[Status] = Resting

StatusInv == ProviderInv /\ StatusType /\ NeverForgotten

LEMMA StatusInitially == StatusInit => StatusInv
<1> SUFFICES ASSUME StatusInit PROVE StatusInv
  OBVIOUS
<1>1. StatusType
  BY DEF StatusInit, StatusType, NodeClassState
<1>2. NeverForgotten
  BY DEF StatusInit, NeverForgotten
<1> QED BY <1>1, <1>2, ProviderInit DEF StatusInit, StatusInv

LEMMA NoPatch == \A p \in NodeClassState : p # None
  BY DEF NodeClassState, None

(* The controller's steps.                                                  *)
LEMMA StatusSteps ==
  ASSUME TypeOK, StatusType, NeverForgotten, StatusStep
  PROVE  StatusType' /\ NeverForgotten' /\ (UNCHANGED typeVars \/ ProviderStep)
<1>1. CASE Reconcile
  <2> DEFINE new == [pc |-> "lock", want |-> All, took |-> NoCache, todo |-> {},
                     answer |-> Unmeasured, began |-> seen]
  <2>1. call' = [call EXCEPT ![Status] = new] /\ new.pc = "lock"
    BY <1>1 DEF Reconcile, Start
  <2> HIDE DEF new
  <2>2. call'[Status].pc = "lock"
    BY <2>1, StatusAssumption DEF TypeOK
  <2>3. call'[Status] # Resting
    BY <2>2 DEF Resting
  <2>4. ProviderStep
    BY <1>1, StatusAssumption DEF Reconcile, ProviderStep
  <2> QED BY <1>1, <2>3, <2>4 DEF Reconcile, StatusType, NeverForgotten
<1>2. CASE reconcileServerClasses
  <2>1. call' = [call EXCEPT ![Status] = Resting] /\ call[Status].pc # "idle"
    BY <1>2 DEF reconcileServerClasses, Return, Answered
  <2>2. call'[Status] = Resting /\ call[Status] \in Call
    BY <2>1, InCall, StatusAssumption DEF TypeOK
  <2>3. call[Status].took.classes \in SUBSET Classes
    BY <2>2 DEF Call, Cache
  <2>4. patch' \in NodeClassState
    BY <1>2, <2>3 DEF reconcileServerClasses, StatusType, NodeClassState
  <2>5. ProviderStep
    BY <1>2, StatusAssumption DEF reconcileServerClasses, ProviderStep
  <2> QED
    BY <1>2, <2>2, <2>4, <2>5, NoPatch DEF reconcileServerClasses, StatusType, NeverForgotten
<1>3. CASE Patch \/ PatchConflicts \/ PatchFails
  BY <1>3, NoPatch
     DEF Patch, PatchConflicts, PatchFails, typeVars, StatusType, NeverForgotten
<1>4. CASE Requeue
  BY <1>4 DEF Requeue, typeVars, StatusType, NeverForgotten
<1> QED BY <1>1, <1>2, <1>3, <1>4 DEF StatusStep

LEMMA NotResting == \A x : x.pc # "idle" => x # Resting
  BY DEF Resting

(* A call under way does not come to rest by itself.                        *)
LEMMA CallGoesOn ==
  ASSUME TypeOK, NEW c \in Callers, CallStep(c)
  PROVE  /\ call[c] # Resting /\ call'[c] # Resting
         /\ \A d \in Callers : d # c => call'[d] = call[d]
<1>0. call[c].pc # "idle"
  BY DEF CallStep, Lock, LoadFresh, LoadExpired, ListAnswers, ListFails,
         DisksAnswer, DisksFail, Translate
<1>1. call[c] \in Call /\ call[c] # Resting
  BY <1>0, InCall, NotResting
<1>a. ASSUME NEW new, call' = [call EXCEPT ![c] = new], new.pc # "idle"
      PROVE  /\ call'[c] # Resting
             /\ \A d \in Callers : d # c => call'[d] = call[d]
  BY <1>a, OneCall, NotResting
<1>b. ASSUME NEW list \in Cache, call' = [call EXCEPT ![c] = took(c, list)]
      PROVE  /\ call'[c] # Resting
             /\ \A d \in Callers : d # c => call'[d] = call[d]
  <2>1. took(c, list).pc # "idle"
    BY <1>1, TookType
  <2> QED BY <1>a, <1>b, <2>1
<1>2. CASE Lock(c) \/ LoadExpired(c) \/ ListFails(c)
  <2>1. PICK next \in {"load", "list", "failed"} :
          call' = [call EXCEPT ![c] = [call[c] EXCEPT !.pc = next]]
    BY <1>2 DEF Lock, LoadExpired, ListFails
  <2>2. [call[c] EXCEPT !.pc = next].pc # "idle"
    BY <1>1, MovedType
  <2> QED BY <1>1, <1>a, <2>1, <2>2
<1>3. CASE LoadFresh(c)
  BY <1>1, <1>3, <1>b DEF LoadFresh, TypeOK
<1>4. CASE ListAnswers(c)
  <2> DEFINE new == [call[c] EXCEPT !.pc = "disks", !.took.classes = offered]
  <2>1. new.pc = "disks" /\ call' = [call EXCEPT ![c] = new]
    BY <1>1, <1>4 DEF ListAnswers, Call
  <2> HIDE DEF new
  <2> QED BY <1>1, <1>a, <2>1
<1>5. CASE DisksAnswer(c) \/ DisksFail(c)
  <2>1. {t \in offered : Sold[t].disk # 0} \in SUBSET Classes /\ {} \in SUBSET Classes
    BY OffersAssumption DEF TypeOK
  <2>2. \E disks \in SUBSET Classes : Refreshed(c, disks)
    BY <1>5, <2>1 DEF DisksAnswer, DisksFail
  <2>3. call[c].took.classes \in SUBSET Classes
    BY <1>1 DEF Call, Cache
  <2>4. \E list \in Cache : call' = [call EXCEPT ![c] = took(c, list)]
    BY <2>2, <2>3 DEF Refreshed, Cache
  <2> QED BY <1>1, <1>b, <2>4
<1>6. ASSUME NEW t \in Classes, Translate(c, t)
      PROVE  /\ call'[c] # Resting
             /\ \A d \in Callers : d # c => call'[d] = call[d]
  <2> DEFINE made == capacity(t, call[c].took.disks, measured[t])
             new == [call[c] EXCEPT !.todo = @ \ {t}, !.answer[t] = made]
  <2>1. call[c].pc = "translate" /\ call' = [call EXCEPT ![c] = new]
    BY <1>6 DEF Translate
  <2> HIDE DEF made
  <2>2. new.pc = "translate"
    BY <1>1, <2>1 DEF Call
  <2> HIDE DEF new
  <2> QED BY <1>a, <2>1, <2>2
<1> QED BY <1>1, <1>2, <1>3, <1>4, <1>5, <1>6 DEF CallStep

LEMMA OtherSteps ==
  ASSUME TypeOK, StatusType, NeverForgotten, Others \/ StatusRestart
  PROVE  StatusType' /\ NeverForgotten' /\ ProviderStep
<1>a. ASSUME ProviderStep, UNCHANGED statusVars,
             call'[Status] = Resting <=> call[Status] = Resting
      PROVE  StatusType' /\ NeverForgotten' /\ ProviderStep
  BY <1>a DEF statusVars, StatusType, NeverForgotten
<1>1. ASSUME NEW c \in Callers \ {Status}, NEW want \in Wants, Start(c, want),
             UNCHANGED statusVars
      PROVE  StatusType' /\ NeverForgotten' /\ ProviderStep
  <2>1. call'[Status] = call[Status]
    BY <1>1, StatusAssumption DEF Start
  <2> QED BY <1>1, <1>a, <2>1 DEF ProviderStep
<1>2. ASSUME NEW c \in Callers \ {Status}, Return(c), UNCHANGED statusVars
      PROVE  StatusType' /\ NeverForgotten' /\ ProviderStep
  <2>1. call'[Status] = call[Status]
    BY <1>2, StatusAssumption DEF Return
  <2> QED BY <1>2, <1>a, <2>1 DEF ProviderStep
<1>3. ASSUME NEW c \in Callers, CallStep(c), UNCHANGED statusVars
      PROVE  StatusType' /\ NeverForgotten' /\ ProviderStep
  <2>1. call'[Status] = Resting <=> call[Status] = Resting
    BY <1>3, CallGoesOn, StatusAssumption
  <2> QED BY <1>3, <1>a, <2>1 DEF ProviderStep
<1>4. CASE Outside /\ UNCHANGED statusVars
  <2>1. call' = call
    BY <1>4 DEF Outside, ChangeOffer, Expire
  <2> QED BY <1>4, <1>a, <2>1 DEF ProviderStep
<1>5. CASE StatusRestart
  BY <1>5 DEF StatusRestart, StatusType, NeverForgotten, ProviderStep
<1> QED BY <1>1, <1>2, <1>3, <1>4, <1>5 DEF Others

LEMMA StatusKeeps == StatusInv /\ [StatusNext]_nodeClassVars => StatusInv' /\ Step
<1> SUFFICES ASSUME StatusInv, [StatusNext]_nodeClassVars PROVE StatusInv' /\ Step
  OBVIOUS
<1>0. TypeOK /\ ProviderInv /\ StatusType /\ NeverForgotten
  BY ProviderSafe DEF StatusInv
<1>1. StatusType' /\ NeverForgotten' /\ Step
  <2>1. CASE StatusNext
    BY <1>0, <2>1, StatusSteps, OtherSteps DEF StatusNext, Step
  <2>2. CASE UNCHANGED nodeClassVars
    <3>1. UNCHANGED typeVars /\ UNCHANGED statusVars
      BY <2>2 DEF nodeClassVars
    <3>2. call' = call
      BY <3>1 DEF typeVars
    <3> QED BY <1>0, <3>1, <3>2 DEF statusVars, StatusType, NeverForgotten, Step
  <2> QED BY <2>1, <2>2
<1> QED BY <1>0, <1>1, ProviderNext DEF StatusInv

(* The controller's state keeps its type: it never has a status to write    *)
(* and a call under way.                                                    *)
THEOREM StatusTypeCorrect == StatusSpec => []StatusTypeOK
<1>1. StatusInv => StatusTypeOK
  BY ProviderSafe DEF StatusInv, StatusType, StatusTypeOK
<1> QED BY <1>1, StatusInitially, StatusKeeps, PTL DEF StatusSpec

(* The NodeClass is reconciled again after every outcome, conflicts and     *)
(* restarts included.                                                       *)
THEOREM NeverLost == StatusSpec => []NeverForgotten
<1>1. StatusInv => NeverForgotten
  BY DEF StatusInv
<1> QED BY <1>1, StatusInitially, StatusKeeps, PTL DEF StatusSpec

(* With the controller among the callers, any number of them: only an       *)
(* expired list is refreshed, by one of them, and somebody can always go on.*)
THEOREM StatusFetches == StatusSpec => [](RefreshOnlyExpired /\ SomebodyGoesOn)
<1>1. StatusInv => RefreshOnlyExpired /\ SomebodyGoesOn
  BY ProviderSafe DEF StatusInv
<1> QED BY <1>1, StatusInitially, StatusKeeps, PTL DEF StatusSpec

(* The names written into the status, as every other answer, are of a list  *)
(* that had not expired.                                                    *)
THEOREM StatusWithdrawn == StatusSpec => WithdrawnStaysOut
<1>1. StatusInv /\ [StatusNext]_nodeClassVars
        => [\A c \in Callers : Taking(c) => call'[c].todo \intersect dropped = {}]_typeVars
  <2> SUFFICES ASSUME StatusInv, [StatusNext]_nodeClassVars
               PROVE  \A c \in Callers :
                        Taking(c) => call'[c].todo \intersect dropped = {}
    OBVIOUS
  <2> QED BY StatusKeeps, FetchStep DEF StatusInv, ProviderInv
<1> QED BY <1>1, StatusInitially, StatusKeeps, PTL DEF StatusSpec, WithdrawnStaysOut

(* And all of them see one cache.                                           *)
THEOREM StatusKeepsCache == StatusSpec => ImplementsCache
<1>1. StatusInit => Shared!Init
  BY CacheInit DEF StatusInit
<1>2. StatusInv /\ [StatusNext]_nodeClassVars => [Shared!Next]_Shared!cacheVars
  BY StatusKeeps, CacheStep DEF StatusInv, ProviderInv
<1> QED
  BY <1>1, <1>2, StatusInitially, StatusKeeps, PTL
     DEF StatusSpec, ImplementsCache, Shared!Spec
==============================================================================
