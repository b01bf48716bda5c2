---------------------------- MODULE NodeClassStatus ----------------------------
(****************************************************************************)
(* The nodeclass.status controller (src/pkg/controllers/nodeclass): every   *)
(* five minutes it writes the names of the ServerClasses into the status of *)
(* the NodeClass, with a condition that says whether they could be listed.  *)
(* Without the condition karpenter does not provision.                      *)
(*                                                                          *)
(* It is one of the callers of InstanceTypes, and shares the list and its   *)
(* mutex with the others.                                                   *)
(****************************************************************************)
EXTENDS InstanceTypes

CONSTANT Status  \* the controller's goroutine

ASSUME StatusAssumption == Status \in Callers /\ All \in Wants

VARIABLES
  status,  \* the NodeClass's status: the condition and the names
  due,     \* the NodeClass is in the queue
  timer,   \* it will be put there after requeueAfter
  patch    \* the status the controller is about to write, None at other times

statusVars == <<status, due, timer, patch>>
nodeClassVars == <<typeVars, statusVars>>

NodeClassState == [discovered : {"Unknown", "True", "False"},
                   names : SUBSET Classes]

None == [discovered |-> "None"]

StatusTypeOK ==
  /\ TypeOK
  /\ status \in NodeClassState
  /\ due \in BOOLEAN /\ timer \in BOOLEAN
  /\ patch \in NodeClassState \union {None}
  /\ patch # None => call[Status] = Resting

StatusInit ==
  /\ Init
  /\ status = [discovered |-> "Unknown", names |-> {}]
  /\ due = TRUE /\ timer = FALSE
  /\ patch = None

------------------------------------------------------------------------------
(* Reconcile.                                                               *)

(* The NodeClass is taken from the queue and read, and List called. A       *)
(* request that is put off until the timer ends is still put off.           *)
Reconcile ==
  /\ due /\ patch = None
  /\ Start(Status, All)
  /\ due' = FALSE
  /\ UNCHANGED <<status, timer, patch>>

(* List has returned. Without a list the names stay those of the last one.  *)
reconcileServerClasses ==
  /\ Return(Status)
  /\ patch' = IF Answered(Status)
              THEN [discovered |-> "True", names |-> call[Status].took.classes]
              ELSE [status EXCEPT !.discovered = "False"]
  /\ UNCHANGED <<status, due, timer>>

(* The status is patched. What changed in it comes back as an event.        *)
Patch ==
  /\ patch # None
  /\ status' = patch
  /\ due' = (due \/ patch # status)
  /\ timer' = TRUE
  /\ patch' = None
  /\ UNCHANGED typeVars

(* A conflict that ends the matter.                                         *)
PatchConflictsForgotten ==
  /\ patch # None
  /\ patch' = None
  /\ UNCHANGED <<typeVars, status, due, timer>>

(* Somebody else has changed the NodeClass: the patch is dropped, and the   *)
(* reconciliation still counts as done and is repeated after the period.    *)
PatchConflicts ==
  /\ patch # None
  /\ timer' = TRUE
  /\ patch' = None
  /\ UNCHANGED <<typeVars, status, due>>

(* Any other error puts the NodeClass back into the queue.                  *)
PatchFails ==
  /\ patch # None
  /\ due' = TRUE
  /\ patch' = None
  /\ UNCHANGED <<typeVars, status, timer>>

(* requeueAfter has passed.                                                 *)
Requeue ==
  /\ timer
  /\ timer' = FALSE /\ due' = TRUE
  /\ UNCHANGED <<typeVars, status, patch>>

------------------------------------------------------------------------------
(* Everything else: the other callers, the outside, the controller's call.  *)
(* Reports, which do not touch the list, are left to Capacity.              *)
Others ==
  /\ \/ \E c \in Callers \ {Status} :
          (\E want \in Wants : Start(c, want)) \/ Return(c)
     \/ \E c \in Callers : CallStep(c)
     \/ Outside
  /\ UNCHANGED statusVars

(* The process ends: when it starts again every NodeClass is reconciled.    *)
StatusRestart ==
  /\ Forget
  /\ due' = TRUE /\ timer' = FALSE /\ patch' = None
  /\ UNCHANGED status

StatusStep ==
  Reconcile \/ reconcileServerClasses \/ Patch \/ PatchConflicts \/ PatchFails \/ Requeue

StatusNext == StatusStep \/ Others \/ StatusRestart

StatusSpec == StatusInit /\ [][StatusNext]_nodeClassVars

(* Time passes, a request to Rackspace ends in an answer or an error, the   *)
(* mutex is got in turn and the controller goes on. What it tries again and *)
(* again succeeds at some time: Rackspace lists, the API server takes the   *)
(* patch. Nobody else need ever call.                                       *)
Alone(A) == A /\ UNCHANGED statusVars

StatusFairness ==
  /\ WF_nodeClassVars(Requeue) /\ WF_nodeClassVars(Alone(Expire))
  /\ \A c \in Callers :
       WF_nodeClassVars(Alone(CallStep(c))) /\ SF_nodeClassVars(Alone(Lock(c)))
  /\ SF_nodeClassVars(Alone(ListAnswers(Status)))
  /\ WF_nodeClassVars(Reconcile) /\ WF_nodeClassVars(reconcileServerClasses)
  /\ WF_nodeClassVars(Patch \/ PatchConflicts \/ PatchFails)
  /\ SF_nodeClassVars(Patch /\ patch.discovered = "True")

FairStatusSpec == StatusSpec /\ StatusFairness

------------------------------------------------------------------------------
(* The NodeClass is always in the queue, waits for its period, or is being   *)
(* reconciled: no outcome of Reconcile takes it out of the controller's     *)
(* hands, which alone would leave a condition that is False for good.       *)
NeverForgotten == due \/ timer \/ patch # None \/ call[Status] # Resting

(* Every call returns, with an answer or an error, whoever else holds the   *)
(* mutex meanwhile and however the requests made under it end.              *)
CallReturns ==
  \A c \in Callers :
    call[c].pc \in {"lock", "load", "list", "disks"}
      ~> call[c].pc \notin {"lock", "load", "list", "disks"}

(* Once Rackspace's list no longer changes and the process no longer ends,  *)
(* the NodeClass names that list and says that it does, again and again,    *)
(* whatever failed, conflicted or restarted before: no outcome of a         *)
(* reconciliation is the last.                                              *)
StatusCatchesUp ==
  \A S \in Offers :
    (<>[](offered = S) /\ <>[][~StatusRestart]_nodeClassVars)
      => []<>(status = [discovered |-> "True", names |-> S])
==============================================================================
