-------------------------- MODULE ProvisioningProofs --------------------------
(****************************************************************************)
(* Provisioning, for every set of NodeClaims, requirements, ServerClasses   *)
(* and lists.                                                               *)
(****************************************************************************)
EXTENDS Provisioning, TLAPS

------------------------------------------------------------------------------
(* Choosing.                                                                *)

(* What an attempt picks is one of the types the NodeClaim allows, of a     *)
(* capacity type it permits, and KindsOf accounts for it.                   *)
LEMMA Choosing ==
  ASSUME NEW r \in Requirement, NEW cat \in Catalogs, Picks(cat, r) # {}
  PROVE  /\ Picks(cat, r) \subseteq Types
         /\ ChosenKind(cat, r) \in Kinds
         /\ ChosenKind(cat, r) \in KindsOf(r)
         /\ Permits(r, ChosenKind(cat, r))
  BY DEF Requirement, Picks, Compatible, ChosenKind, Kinds, KindsOf

LEMMA KindsOfPermitted ==
  ASSUME NEW r \in Requirement, NEW k \in KindsOf(r)
  PROVE  k \in Kinds /\ Permits(r, k)
  BY Choosing DEF KindsOf

------------------------------------------------------------------------------
(* Types.                                                                   *)

LEMMA RequirementOfClaim ==
  ASSUME TypeOK, NEW c \in Claims
  PROVE  req[c] \in Requirement
  BY RequirementsAssumption DEF TypeOK

LEMMA Working ==
  ASSUME TypeOK, NEW c \in Claims, worker[c].pc # "idle"
  PROVE  worker[c] \in Worker /\ worker[c] # Idle
<1>1. worker[c] \in Worker \union {Idle}
  BY DEF TypeOK
<1>2. Idle.pc = "idle"
  BY DEF Idle
<1> QED BY <1>1, <1>2

LEMMA AdmitType ==
  ASSUME NEW p \in Pool, NEW t \in Types,
         NEW origin \in {"attempt", "late", "posthumous"}
  PROVE  Admit(p, t, origin) \in Pool
  BY DEF Admit, Pool

LEMMA Naming ==
  ASSUME NEW k \in Kinds, NEW c \in Claims
  PROVE  PoolID(k, c) \in IDs
  BY DEF IDs, PoolIDs

LEMMA TypeInit == Init => TypeOK
<1>1. NoPool \in Pool
  BY DEF NoPool, Pool
<1>2. NoID \in IDs
  BY DEF IDs
<1> SUFFICES ASSUME Init PROVE TypeOK
  OBVIOUS
<1>3. worker \in [Claims -> Worker \union {Idle}]
  BY DEF Init
<1>4. pool \in [Claims -> [Kinds -> Pool]]
  BY <1>1 DEF Init
<1>5. providerID \in [Claims -> IDs]
  BY <1>2 DEF Init
<1>6. /\ req \in [Claims -> Requirements]
      /\ phase \in [Claims -> {"live", "deleting", "gone"}]
      /\ launched \in [Claims -> BOOLEAN]
      /\ label \in [Claims -> Kinds \union {""}]
      /\ flavor \in [Claims -> Types \union {NoType}]
      /\ accepted \in [Claims -> BOOLEAN]
      /\ catalog \in Catalogs
      /\ wire \subseteq Request
  BY DEF Init
<1> QED BY <1>3, <1>4, <1>5, <1>6 DEF TypeOK

LEMMA TypeNext == TypeOK /\ [Next]_vars => TypeOK'
<1> SUFFICES ASSUME TypeOK, [Next]_vars PROVE TypeOK'
  OBVIOUS
<1> USE DEF TypeOK
<1>1. ASSUME NEW c \in Claims, StartCreate(c) PROVE TypeOK'
  <2>1. PICK t \in Picks(catalog, req[c]) :
          worker' = [worker EXCEPT ![c] =
                      [pc |-> "create", kind |-> ChosenKind(catalog, req[c]),
                       type |-> t, seen |-> providerID[c], assigned |-> FALSE]]
    BY <1>1 DEF StartCreate
  <2>2. t \in Types /\ ChosenKind(catalog, req[c]) \in Kinds
    BY <2>1, Choosing, RequirementOfClaim
  <2>3. [pc |-> "create", kind |-> ChosenKind(catalog, req[c]), type |-> t,
         seen |-> providerID[c], assigned |-> FALSE] \in Worker
    BY <2>2 DEF Worker
  <2> QED BY <1>1, <2>1, <2>3 DEF StartCreate, claimVars
<1>2. ASSUME NEW c \in Claims, CreatePool(c) PROVE TypeOK'
  <2>1. worker[c] \in Worker
    BY <1>2, Working DEF CreatePool
  <2>2. Admit(pool[c][worker[c].kind], worker[c].type, "attempt") \in Pool
    BY <2>1, AdmitType DEF Worker
  <2>3. [worker[c] EXCEPT !.pc = "get"] \in Worker
    BY <2>1 DEF Worker
  <2>4. worker' \in [Claims -> Worker \union {Idle}]
    BY <1>2, <2>3 DEF CreatePool
  <2>5. pool' \in [Claims -> [Kinds -> Pool]]
    BY <1>2, <2>1, <2>2 DEF CreatePool, Worker
  <2> QED BY <1>2, <2>4, <2>5 DEF CreatePool, claimVars
<1>3. ASSUME NEW c \in Claims, AbandonCreate(c) PROVE TypeOK'
  <2>1. RequestOf(c) \in Request
    BY <1>3, Working DEF AbandonCreate, RequestOf, Request, Worker
  <2> QED BY <1>3, <2>1 DEF AbandonCreate, claimVars
<1>4. ASSUME NEW c \in Claims, GetPool(c) PROVE TypeOK'
  <2>1. worker[c] \in Worker
    BY <1>4, Working DEF GetPool
  <2>2. [worker[c] EXCEPT !.pc = "check"] \in Worker
    BY <2>1 DEF Worker
  <2> QED BY <1>4, <2>2 DEF GetPool, claimVars
<1>5. ASSUME NEW c \in Claims, CheckAssigned(c) PROVE TypeOK'
  <2>1. worker[c] \in Worker
    BY <1>5, Working DEF CheckAssigned
  <2>2. ServerAssigned(c) \in BOOLEAN
    BY DEF ServerAssigned
  <2>3. [worker[c] EXCEPT !.pc = "patch", !.assigned = ServerAssigned(c)] \in Worker
    BY <2>1, <2>2 DEF Worker
  <2> QED BY <1>5, <2>3 DEF CheckAssigned, claimVars
<1>6. ASSUME NEW c \in Claims, Patch(c) PROVE TypeOK'
  <2>1. worker[c] \in Worker
    BY <1>6, Working DEF Patch, hydrate
  <2>2. PoolID(worker[c].kind, c) \in IDs
    <3>1. worker[c].kind \in Kinds
    BY <2>1 DEF Worker
  <3> QED BY <3>1, Naming
  <2>3. worker[c].assigned \in BOOLEAN
    BY <2>1 DEF Worker
  <2> QED BY <1>6, <2>1, <2>2, <2>3 DEF Patch, hydrate, Worker
<1>7. ASSUME NEW c \in Claims, StepFails(c) PROVE TypeOK'
  BY <1>7 DEF StepFails, claimVars
<1>8. ASSUME NEW c \in Claims, MarkDeleted(c) PROVE TypeOK'
  BY <1>8 DEF MarkDeleted
<1>9. ASSUME NEW c \in Claims, DeleteStep(c) PROVE TypeOK'
  <2>1. TargetKind(c) \in Kinds /\ NoPool \in Pool
    BY DEF TargetKind, FallbackKind, FallbackOf, Kinds, NoPool, Pool
  <2>2. CASE DeleteAccepted(c)
    BY <2>1, <2>2 DEF DeleteAccepted
  <2>3. CASE DeleteReplyLost(c)
    BY <2>1, <2>3 DEF DeleteReplyLost, claimVars
  <2>4. CASE DeleteNotFound(c)
    BY <2>4 DEF DeleteNotFound
  <2>5. CASE ConfirmGone(c)
    BY <2>5 DEF ConfirmGone
  <2> QED BY <1>9, <2>2, <2>3, <2>4, <2>5 DEF DeleteStep
<1>10. ASSUME NEW c \in Claims, NEW k \in Kinds, PoolStep(c, k) PROVE TypeOK'
  <2>1. pool[c][k] \in Pool /\ NoPool \in Pool
    BY DEF NoPool, Pool
  <2>2. \A s \in {"attached", "lost"} : [pool[c][k] EXCEPT !.state = s] \in Pool
    BY <2>1 DEF Pool
  <2>3. PICK q \in Pool : pool' = [pool EXCEPT ![c][k] = q]
    <3>1. CASE AttachServer(c, k)
      BY <2>2, <3>1 DEF AttachServer
    <3>2. CASE LoseServer(c, k)
      BY <2>2, <3>2 DEF LoseServer
    <3>3. CASE DropPool(c, k)
      BY <2>1, <3>3 DEF DropPool
    <3> QED BY <1>10, <3>1, <3>2, <3>3 DEF PoolStep
  <2>4. UNCHANGED <<req, claimVars, catalog, worker, wire>>
    BY <1>10 DEF PoolStep, AttachServer, LoseServer, DropPool
  <2> QED BY <2>3, <2>4 DEF claimVars
<1>11. ASSUME NEW m \in wire, DeliverLate(m) \/ LoseLate(m) PROVE TypeOK'
  <2>1. m.claim \in Claims /\ m.kind \in Kinds /\ m.type \in Types
    BY DEF Request
  <2>2. \A origin \in {"late", "posthumous"} :
          Admit(pool[m.claim][m.kind], m.type, origin) \in Pool
    BY <2>1, AdmitType
  <2>3. CASE DeliverLate(m)
    <3>1. PICK origin \in {"late", "posthumous"} :
            pool' = [pool EXCEPT ![m.claim][m.kind] = Admit(@, m.type, origin)]
      BY <2>3 DEF DeliverLate
    <3>2. pool' \in [Claims -> [Kinds -> Pool]]
      BY <2>1, <2>2, <3>1
    <3> QED BY <2>3, <3>2 DEF DeliverLate, claimVars
  <2>4. CASE LoseLate(m)
    BY <2>4 DEF LoseLate, claimVars
  <2> QED BY <1>11, <2>3, <2>4
<1>12. ASSUME NEW c \in Claims, NEW v \in VMs, Relink(c, v) PROVE TypeOK'
  <2>1. VMID(v) \in IDs
    BY DEF IDs, VMIDs
  <2> QED BY <1>12, <2>1 DEF Relink
<1>13. CASE RefreshCatalog
  BY <1>13 DEF RefreshCatalog, claimVars
<1>14. CASE Restart
  <2>1. \A c \in Claims : worker[c].pc = "create" => RequestOf(c) \in Request
    BY Working DEF RequestOf, Request, Worker
  <2> QED BY <1>14, <2>1 DEF Restart, claimVars
<1>15. CASE UNCHANGED vars
  BY <1>15 DEF vars, claimVars
<1> QED
  BY <1>1, <1>2, <1>3, <1>4, <1>5, <1>6, <1>7, <1>8, <1>9, <1>10, <1>11, <1>12,
     <1>13, <1>14, <1>15 DEF Next, Lifecycle, CreateStep

(* Every variable has its type: the NodeClaims', the list's, the workers',  *)
(* the pools' and the late requests'.                                       *)
THEOREM TypeCorrect == Spec => []TypeOK
  BY TypeInit, TypeNext, PTL DEF Spec
------------------------------------------------------------------------------
(* The inductive invariant.                                                 *)

(* Whatever has been chosen for a NodeClaim, by an attempt, in its label,   *)
(* in a pool or in a late request, is a capacity type it may be given.      *)
KindsKnown ==
  /\ \A c \in Claims :
       /\ worker[c].pc # "idle" => worker[c].kind \in KindsOf(req[c])
       /\ label[c] # "" => label[c] \in KindsOf(req[c])
       /\ \A k \in Kinds : Exists(c, k) => k \in KindsOf(req[c])
  /\ \A m \in wire : m.kind \in KindsOf(req[m.claim])

(* An attempt runs only for a NodeClaim that is not Launched and for which  *)
(* no Delete has been accepted, and a Delete only for one being deleted.    *)
Exclusive ==
  \A c \in Claims :
    /\ worker[c].pc # "idle" => phase[c] # "gone" /\ ~accepted[c] /\ ~launched[c]
    /\ accepted[c] => phase[c] # "live"

(* A server was attached for every attempt that saw one assigned and for    *)
(* every NodeClaim that is Launched.                                        *)
Served(c) ==
  \A k \in Kinds :
    pool[c][k].state = "awaiting" => pool[c][k].origin # "attempt"

SeenServed ==
  \A c \in Claims :
    /\ worker[c].pc # "idle" /\ worker[c].assigned => worker[c].pc = "patch"
    /\ StableKind(req[c]) =>
         /\ worker[c].pc # "idle" /\ worker[c].assigned => Served(c)
         /\ launched[c] => Served(c)

IInv == TypeOK /\ KindsKnown /\ Exclusive /\ TargetGone /\ SeenServed

LEMMA ReqFixed ==
  ASSUME [Next]_vars
  PROVE  req' = req /\ \A c \in Claims : FallbackAgrees(c)' = FallbackAgrees(c)
<1>1. req' = req
  BY DEF Next, Lifecycle, CreateStep, DeleteStep, PoolStep, StartCreate, CreatePool,
         AbandonCreate, GetPool, CheckAssigned, Patch, hydrate, StepFails, Restart,
         MarkDeleted, DeleteAccepted, DeleteReplyLost, DeleteNotFound,
         ConfirmGone, RefreshCatalog, AttachServer, LoseServer, DropPool,
         DeliverLate, LoseLate, Relink, vars
<1> QED BY <1>1 DEF FallbackAgrees

(* What a step may do to a pool: leave it as it is, take it away, build it  *)
(* for an attempt or for a late request, or attach or lose a server.        *)
PoolChange(c, k) ==
  \/ pool'[c][k] = pool[c][k]
  \/ ~Exists(c, k)'
  \/ /\ worker[c].pc = "create" /\ worker[c].kind = k
     /\ ~Exists(c, k) /\ pool'[c][k].origin = "attempt"
  \/ /\ \E m \in wire : m.claim = c /\ m.kind = k
     /\ ~Exists(c, k)
     /\ pool'[c][k].origin =
          IF accepted[c] \/ phase[c] = "gone" THEN "posthumous" ELSE "late"
  \/ /\ Exists(c, k)
     /\ UNCHANGED <<pool[c][k].origin, pool[c][k].class>>
     /\ pool'[c][k].state \in {"attached", "lost"}

LEMMA PoolChanges ==
  ASSUME TypeOK, [Next]_vars, NEW c \in Claims, NEW k \in Kinds
  PROVE  PoolChange(c, k)
<1> USE DEF PoolChange
<1>1. pool[c][k] \in Pool /\ pool \in [Claims -> [Kinds -> Pool]]
  BY DEF TypeOK
<1>2. ASSUME NEW d \in Claims, CreatePool(d) PROVE PoolChange(c, k)
  <2>1. worker[d].kind \in Kinds
    BY <1>2, Working DEF CreatePool, Worker
  <2> QED BY <1>1, <1>2, <2>1 DEF CreatePool, Admit, Exists
<1>3. ASSUME NEW d \in Claims, DeleteStep(d) PROVE PoolChange(c, k)
  <2>1. TargetKind(d) \in Kinds
    BY DEF TypeOK, TargetKind, FallbackKind, FallbackOf, Kinds
  <2> QED
    BY <1>1, <1>3, <2>1 DEF DeleteStep, DeleteAccepted, DeleteReplyLost,
       DeleteNotFound, ConfirmGone, Exists, NoPool, claimVars
<1>4. ASSUME NEW d \in Claims, NEW j \in Kinds, AttachServer(d, j)
      PROVE  PoolChange(c, k)
  BY <1>1, <1>4 DEF AttachServer, Exists, Pool
<1>5. ASSUME NEW d \in Claims, NEW j \in Kinds, LoseServer(d, j)
      PROVE  PoolChange(c, k)
  BY <1>1, <1>5 DEF LoseServer, Exists, Pool
<1>6. ASSUME NEW d \in Claims, NEW j \in Kinds, DropPool(d, j)
      PROVE  PoolChange(c, k)
  BY <1>1, <1>6 DEF DropPool, Exists, NoPool
<1>7. ASSUME NEW m \in wire, DeliverLate(m) PROVE PoolChange(c, k)
  <2>1. m.claim \in Claims /\ m.kind \in Kinds
    BY DEF TypeOK, Request
  <2> QED BY <1>1, <1>7, <2>1 DEF DeliverLate, Admit, Exists
<1>8. CASE UNCHANGED pool
  BY <1>8
<1> QED
  BY <1>2, <1>3, <1>4, <1>5, <1>6, <1>7, <1>8
     DEF Next, Lifecycle, CreateStep, PoolStep, StartCreate, AbandonCreate, GetPool,
         CheckAssigned, Patch, hydrate, StepFails, Restart, MarkDeleted, LoseLate,
         Relink, RefreshCatalog, vars

(* What a step may do to an attempt: nothing, end it, begin it or take it   *)
(* further; and what it may do to a NodeClaim: a label and the Launched     *)
(* condition come from an attempt, and deletion never goes back.            *)
WorkerChange(c) ==
  \/ worker'[c] = worker[c]
  \/ worker'[c] = Idle
  \/ /\ worker[c] = Idle /\ phase[c] = "live" /\ ~launched[c]
     /\ worker'[c].pc = "create" /\ ~worker'[c].assigned
     /\ worker'[c].kind \in KindsOf(req[c])
  \/ /\ worker[c].pc # "idle" /\ worker'[c].kind = worker[c].kind
     /\ \/ worker'[c].assigned = worker[c].assigned /\ worker[c].pc # "patch"
        \/ /\ worker'[c].assigned = ServerAssigned(c) /\ worker'[c].pc = "patch"
           /\ UNCHANGED pool

ClaimChange(c) ==
  /\ accepted[c] => accepted'[c]
  /\ \/ UNCHANGED <<label[c], launched[c]>>
     \/ /\ worker[c].pc = "patch" /\ worker'[c] = Idle /\ UNCHANGED pool
        /\ label'[c] = worker[c].kind
        /\ launched'[c] = (launched[c] \/ worker[c].assigned)
  /\ \/ UNCHANGED <<phase[c], accepted[c]>>
     \/ /\ phase[c] = "live" /\ phase'[c] = "deleting"
        /\ UNCHANGED accepted[c]
     \/ /\ phase[c] = "deleting" /\ worker[c] = Idle /\ UNCHANGED worker[c]
        /\ UNCHANGED label[c]
        /\ \A k \in Kinds : Exists(c, k)' => Exists(c, k)
        /\ \/ accepted[c]
           \/ ~Exists(c, TargetKind(c))'
        /\ phase'[c] \in {"deleting", "gone"}

LEMMA WorkerChanges ==
  ASSUME TypeOK, [Next]_vars, NEW c \in Claims
  PROVE  WorkerChange(c)
<1> USE DEF WorkerChange
<1>1. worker \in [Claims -> Worker \union {Idle}]
  BY DEF TypeOK
<1>2. ASSUME NEW d \in Claims, StartCreate(d) PROVE WorkerChange(c)
  <2>1. Picks(catalog, req[d]) # {} /\ catalog \in Catalogs
    BY <1>2 DEF StartCreate, TypeOK
  <2>2. ChosenKind(catalog, req[d]) \in KindsOf(req[d])
    BY <2>1, Choosing, RequirementOfClaim
  <2>3. CASE c = d
    <3>1. PICK t \in Picks(catalog, req[c]) :
            worker'[c] = [pc |-> "create", kind |-> ChosenKind(catalog, req[c]),
                          type |-> t, seen |-> providerID[c], assigned |-> FALSE]
      BY <1>1, <1>2, <2>3 DEF StartCreate
    <3>2. /\ worker'[c].pc = "create" /\ ~worker'[c].assigned
          /\ worker'[c].kind \in KindsOf(req[c])
      BY <2>2, <2>3, <3>1
    <3> QED BY <1>2, <2>3, <3>2 DEF StartCreate
  <2>4. CASE c # d
    BY <1>1, <1>2, <2>4 DEF StartCreate
  <2> QED BY <2>3, <2>4
<1>3. ASSUME NEW d \in Claims, CreatePool(d) PROVE WorkerChange(c)
  BY <1>1, <1>3, Working DEF CreatePool, Worker
<1>4. ASSUME NEW d \in Claims, GetPool(d) PROVE WorkerChange(c)
  BY <1>1, <1>4, Working DEF GetPool, Worker
<1>5. ASSUME NEW d \in Claims, CheckAssigned(d) PROVE WorkerChange(c)
  BY <1>1, <1>5, Working DEF CheckAssigned, Worker
<1>6. ASSUME NEW d \in Claims, AbandonCreate(d) \/ Patch(d) \/ StepFails(d)
      PROVE  WorkerChange(c)
  BY <1>1, <1>6 DEF AbandonCreate, Patch, hydrate, StepFails
<1>7. CASE Restart
  BY <1>1, <1>7 DEF Restart
<1>8. CASE UNCHANGED worker
  BY <1>8
<1> QED
  BY <1>2, <1>3, <1>4, <1>5, <1>6, <1>7, <1>8
     DEF Next, Lifecycle, CreateStep, PoolStep, DeleteStep, AttachServer, LoseServer,
         DropPool, MarkDeleted, DeleteAccepted, DeleteReplyLost,
         DeleteNotFound, ConfirmGone, DeliverLate, LoseLate, Relink,
         RefreshCatalog, vars

LEMMA ClaimChanges ==
  ASSUME TypeOK, [Next]_vars, NEW c \in Claims
  PROVE  ClaimChange(c)
<1> USE DEF ClaimChange
<1>1. /\ worker \in [Claims -> Worker \union {Idle}]
      /\ phase \in [Claims -> {"live", "deleting", "gone"}]
      /\ launched \in [Claims -> BOOLEAN]
      /\ label \in [Claims -> Kinds \union {""}]
      /\ accepted \in [Claims -> BOOLEAN]
      /\ pool \in [Claims -> [Kinds -> Pool]]
  BY DEF TypeOK
<1>2. ASSUME NEW d \in Claims, Patch(d) PROVE ClaimChange(c)
  BY <1>1, <1>2 DEF Patch, hydrate
<1>3. ASSUME NEW d \in Claims, MarkDeleted(d) PROVE ClaimChange(c)
  BY <1>1, <1>3 DEF MarkDeleted
<1>4. ASSUME NEW d \in Claims, DeleteAccepted(d) PROVE ClaimChange(c)
  <2>1. TargetKind(d) \in Kinds /\ UNCHANGED label /\ UNCHANGED req
    BY <1>1, <1>4 DEF DeleteAccepted, TargetKind, FallbackKind, FallbackOf, Kinds
  <2>2. TargetKind(d)' = TargetKind(d)
    BY <2>1 DEF TargetKind, FallbackKind
  <2> QED BY <1>1, <1>4, <2>1, <2>2 DEF DeleteAccepted, Deletable, Exists, NoPool
<1>5. ASSUME NEW d \in Claims, DeleteNotFound(d) PROVE ClaimChange(c)
  <2>1. Exists(d, TargetKind(d))' = Exists(d, TargetKind(d))
    BY <1>5 DEF DeleteNotFound, Exists, TargetKind, FallbackKind
  <2> QED BY <1>1, <1>5, <2>1 DEF DeleteNotFound, Deletable, Exists
<1>6. ASSUME NEW d \in Claims, ConfirmGone(d) PROVE ClaimChange(c)
  BY <1>1, <1>6 DEF ConfirmGone, Deletable, Exists
<1>7. CASE UNCHANGED <<phase, launched, label, accepted>>
  BY <1>7
<1> QED
  BY <1>2, <1>3, <1>4, <1>5, <1>6, <1>7
     DEF Next, Lifecycle, CreateStep, PoolStep, DeleteStep, StartCreate, CreatePool,
         AbandonCreate, GetPool, CheckAssigned, StepFails, Restart, AttachServer,
         LoseServer, DropPool, DeleteReplyLost, DeliverLate, LoseLate, Relink,
         RefreshCatalog, vars, claimVars

LEMMA KindsKnownNext ==
  ASSUME TypeOK, KindsKnown, [Next]_vars
  PROVE  KindsKnown'
<1>1. req' = req
  BY ReqFixed
<1>2. ASSUME NEW c \in Claims, worker'[c].pc # "idle"
      PROVE  worker'[c].kind \in KindsOf(req[c])
  <2>1. WorkerChange(c)
    BY WorkerChanges
  <2>2. worker'[c] # Idle
    BY <1>2 DEF Idle
  <2>3. worker[c].pc # "idle" => worker[c].kind \in KindsOf(req[c])
    BY DEF KindsKnown
  <2> QED BY <1>2, <2>1, <2>2, <2>3 DEF WorkerChange
<1>3. ASSUME NEW c \in Claims, label'[c] # ""
      PROVE  label'[c] \in KindsOf(req[c])
  BY <1>3, ClaimChanges DEF ClaimChange, KindsKnown
<1>4. ASSUME NEW c \in Claims, NEW k \in Kinds, Exists(c, k)'
      PROVE  k \in KindsOf(req[c])
  BY <1>4, PoolChanges DEF PoolChange, KindsKnown, Exists
<1>5. ASSUME NEW m \in wire' PROVE m.kind \in KindsOf(req[m.claim])
  <2>1. m \in wire \/ \E c \in Claims : worker[c].pc = "create" /\ m = RequestOf(c)
    <3>1. ASSUME NEW c \in Claims, AbandonCreate(c) 
         PROVE  m \in wire \/ \E d \in Claims :
                  worker[d].pc = "create" /\ m = RequestOf(d)
      BY <1>5, <3>1 DEF AbandonCreate
    <3>2. CASE Restart
      BY <1>5, <3>2 DEF Restart
    <3>3. CASE wire' \subseteq wire
      BY <1>5, <3>3
    <3> QED
      BY <3>1, <3>2, <3>3
         DEF Next, Lifecycle, CreateStep, DeleteStep, PoolStep, StartCreate, CreatePool,
             GetPool, CheckAssigned, Patch, hydrate, StepFails, MarkDeleted,
             DeleteAccepted, DeleteReplyLost, DeleteNotFound, ConfirmGone,
             RefreshCatalog, AttachServer, LoseServer, DropPool, DeliverLate,
             LoseLate, Relink, vars
  <2>2. CASE m \in wire
    BY <2>2 DEF KindsKnown
  <2>3. ASSUME NEW c \in Claims, worker[c].pc = "create", m = RequestOf(c)
        PROVE  m.kind \in KindsOf(req[m.claim])
    <3>1. m.kind = worker[c].kind /\ m.claim = c
      BY <2>3 DEF RequestOf
    <3> QED BY <2>3, <3>1 DEF KindsKnown
  <2> QED BY <2>1, <2>2, <2>3
<1> QED BY <1>1, <1>2, <1>3, <1>4, <1>5 DEF KindsKnown

LEMMA ExclusiveNext ==
  ASSUME TypeOK, Exclusive, [Next]_vars
  PROVE  Exclusive'
<1> SUFFICES ASSUME NEW c \in Claims
             PROVE  /\ worker'[c].pc # "idle"
                         => phase'[c] # "gone" /\ ~accepted'[c] /\ ~launched'[c]
                    /\ accepted'[c] => phase'[c] # "live"
  BY DEF Exclusive
<1>1. Idle.pc = "idle"
  BY DEF Idle
<1> QED BY <1>1, WorkerChanges, ClaimChanges DEF WorkerChange, ClaimChange, Exclusive, TypeOK

(* A step that leaves an accepted Delete, or a NodeClaim that is gone, as   *)
(* it was leaves the label Delete went by, too: no attempt is left.         *)
LEMMA TargetGoneNext ==
  ASSUME TypeOK, Exclusive, TargetGone, [Next]_vars
  PROVE  TargetGone'
<1> SUFFICES ASSUME NEW c \in Claims, accepted'[c] \/ phase'[c] = "gone",
                    Exists(c, TargetKind(c))'
             PROVE  pool'[c][TargetKind(c)'].origin = "posthumous"
  BY DEF TargetGone
<1>1. ClaimChange(c) /\ req' = req
  BY ClaimChanges, ReqFixed
<1>2. (accepted[c] \/ phase[c] = "gone") /\ label'[c] = label[c]
  BY <1>1 DEF ClaimChange, Exclusive
<1>3. TargetKind(c)' = TargetKind(c) /\ TargetKind(c) \in Kinds
  BY <1>1, <1>2 DEF TypeOK, TargetKind, FallbackKind, FallbackOf, Kinds
<1>4. PoolChange(c, TargetKind(c))
  BY <1>3, PoolChanges
<1>5. worker[c].pc = "idle"
  BY <1>2 DEF Exclusive
<1>6. Exists(c, TargetKind(c)) => pool[c][TargetKind(c)].origin = "posthumous"
  BY <1>2 DEF TargetGone
<1>7. pool'[c][TargetKind(c)].state # "absent"
  BY <1>3 DEF Exists
<1> QED BY <1>2, <1>3, <1>4, <1>5, <1>6, <1>7 DEF PoolChange, Exists

(* Once a Delete has been accepted no pool is left, other than posthumous.  *)
DeletedForGood ==
  \A c \in Claims :
    /\ accepted[c] \/ phase[c] = "gone"
    /\ StableKind(req[c])
    /\ label[c] # "" \/ FallbackAgrees(c)
    => \A k \in Kinds : Exists(c, k) => pool[c][k].origin = "posthumous"

(* Where an attempt could only choose the kind Delete goes for, the pool    *)
(* Delete goes for is the only one there can be.                            *)
LEMMA OnlyTarget ==
  ASSUME KindsKnown, NEW c \in Claims, StableKind(req[c]),
         label[c] # "" \/ FallbackAgrees(c), NEW k \in Kinds, Exists(c, k)
  PROVE  k = TargetKind(c)
<1>1. k \in KindsOf(req[c])
  BY DEF KindsKnown
<1>2. CASE label[c] # ""
  BY <1>1, <1>2 DEF KindsKnown, StableKind, TargetKind
<1>3. CASE label[c] = "" /\ FallbackAgrees(c)
  BY <1>1, <1>3 DEF FallbackAgrees, Definite, TargetKind, FallbackKind
<1> QED BY <1>2, <1>3

LEMMA TargetIsAll ==
  ASSUME KindsKnown, TargetGone
  PROVE  DeletedForGood
  BY OnlyTarget DEF TargetGone, DeletedForGood

LEMMA ServedKept ==
  ASSUME TypeOK, [Next]_vars, NEW c \in Claims, Served(c), worker[c].pc # "create"
  PROVE  Served(c)'
<1> SUFFICES ASSUME NEW k \in Kinds, pool'[c][k].state = "awaiting"
             PROVE  pool'[c][k].origin # "attempt"
  BY DEF Served
<1>1. PoolChange(c, k)
  BY PoolChanges
<1> QED BY <1>1 DEF PoolChange, Served, Exists

LEMMA SeenServedNext ==
  ASSUME TypeOK, KindsKnown, Exclusive, SeenServed, [Next]_vars
  PROVE  SeenServed'
<1> SUFFICES ASSUME NEW c \in Claims
             PROVE  /\ worker'[c].pc # "idle" /\ worker'[c].assigned
                         => worker'[c].pc = "patch"
                    /\ StableKind(req'[c]) =>
                         /\ worker'[c].pc # "idle" /\ worker'[c].assigned => Served(c)'
                         /\ launched'[c] => Served(c)'
  BY DEF SeenServed
<1>1. WorkerChange(c) /\ ClaimChange(c) /\ req' = req
  BY WorkerChanges, ClaimChanges, ReqFixed
<1>2. Idle.pc = "idle"
  BY DEF Idle
<1>3. ASSUME worker'[c].pc # "idle", worker'[c].assigned
      PROVE  worker'[c].pc = "patch"
  BY <1>1, <1>2, <1>3 DEF WorkerChange, SeenServed
<1>4. ASSUME StableKind(req[c]), ServerAssigned(c), UNCHANGED pool
      PROVE  Served(c)'
  <2>1. PICK j \in Kinds : pool[c][j].state = "attached"
    BY <1>4 DEF ServerAssigned
  <2>2. \A k \in Kinds : Exists(c, k) => k = j
    BY <1>4, <2>1 DEF KindsKnown, StableKind, Exists
  <2> QED BY <1>4, <2>1, <2>2 DEF Served, Exists
<1>5. ASSUME StableKind(req[c]), worker'[c].pc # "idle", worker'[c].assigned
      PROVE  Served(c)'
  <2>1. CASE worker'[c] = worker[c]
    <3>1. Served(c) /\ worker[c].pc = "patch"
      BY <1>5, <2>1 DEF SeenServed
    <3> QED BY <3>1, ServedKept
  <2>2. CASE worker'[c].assigned = ServerAssigned(c) /\ UNCHANGED pool
    BY <1>4, <1>5, <2>2
  <2> QED BY <1>1, <1>2, <1>5, <2>1, <2>2 DEF WorkerChange, SeenServed
<1>6. ASSUME StableKind(req[c]), launched'[c] PROVE Served(c)'
  <2>1. CASE launched[c]
    <3>1. Served(c) /\ worker[c].pc = "idle"
      BY <1>6, <2>1 DEF SeenServed, Exclusive
    <3> QED BY <3>1, ServedKept
  <2>2. CASE worker[c].pc = "patch" /\ worker[c].assigned
    BY <1>6, <2>2, ServedKept DEF SeenServed
  <2> QED BY <1>1, <1>6, <2>1, <2>2 DEF ClaimChange
<1> QED BY <1>1, <1>3, <1>5, <1>6

LEMMA IInvInit == Init => IInv
<1> SUFFICES ASSUME Init PROVE IInv
  OBVIOUS
<1>1. TypeOK
  BY TypeInit
<1>2. \A c \in Claims :
        /\ phase[c] = "live" /\ launched[c] = FALSE /\ label[c] = ""
        /\ accepted[c] = FALSE /\ worker[c].pc = "idle"
        /\ \A k \in Kinds : pool[c][k].state = "absent"
  BY DEF Init, Idle, NoPool
<1>3. wire = {}
  BY DEF Init
<1> QED
  BY <1>1, <1>2, <1>3
     DEF IInv, KindsKnown, Exclusive, TargetGone, SeenServed, Served, Exists

LEMMA IInvNext == IInv /\ [Next]_vars => IInv'
  BY TypeNext, KindsKnownNext, ExclusiveNext, TargetGoneNext, SeenServedNext
     DEF IInv

(* The strengthened invariant: types, the kinds attempts may choose, who    *)
(* works on a NodeClaim when, and what a Delete and a server leave behind.  *)
THEOREM Inductive == Spec => []IInv
  BY IInvInit, IInvNext, PTL DEF Spec

------------------------------------------------------------------------------
(* What follows from it.                                                    *)

(* The kind of pool Delete goes for is gone for good, of every NodeClaim.   *)
THEOREM TargetAlwaysGone == Spec => []TargetGone
<1>1. IInv => TargetGone
  BY DEF IInv
<1> QED BY <1>1, Inductive, PTL

(* Deleting leaves no pool behind, whatever attempts, retries, restarts,    *)
(* lost replies and hand deletions came before.                             *)
THEOREM NothingOrphaned == Spec => []NoOrphan
<1>1. IInv => NoOrphan
  BY TargetIsAll DEF IInv, DeletedForGood, NoOrphan
<1> QED BY <1>1, Inductive, PTL

(* Create is idempotent: one pool for a NodeClaim of stable capacity type.  *)
THEOREM Idempotent == Spec => []OnePool
<1>1. IInv => OnePool
  BY DEF IInv, KindsKnown, OnePool, StableKind
<1> QED BY <1>1, Inductive, PTL

(* No pool is of a capacity type that its NodeClaim excludes.               *)
THEOREM OnlyPermitted == Spec => []KindPermitted
<1>1. IInv => KindPermitted
  BY KindsOfPermitted, RequirementOfClaim DEF IInv, KindsKnown, KindPermitted
<1> QED BY <1>1, Inductive, PTL

(* A NodeClaim is Launched only on a server attached to its own pool.       *)
THEOREM LaunchedOnServer == Spec => []LaunchedHasServer
<1>1. IInv => LaunchedHasServer
  BY DEF IInv, SeenServed, Served, LaunchedHasServer
<1> QED BY <1>1, Inductive, PTL

(* Retrying keeps the pool in flight, its ServerClass and its server.       *)
THEOREM ProgressKept == Spec => RetryKeepsProgress
<1>1. TypeOK /\ [Next]_vars =>
        [\A c \in Claims, k \in Kinds : KeepsProgress(pool[c][k], pool'[c][k])]_vars
  <2> SUFFICES ASSUME TypeOK, [Next]_vars, NEW c \in Claims, NEW k \in Kinds
               PROVE  KeepsProgress(pool[c][k], pool'[c][k])
    OBVIOUS
  <2> QED BY PoolChanges DEF PoolChange, KeepsProgress, Exists
<1> QED BY <1>1, TypeCorrect, PTL DEF Spec, RetryKeepsProgress

------------------------------------------------------------------------------
(* The refinement of Lease.                                                 *)

(* A pool is only posthumous once its NodeClaim was released.               *)
Posthumous ==
  \A c \in Claims, k \in Kinds :
    Exists(c, k) /\ pool[c][k].origin = "posthumous"
      => accepted[c] \/ phase[c] = "gone"

LEMMA PosthumousInit == Init => Posthumous
<1>1. ASSUME Init, NEW c \in Claims, NEW k \in Kinds PROVE pool[c][k].state = "absent"
  BY <1>1 DEF Init, NoPool
<1> QED BY <1>1 DEF Posthumous, Exists

LEMMA PosthumousNext == TypeOK /\ Posthumous /\ [Next]_vars => Posthumous'
<1> SUFFICES ASSUME TypeOK, Posthumous, [Next]_vars,
                    NEW c \in Claims, NEW k \in Kinds,
                    Exists(c, k)', pool'[c][k].origin = "posthumous"
             PROVE  accepted'[c] \/ phase'[c] = "gone"
  BY DEF Posthumous
<1>1. accepted[c] \/ phase[c] = "gone"
  BY PoolChanges DEF PoolChange, Posthumous, Exists
<1> QED BY <1>1, ClaimChanges DEF ClaimChange

------------------------------------------------------------------------------
(* What a step may leave of a NodeClaim, and of what Lease sees of it.      *)
Kept(c) ==
  /\ phase'[c] = phase[c] /\ accepted'[c] = accepted[c]
  /\ launched'[c] = launched[c] /\ worker'[c] = worker[c] /\ pool'[c] = pool[c]

Same(c) ==
  /\ leaseStanding(c)' = leaseStanding(c)
  /\ leaseServer(c)' = leaseServer(c)
  /\ leaseTold(c)' = leaseTold(c)

(* The steps of Lease, as changes of one NodeClaim.                         *)
Move(c) ==
  \/ Same(c)
  \/ /\ leaseStanding(c) \in {"wanted", "launched", "ending"}
     /\ leaseServer(c) = "none" /\ leaseServer(c)' = "awaiting"
     /\ leaseStanding(c)' = leaseStanding(c) /\ leaseTold(c)' = leaseTold(c)
  \/ /\ leaseServer(c) \in {"awaiting", "lost"} /\ leaseServer(c)' = "attached"
     /\ leaseStanding(c)' = leaseStanding(c) /\ leaseTold(c)' = leaseTold(c)
  \/ /\ leaseServer(c) = "attached" /\ leaseServer(c)' = "lost"
     /\ leaseStanding(c)' = leaseStanding(c) /\ leaseTold(c)' = leaseTold(c)
  \/ /\ leaseServer(c) # "none" /\ leaseServer(c)' = "none"
     /\ leaseStanding(c)' = leaseStanding(c) /\ leaseTold(c)' = leaseTold(c)
  \/ /\ leaseServer(c) = "attached" /\ leaseTold(c)' = TRUE
     /\ leaseStanding(c)' = leaseStanding(c) /\ leaseServer(c)' = leaseServer(c)
  \/ /\ leaseTold(c) /\ leaseTold(c)' = FALSE
     /\ leaseStanding(c)' = IF leaseStanding(c) = "wanted" THEN "launched"
                                                          ELSE leaseStanding(c)
     /\ leaseServer(c)' = leaseServer(c)
  \/ /\ leaseStanding(c) \in {"wanted", "launched"} /\ leaseStanding(c)' = "ending"
     /\ leaseServer(c)' = leaseServer(c) /\ leaseTold(c)' = leaseTold(c)
  \/ /\ leaseStanding(c) = "ending" /\ leaseServer(c) # "none" /\ ~leaseTold(c)
     /\ leaseStanding(c)' = "released" /\ leaseServer(c)' = "none"
     /\ leaseTold(c)' = leaseTold(c)
  \/ /\ leaseStanding(c) \in {"ending", "released"} /\ leaseServer(c) = "none"
     /\ ~leaseTold(c) /\ leaseStanding(c)' = "gone"
     /\ leaseServer(c)' = leaseServer(c) /\ leaseTold(c)' = leaseTold(c)

LEMMA ToldBoolean ==
  ASSUME TypeOK, NEW c \in Claims
  PROVE  leaseTold(c) \in BOOLEAN
  BY DEF leaseTold

LEMMA MoveIsLease ==
  ASSUME NEW c \in Claims, Move(c), \A d \in Claims \ {c} : Same(d)
  PROVE  [L!Next]_(L!leaseVars)
<1> DEFINE st == [d \in Claims |-> leaseStanding(d)]
           se == [d \in Claims |-> leaseServer(d)]
           to == [d \in Claims |-> leaseTold(d)]
<1>1. CASE Same(c)
  BY <1>1 DEF Same, L!leaseVars
<1>2. CASE /\ leaseStanding(c) \in {"wanted", "launched", "ending"}
           /\ leaseServer(c) = "none" /\ leaseServer(c)' = "awaiting"
           /\ leaseStanding(c)' = leaseStanding(c) /\ leaseTold(c)' = leaseTold(c)
  <2>1. L!Request(c)
    BY <1>2 DEF Same, L!Request
  <2> QED BY <2>1 DEF L!Next
<1>3. CASE /\ leaseServer(c) \in {"awaiting", "lost"} /\ leaseServer(c)' = "attached"
           /\ leaseStanding(c)' = leaseStanding(c) /\ leaseTold(c)' = leaseTold(c)
  <2>1. L!Attach(c)
    BY <1>3 DEF Same, L!Attach
  <2> QED BY <2>1 DEF L!Next
<1>4. CASE /\ leaseServer(c) = "attached" /\ leaseServer(c)' = "lost"
           /\ leaseStanding(c)' = leaseStanding(c) /\ leaseTold(c)' = leaseTold(c)
  <2>1. L!Lose(c)
    BY <1>4 DEF Same, L!Lose
  <2> QED BY <2>1 DEF L!Next
<1>5. CASE /\ leaseServer(c) # "none" /\ leaseServer(c)' = "none"
           /\ leaseStanding(c)' = leaseStanding(c) /\ leaseTold(c)' = leaseTold(c)
  <2>1. L!Drop(c)
    BY <1>5 DEF Same, L!Drop
  <2> QED BY <2>1 DEF L!Next
<1>6. CASE /\ leaseServer(c) = "attached" /\ leaseTold(c)' = TRUE
           /\ leaseStanding(c)' = leaseStanding(c) /\ leaseServer(c)' = leaseServer(c)
  <2>1. L!Observe(c)
    BY <1>6 DEF Same, L!Observe
  <2> QED BY <2>1 DEF L!Next
<1>7. CASE /\ leaseTold(c) /\ leaseTold(c)' = FALSE
           /\ leaseStanding(c)' = IF leaseStanding(c) = "wanted" THEN "launched"
                                                                ELSE leaseStanding(c)
           /\ leaseServer(c)' = leaseServer(c)
  <2>1. L!Launch(c)
    BY <1>7 DEF Same, L!Launch
  <2> QED BY <2>1 DEF L!Next
<1>8. CASE /\ leaseStanding(c) \in {"wanted", "launched"} /\ leaseStanding(c)' = "ending"
           /\ leaseServer(c)' = leaseServer(c) /\ leaseTold(c)' = leaseTold(c)
  <2>1. L!End(c)
    BY <1>8 DEF Same, L!End
  <2> QED BY <2>1 DEF L!Next
<1>9. CASE /\ leaseStanding(c) = "ending" /\ leaseServer(c) # "none" /\ ~leaseTold(c)
           /\ leaseStanding(c)' = "released" /\ leaseServer(c)' = "none"
           /\ leaseTold(c)' = leaseTold(c)
  <2>1. L!Release(c)
    BY <1>9 DEF Same, L!Release
  <2> QED BY <2>1 DEF L!Next
<1>10. CASE /\ leaseStanding(c) \in {"ending", "released"} /\ leaseServer(c) = "none"
            /\ ~leaseTold(c) /\ leaseStanding(c)' = "gone"
            /\ leaseServer(c)' = leaseServer(c) /\ leaseTold(c)' = leaseTold(c)
  <2>1. L!Go(c)
    BY <1>10 DEF Same, L!Go
  <2> QED BY <2>1 DEF L!Next
<1> QED
  BY <1>1, <1>2, <1>3, <1>4, <1>5, <1>6, <1>7, <1>8, <1>9, <1>10 DEF Move

(* Attempts that end, one or many, are not seen but for what they had heard.*)
LEMMA EndIsLease ==
  ASSUME \A c \in Claims :
           /\ leaseStanding(c)' = leaseStanding(c) /\ leaseServer(c)' = leaseServer(c)
           /\ leaseTold(c)' = FALSE \/ leaseTold(c)' = leaseTold(c)
           /\ leaseTold(c) \in BOOLEAN
  PROVE  [L!Next]_(L!leaseVars)
<1> DEFINE S == {c \in Claims : leaseTold(c)' = FALSE}
           to == [d \in Claims |-> leaseTold(d)]
<1>1. to' = [c \in Claims |-> to[c] /\ c \notin S]
  OBVIOUS
<1>2. L!Overlook
  BY <1>1 DEF L!Overlook
<1> QED BY <1>2 DEF L!Next

LEMMA KeptIsSame ==
  ASSUME [Next]_vars, NEW c \in Claims, Kept(c)
  PROVE  Same(c)
<1>1. FallbackAgrees(c)' = FallbackAgrees(c) /\ FallbackKind(c)' = FallbackKind(c)
  BY ReqFixed DEF FallbackKind
<1> QED BY <1>1 DEF Kept, Same, leaseStanding, leaseServer, leaseTold

(* A step that concerns one NodeClaim need only be followed for one that    *)
(* Lease looks at.                                                          *)
LEMMA OneClaim ==
  ASSUME [Next]_vars, NEW c \in Claims, \A d \in Claims \ {c} : Kept(d),
         FallbackAgrees(c) => Move(c)
  PROVE  [L!Next]_(L!leaseVars)
<1>1. \A d \in Claims \ {c} : Same(d)
  BY KeptIsSame
<1>2. CASE ~FallbackAgrees(c)
  <2>1. ~FallbackAgrees(c)'
    BY <1>2, ReqFixed
  <2>2. Same(c)
    BY <1>2, <2>1 DEF Same, leaseStanding, leaseServer, leaseTold
  <2> QED BY <1>1, <2>2, MoveIsLease DEF Move
<1>3. CASE FallbackAgrees(c)
  BY <1>1, <1>3, MoveIsLease
<1> QED BY <1>2, <1>3

(* All there is of a NodeClaim that Lease looks at is of one kind.          *)
LEMMA OneKind ==
  ASSUME TypeOK, KindsKnown, NEW c \in Claims, FallbackAgrees(c)
  PROVE  /\ FallbackKind(c) \in Kinds
         /\ TargetKind(c) = FallbackKind(c)
         /\ StableKind(req[c])
         /\ \A k \in Kinds : Exists(c, k) => k = FallbackKind(c)
         /\ worker[c].pc # "idle" => worker[c].kind = FallbackKind(c)
         /\ \A m \in wire : m.claim = c => m.kind = FallbackKind(c)
<1>1. \A k \in KindsOf(req[c]) : k = FallbackKind(c)
  BY DEF FallbackAgrees, Definite, FallbackKind
<1> QED BY <1>1 DEF KindsKnown, FallbackKind, FallbackOf, Kinds, TargetKind, StableKind

LEMMA LeaseNext ==
  ASSUME TypeOK, KindsKnown, Exclusive, DeletedForGood, Posthumous, [Next]_vars
  PROVE  [L!Next]_(L!leaseVars)
<1>0. /\ worker \in [Claims -> Worker \union {Idle}] /\ Idle.pc = "idle"
      /\ phase \in [Claims -> {"live", "deleting", "gone"}]
      /\ launched \in [Claims -> BOOLEAN] /\ accepted \in [Claims -> BOOLEAN]
      /\ pool \in [Claims -> [Kinds -> Pool]]
  BY DEF TypeOK, Idle
<1>1. ASSUME NEW c \in Claims,
             StartCreate(c) \/ AbandonCreate(c) \/ GetPool(c) \/ StepFails(c)
      PROVE  [L!Next]_(L!leaseVars)
  <2>1. UNCHANGED <<phase, accepted, launched, pool>>
    BY <1>1 DEF StartCreate, AbandonCreate, GetPool, StepFails, claimVars
  <2>2. \A d \in Claims : leaseStanding(d)' = leaseStanding(d) /\ leaseServer(d)' = leaseServer(d)
    BY <2>1, ReqFixed DEF leaseStanding, leaseServer, FallbackKind
  <2>3. \A d \in Claims : leaseTold(d)' = FALSE \/ leaseTold(d)' = leaseTold(d)
    <3> SUFFICES ASSUME NEW d \in Claims PROVE worker'[d].pc # "patch" \/ worker'[d] = worker[d]
      BY ReqFixed DEF leaseTold
    <3>1. CASE c # d
      BY <1>0, <1>1, <3>1 DEF StartCreate, AbandonCreate, GetPool, StepFails
    <3>2. CASE c = d
      BY <1>0, <1>1, <3>2, Working DEF StartCreate, AbandonCreate, GetPool, StepFails, Worker
    <3> QED BY <3>1, <3>2
  <2> QED BY <2>2, <2>3, EndIsLease, ToldBoolean
<1>2. ASSUME NEW c \in Claims, CreatePool(c) PROVE [L!Next]_(L!leaseVars)
  <2>1. worker[c] \in Worker
    BY <1>2, Working DEF CreatePool
  <2>2. \A d \in Claims \ {c} : Kept(d)
    BY <1>0, <1>2 DEF CreatePool, claimVars, Kept
  <2>3. ASSUME FallbackAgrees(c) PROVE Move(c)
    <3>1. worker[c].kind = FallbackKind(c) /\ FallbackKind(c) \in Kinds
      BY <1>2, <2>3, OneKind DEF CreatePool
    <3>2. phase[c] # "gone" /\ ~accepted[c] /\ ~launched[c]
      BY <1>2 DEF CreatePool, Exclusive
    <3>3. /\ leaseStanding(c) \in {"wanted", "ending"}
          /\ leaseStanding(c)' = leaseStanding(c)
      BY <1>0, <1>2, <3>2, ReqFixed DEF CreatePool, claimVars, leaseStanding
    <3>4. leaseTold(c) = FALSE /\ leaseTold(c)' = FALSE
      BY <1>0, <1>2, <2>1 DEF CreatePool, leaseTold, Worker
    <3>5. pool'[c][FallbackKind(c)] =
            Admit(pool[c][FallbackKind(c)], worker[c].type, "attempt")
      BY <1>0, <1>2, <3>1 DEF CreatePool
    <3>6. \/ leaseServer(c)' = leaseServer(c)
          \/ leaseServer(c) = "none" /\ leaseServer(c)' = "awaiting"
      BY <2>3, <3>5, ReqFixed DEF Admit, leaseServer, visible, FallbackKind
    <3> QED BY <3>3, <3>4, <3>6 DEF Move, Same
  <2> QED BY <2>2, <2>3, OneClaim
<1>3. ASSUME NEW c \in Claims, CheckAssigned(c) PROVE [L!Next]_(L!leaseVars)
  <2>1. worker[c] \in Worker
    BY <1>3, Working DEF CheckAssigned
  <2>2. \A d \in Claims \ {c} : Kept(d)
    BY <1>0, <1>3 DEF CheckAssigned, claimVars, Kept
  <2>3. ASSUME FallbackAgrees(c) PROVE Move(c)
    <3>1. leaseStanding(c)' = leaseStanding(c) /\ leaseServer(c)' = leaseServer(c)
      BY <1>3, ReqFixed DEF CheckAssigned, claimVars, leaseStanding, leaseServer, FallbackKind
    <3>2. leaseTold(c) = FALSE /\ leaseTold(c)' = ServerAssigned(c)
      <4>1. worker'[c].pc = "patch" /\ worker'[c].assigned = ServerAssigned(c)
        BY <1>0, <1>3, <2>1 DEF CheckAssigned, Worker
      <4>2. FallbackAgrees(c)'
        BY <2>3, ReqFixed
      <4>3. ServerAssigned(c) \in BOOLEAN
        BY DEF ServerAssigned
      <4> QED BY <1>3, <4>1, <4>2, <4>3 DEF CheckAssigned, leaseTold
    <3>3. CASE ServerAssigned(c)
      <4>1. PICK j \in Kinds : pool[c][j].state = "attached"
        BY <3>3 DEF ServerAssigned
      <4>2. j = FallbackKind(c)
        BY <2>3, <4>1, OneKind DEF Exists
      <4>3. pool[c][j].origin # "posthumous"
        BY <1>3, <4>1 DEF CheckAssigned, Exclusive, Posthumous, Exists
      <4>4. leaseServer(c) = "attached"
        BY <2>3, <4>1, <4>2, <4>3 DEF leaseServer, visible
      <4>5. leaseTold(c)' = TRUE
        BY <3>2, <3>3 DEF ServerAssigned
      <4> QED BY <3>1, <4>4, <4>5 DEF Move
    <3>4. CASE ~ServerAssigned(c)
      <4>1. leaseTold(c)' = FALSE
        BY <3>2, <3>4 DEF ServerAssigned
      <4> QED BY <3>1, <3>2, <4>1 DEF Move, Same
    <3> QED BY <3>3, <3>4
  <2> QED BY <2>2, <2>3, OneClaim
<1>4. ASSUME NEW c \in Claims, Patch(c) PROVE [L!Next]_(L!leaseVars)
  <2>1. worker[c] \in Worker
    BY <1>4, Working DEF Patch
  <2>2. \A d \in Claims \ {c} : Kept(d)
    BY <1>0, <1>4 DEF Patch, Kept
  <2>3. ASSUME FallbackAgrees(c) PROVE Move(c)
    <3>1. phase[c] # "gone" /\ ~accepted[c] /\ ~launched[c]
      BY <1>4 DEF Patch, Exclusive
    <3>2. /\ launched'[c] = worker[c].assigned /\ worker'[c] = Idle
          /\ phase'[c] = phase[c] /\ accepted'[c] = accepted[c] /\ pool' = pool
          /\ worker[c].assigned \in BOOLEAN /\ worker[c].pc = "patch"
      BY <1>0, <1>4, <2>1, <3>1 DEF Patch, Worker
    <3>3. leaseServer(c)' = leaseServer(c)
      BY <3>2, ReqFixed DEF leaseServer, FallbackKind
    <3>4. leaseTold(c) = worker[c].assigned /\ leaseTold(c)' = FALSE
      BY <1>0, <2>3, <3>2, ReqFixed DEF leaseTold
    <3>5. FallbackAgrees(c)'
      BY <2>3, ReqFixed
    <3>6. CASE worker[c].assigned
      <4>1. leaseStanding(c)' = IF leaseStanding(c) = "wanted" THEN "launched"
                                                              ELSE leaseStanding(c)
        BY <1>0, <2>3, <3>1, <3>2, <3>5, <3>6 DEF leaseStanding
      <4>2. leaseTold(c) = TRUE
        BY <3>2, <3>4, <3>6
      <4> QED BY <3>3, <3>4, <4>1, <4>2 DEF Move
    <3>7. CASE ~worker[c].assigned
      <4>1. leaseStanding(c)' = leaseStanding(c)
        BY <1>0, <2>3, <3>1, <3>2, <3>5, <3>7 DEF leaseStanding
      <4>2. leaseTold(c) = FALSE
        BY <3>2, <3>4, <3>7
      <4> QED BY <3>3, <3>4, <4>1, <4>2 DEF Move, Same
    <3> QED BY <3>6, <3>7
  <2> QED BY <2>2, <2>3, OneClaim
<1>5. CASE Restart
  <2>1. UNCHANGED <<phase, accepted, launched, pool>> /\ \A d \in Claims : worker'[d] = Idle
    BY <1>5 DEF Restart, claimVars
  <2>2. \A d \in Claims : leaseStanding(d)' = leaseStanding(d) /\ leaseServer(d)' = leaseServer(d)
    BY <2>1, ReqFixed DEF leaseStanding, leaseServer, FallbackKind
  <2>3. \A d \in Claims : leaseTold(d)' = FALSE
    BY <1>0, <2>1 DEF leaseTold
  <2> QED BY <2>2, <2>3, EndIsLease, ToldBoolean
<1>6. ASSUME NEW c \in Claims, MarkDeleted(c) PROVE [L!Next]_(L!leaseVars)
  <2>1. \A d \in Claims \ {c} : Kept(d)
    BY <1>0, <1>6 DEF MarkDeleted, Kept
  <2>2. ASSUME FallbackAgrees(c) PROVE Move(c)
    <3>1. ~accepted[c]
      BY <1>6 DEF MarkDeleted, Exclusive
    <3>2. FallbackAgrees(c)' /\ FallbackKind(c)' = FallbackKind(c)
      BY <2>2, ReqFixed DEF FallbackKind
    <3>3. /\ leaseStanding(c) \in {"wanted", "launched"}
          /\ leaseStanding(c)' = "ending"
      BY <1>0, <1>6, <2>2, <3>1, <3>2 DEF MarkDeleted, leaseStanding
    <3>4. leaseServer(c)' = leaseServer(c) /\ leaseTold(c)' = leaseTold(c)
      BY <1>6, <2>2, <3>2 DEF MarkDeleted, leaseServer, leaseTold
    <3> QED BY <3>3, <3>4 DEF Move
  <2> QED BY <2>1, <2>2, OneClaim
<1>7. ASSUME NEW c \in Claims,
             DeleteAccepted(c) \/ DeleteReplyLost(c) \/ DeleteNotFound(c) \/ ConfirmGone(c)
      PROVE  [L!Next]_(L!leaseVars)
  <2>1. /\ phase[c] = "deleting" /\ worker[c] = Idle /\ worker' = worker
        /\ launched' = launched /\ TargetKind(c) \in Kinds
    BY <1>7 DEF DeleteAccepted, DeleteReplyLost, DeleteNotFound, ConfirmGone, Deletable,
                claimVars, TypeOK, TargetKind, FallbackKind, FallbackOf, Kinds
  <2>2. \A d \in Claims \ {c} : Kept(d)
    BY <1>0, <1>7, <2>1
       DEF DeleteAccepted, DeleteReplyLost, DeleteNotFound, ConfirmGone, claimVars, Kept
  <2>3. ASSUME FallbackAgrees(c) PROVE Move(c)
    <3> DEFINE p == pool[c][FallbackKind(c)]
    <3>1. /\ TargetKind(c) = FallbackKind(c) /\ StableKind(req[c])
          /\ FallbackKind(c) \in Kinds
      BY <2>3, OneKind
    <3>2. FallbackAgrees(c)' /\ FallbackKind(c)' = FallbackKind(c)
      BY <2>3, ReqFixed DEF FallbackKind
    <3>3. leaseTold(c) = FALSE /\ leaseTold(c)' = FALSE
      BY <1>0, <2>1 DEF leaseTold
    <3>4. accepted[c] => leaseServer(c) = "none"
      BY <2>3, <3>1 DEF DeletedForGood, leaseServer, visible, Exists
    <3>5. leaseStanding(c) = IF accepted[c] THEN "released" ELSE "ending"
      BY <1>0, <2>1, <2>3 DEF leaseStanding
    <3>6. ~accepted[c] /\ p.state # "absent" => leaseServer(c) # "none"
      BY <1>0, <2>1, <2>3, <3>1 DEF Posthumous, Exists, leaseServer, visible, Pool
    <3>7. CASE DeleteAccepted(c)
      <4>1. p'.state = "absent" /\ phase'[c] = "deleting" /\ accepted'[c] = TRUE
            /\ p.state # "absent"
        BY <1>0, <2>1, <3>1, <3>2, <3>7 DEF DeleteAccepted, NoPool, Exists
      <4>2. leaseServer(c)' = "none" /\ leaseStanding(c)' = "released"
        BY <3>2, <4>1 DEF leaseServer, leaseStanding, visible
      <4> QED BY <1>0, <3>3, <3>4, <3>5, <3>6, <4>1, <4>2 DEF Move, Same
    <3>8. CASE DeleteReplyLost(c)
      <4>1. p'.state = "absent" /\ UNCHANGED <<phase, accepted>>
        BY <1>0, <2>1, <3>1, <3>2, <3>8 DEF DeleteReplyLost, NoPool, claimVars
      <4>2. leaseServer(c)' = "none" /\ leaseStanding(c)' = leaseStanding(c)
        BY <2>1, <2>3, <3>2, <4>1 DEF leaseServer, leaseStanding, visible
      <4> QED BY <3>3, <4>2 DEF Move, Same
    <3>9. CASE DeleteNotFound(c) \/ ConfirmGone(c)
      <4>1. /\ pool' = pool /\ accepted' = accepted /\ phase'[c] = "gone"
            /\ accepted[c] \/ p.state = "absent"
        BY <1>0, <3>1, <3>9 DEF DeleteNotFound, ConfirmGone, Exists
      <4>2. leaseServer(c) = "none"
        BY <2>3, <3>4, <4>1 DEF leaseServer, visible
      <4>3. leaseServer(c)' = leaseServer(c) /\ leaseStanding(c)' = "gone"
        BY <2>3, <3>2, <4>1 DEF leaseServer, leaseStanding
      <4> QED BY <3>3, <3>5, <4>2, <4>3 DEF Move
    <3> QED BY <1>7, <3>7, <3>8, <3>9
  <2> QED BY <2>2, <2>3, OneClaim
<1>8. ASSUME NEW c \in Claims, NEW k \in Kinds, PoolStep(c, k)
      PROVE  [L!Next]_(L!leaseVars)
  <2>1. UNCHANGED <<phase, accepted, launched, worker>>
    BY <1>8 DEF PoolStep, AttachServer, LoseServer, DropPool, claimVars
  <2>2. \A d \in Claims \ {c} : Kept(d)
    BY <1>0, <1>8, <2>1 DEF PoolStep, AttachServer, LoseServer, DropPool, Kept
  <2>3. ASSUME FallbackAgrees(c) PROVE Move(c)
    <3> DEFINE p == pool[c][FallbackKind(c)]
    <3>1. k = FallbackKind(c)
      BY <1>8, <2>3, OneKind DEF PoolStep, AttachServer, LoseServer, DropPool, Exists
    <3>2. FallbackAgrees(c)' /\ FallbackKind(c)' = FallbackKind(c)
      BY <2>3, ReqFixed DEF FallbackKind
    <3>3. leaseStanding(c)' = leaseStanding(c) /\ leaseTold(c)' = leaseTold(c)
      BY <2>1, <2>3, <3>2 DEF leaseStanding, leaseTold
    <3>4. p \in Pool
      BY <1>0, <3>1
    <3>5. CASE AttachServer(c, k)
      <4>1. p.state \in {"awaiting", "lost"} /\ p'.state = "attached" /\ p'.origin = p.origin
        BY <1>0, <3>1, <3>2, <3>4, <3>5 DEF AttachServer, Pool
      <4> QED BY <2>3, <3>2, <3>3, <4>1 DEF Move, Same, leaseServer, visible
    <3>6. CASE LoseServer(c, k)
      <4>1. p.state = "attached" /\ p'.state = "lost" /\ p'.origin = p.origin
        BY <1>0, <3>1, <3>2, <3>4, <3>6 DEF LoseServer, Pool
      <4> QED BY <2>3, <3>2, <3>3, <4>1 DEF Move, Same, leaseServer, visible
    <3>7. CASE DropPool(c, k)
      <4>1. p'.state = "absent"
        BY <1>0, <3>1, <3>2, <3>7 DEF DropPool, NoPool
      <4> QED BY <2>3, <3>2, <3>3, <4>1 DEF Move, Same, leaseServer, visible
    <3> QED BY <1>8, <3>5, <3>6, <3>7 DEF PoolStep
  <2> QED BY <2>2, <2>3, OneClaim
<1>9. ASSUME NEW m \in wire, DeliverLate(m) PROVE [L!Next]_(L!leaseVars)
  <2> DEFINE c == m.claim
  <2>1. /\ c \in Claims /\ m.kind \in Kinds
        /\ UNCHANGED <<phase, accepted, launched, worker>>
    BY <1>9 DEF DeliverLate, claimVars, TypeOK, Request
  <2>2. \A d \in Claims \ {c} : Kept(d)
    BY <1>0, <1>9, <2>1 DEF DeliverLate, Kept
  <2>3. ASSUME FallbackAgrees(c) PROVE Move(c)
    <3> DEFINE p == pool[c][FallbackKind(c)]
               origin == IF accepted[c] \/ phase[c] = "gone" THEN "posthumous" ELSE "late"
    <3>1. m.kind = FallbackKind(c)
      BY <2>1, <2>3, OneKind
    <3>2. FallbackAgrees(c)' /\ FallbackKind(c)' = FallbackKind(c)
      BY <2>1, <2>3, ReqFixed DEF FallbackKind
    <3>3. leaseStanding(c)' = leaseStanding(c) /\ leaseTold(c)' = leaseTold(c)
      BY <2>1, <2>3, <3>2 DEF leaseStanding, leaseTold
    <3>4. p' = Admit(p, m.type, origin)
      BY <1>0, <1>9, <2>1, <3>1, <3>2 DEF DeliverLate
    <3>5. CASE p.state # "absent" \/ origin = "posthumous"
      <4>1. leaseServer(c)' = leaseServer(c)
        BY <2>3, <3>2, <3>4, <3>5 DEF Admit, leaseServer, visible
      <4> QED BY <3>3, <4>1 DEF Move, Same
    <3>6. CASE p.state = "absent" /\ origin = "late"
      <4>1. leaseServer(c) = "none" /\ leaseServer(c)' = "awaiting"
        BY <2>3, <3>2, <3>4, <3>6 DEF Admit, leaseServer, visible
      <4>2. leaseStanding(c) \in {"wanted", "launched", "ending"}
        BY <1>0, <2>1, <2>3, <3>6 DEF leaseStanding
      <4> QED BY <3>3, <4>1, <4>2 DEF Move
    <3> QED BY <3>5, <3>6
  <2> QED BY <2>1, <2>2, <2>3, OneClaim
<1>10. CASE UNCHANGED <<phase, accepted, launched, worker, pool>>
  <2>1. \A d \in Claims : Same(d)
    BY <1>10, KeptIsSame DEF Kept
  <2> QED BY <2>1 DEF Same, L!leaseVars
<1> QED
  BY <1>1, <1>2, <1>3, <1>4, <1>5, <1>6, <1>7, <1>8, <1>9, <1>10
     DEF Next, Lifecycle, CreateStep, DeleteStep, RefreshCatalog, LoseLate, Relink,
         vars, claimVars

LEMMA LeaseInit == Init => L!Init
<1> SUFFICES ASSUME Init PROVE L!Init
  OBVIOUS
<1>1. ASSUME NEW c \in Claims
      PROVE  /\ leaseStanding(c) = "wanted" /\ leaseServer(c) = "none"
             /\ leaseTold(c) = FALSE
  <2>1. /\ phase[c] = "live" /\ launched[c] = FALSE /\ worker[c].pc = "idle"
        /\ FallbackKind(c) \in Kinds
    BY DEF Init, Idle, FallbackKind, FallbackOf, Kinds
  <2>2. pool[c][FallbackKind(c)].state = "absent"
    BY <2>1 DEF Init, NoPool
  <2> QED BY <2>1, <2>2 DEF leaseStanding, leaseServer, leaseTold, visible
<1> QED BY <1>1 DEF L!Init

(* Provisioning implements Lease: for the NodeClaims whose requirement      *)
(* tells Delete the kind of their pool, all that attempts, retries, lost    *)
(* replies, late requests and restarts amount to is one pool that is let go *)
(* before the NodeClaim is.                                                 *)
THEOREM LeaseImplemented == Spec => ImplementsLease
<1>1. Spec => []Posthumous
  <2>1. TypeOK /\ Posthumous /\ [Next]_vars => Posthumous'
    BY PosthumousNext
  <2> QED BY <2>1, PosthumousInit, TypeCorrect, PTL DEF Spec
<1>2. IInv /\ Posthumous /\ [Next]_vars => [L!Next]_(L!leaseVars)
  BY LeaseNext, TargetIsAll DEF IInv
<1> QED BY <1>1, <1>2, LeaseInit, Inductive, PTL DEF Spec, ImplementsLease, L!Spec
==============================================================================
