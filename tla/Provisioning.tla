----------------------------- MODULE Provisioning -----------------------------
(****************************************************************************)
(* The life of a NodeClaim: CloudProvider.Create and CloudProvider.Delete   *)
(* (src/pkg/cloudprovider/cloudprovider.go), the pool calls of the instance *)
(* provider they make (src/pkg/providers/instance/instance.go), the         *)
(* Rackspace pools those calls act on, and the karpenter controller that    *)
(* drives them.                                                             *)
(*                                                                          *)
(* A Create is several remote calls. Each is a step of its own, and between *)
(* two steps the ServerClass list may be refreshed, a server attached or    *)
(* lost, the pool deleted by hand, the NodeClaim marked for deletion or the *)
(* process restarted; any step may fail and end the attempt. A create       *)
(* request whose reply never came may still reach Rackspace later.          *)
(*                                                                          *)
(* Karpenter reconciles one NodeClaim in one worker at a time, so a Delete  *)
(* never overlaps a Create of the same NodeClaim in one process.            *)
(****************************************************************************)
EXTENDS Offerings

CONSTANTS
  Claims,        \* the NodeClaims, each named by its UID
  Requirements,  \* the requirements they may carry
  VMs            \* the servers Rackspace may boot, each named by its VM UUID

ASSUME RequirementsAssumption == Requirements \subseteq Requirement

VARIABLES
  req,         \* the requirements in each NodeClaim's spec, fixed when created
  phase,       \* "live", "deleting" (deletionTimestamp set), or "gone"
  launched,    \* the Launched condition is True (Unknown otherwise)
  label,       \* the capacity-type label Create stamped, "" before it did
  flavor,      \* the instance-type label Create stamped, NoType before it did
  providerID,  \* status.providerID
  accepted,    \* Rackspace accepted a Delete for this NodeClaim
  catalog,     \* the cached ServerClass list
  worker,      \* the Create attempt in progress for each NodeClaim
  pool,        \* the Rackspace pool of each kind named after each NodeClaim
  wire         \* create requests the client gave up on, not yet received

claimVars == <<phase, launched, label, flavor, providerID, accepted>>
vars == <<req, claimVars, catalog, worker, pool, wire>>

------------------------------------------------------------------------------
NoType == "no type"

(* MakeProviderID: the scheme, the kind and the name of a pool, the         *)
(* Cloudspace being the same in all of them; and the IDs the OpenStack      *)
(* cloud controller gives to Nodes.                                         *)
NoID == <<"">>
PoolID(k, c) == <<"rackspacespot", k, c>>
VMID(v) == <<"openstack", v>>

PoolIDs == {PoolID(k, c) : k \in Kinds, c \in Claims}
VMIDs == {VMID(v) : v \in VMs}
IDs == {NoID} \union PoolIDs \union VMIDs

(* A pool of one kind under a NodeClaim's UID. "awaiting" has no server     *)
(* yet, whatever its bid; "lost" had one that was taken away. Its origin    *)
(* says what built it: an attempt that heard the answer, a request its      *)
(* client had given up on ("late"), or such a request received when         *)
(* Rackspace had already accepted a Delete for the NodeClaim or the         *)
(* NodeClaim was gone ("posthumous"). The properties read it, no action     *)
(* does.                                                                    *)
Pool == [state : {"absent", "awaiting", "attached", "lost"},
         class : Types \union {NoType},
         origin : {"none", "attempt", "late", "posthumous"}]

NoPool == [state |-> "absent", class |-> NoType, origin |-> "none"]

Exists(c, k) == pool[c][k].state # "absent"

(* The API admits a pool only if the name is free among the pools of that   *)
(* kind; otherwise it answers AlreadyExists and the pool stays as it is.    *)
Admit(p, t, origin) ==
  IF p.state = "absent"
  THEN [state |-> "awaiting", class |-> t, origin |-> origin]
  ELSE p

(* A Create attempt: what is to be done next, the capacity type and the     *)
(* ServerClass picked, the providerID the NodeClaim had when it was read,   *)
(* and what ServerAssigned answered.                                        *)
Worker == [pc : {"create", "get", "check", "patch"}, kind : Kinds,
           type : Types, seen : IDs, assigned : BOOLEAN]

Idle == [pc |-> "idle"]

Request == [claim : Claims, kind : Kinds, type : Types]

TypeOK ==
  /\ req \in [Claims -> Requirements]
  /\ phase \in [Claims -> {"live", "deleting", "gone"}]
  /\ launched \in [Claims -> BOOLEAN]
  /\ label \in [Claims -> Kinds \union {""}]
  /\ flavor \in [Claims -> Types \union {NoType}]
  /\ providerID \in [Claims -> IDs]
  /\ accepted \in [Claims -> BOOLEAN]
  /\ catalog \in Catalogs
  /\ worker \in [Claims -> Worker \union {Idle}]
  /\ pool \in [Claims -> [Kinds -> Pool]]
  /\ wire \subseteq Request

------------------------------------------------------------------------------
Init ==
  /\ req \in [Claims -> Requirements]
  /\ phase = [c \in Claims |-> "live"]
  /\ launched = [c \in Claims |-> FALSE]
  /\ label = [c \in Claims |-> ""]
  /\ flavor = [c \in Claims |-> NoType]
  /\ providerID = [c \in Claims |-> NoID]
  /\ accepted = [c \in Claims |-> FALSE]
  /\ catalog \in Catalogs
  /\ worker = [c \in Claims |-> Idle]
  /\ pool = [c \in Claims |-> [k \in Kinds |-> NoPool]]
  /\ wire = {}

------------------------------------------------------------------------------
(* CloudProvider.Create, one action per remote call.                        *)

(* A regression to picking by requirement order: any permitted kind that    *)
(* has an offering, not always spot first.                                  *)
StartCreateAnyKind(c) ==
  /\ worker[c] = Idle /\ phase[c] = "live" /\ ~launched[c]
  /\ \E k \in Kinds : \E t \in Compatible(catalog, req[c], k) :
       worker' = [worker EXCEPT ![c] =
                   [pc |-> "create", kind |-> k, type |-> t,
                    seen |-> providerID[c], assigned |-> FALSE]]
  /\ UNCHANGED <<req, claimVars, catalog, pool, wire>>

(* An attempt that goes on although no instance type was picked.            *)
StartCreateUnchecked(c) ==
  /\ worker[c] = Idle /\ phase[c] = "live" /\ ~launched[c]
  /\ \E t \in IF Picks(catalog, req[c]) = {} THEN {NoType} ELSE Picks(catalog, req[c]) :
       worker' = [worker EXCEPT ![c] =
                   [pc |-> "create", kind |-> ChosenKind(catalog, req[c]),
                    type |-> t, seen |-> providerID[c], assigned |-> FALSE]]
  /\ UNCHANGED <<req, claimVars, catalog, pool, wire>>

(* A NodeClaim that is not Launched is reconciled again and again. Every    *)
(* attempt picks afresh from the list cached at that moment. When nothing   *)
(* can be picked Create returns an error and changes nothing.               *)
StartCreate(c) ==
  /\ worker[c] = Idle /\ phase[c] = "live" /\ ~launched[c]
  /\ \E t \in Picks(catalog, req[c]) :
       worker' = [worker EXCEPT ![c] =
                   [pc |-> "create", kind |-> ChosenKind(catalog, req[c]),
                    type |-> t, seen |-> providerID[c], assigned |-> FALSE]]
  /\ UNCHANGED <<req, claimVars, catalog, pool, wire>>

(* A Create that gives up on a name that is taken.                          *)
CreatePoolUnlessTaken(c) ==
  LET w == worker[c] IN
  /\ w.pc = "create" /\ ~Exists(c, w.kind)
  /\ pool' = [pool EXCEPT ![c][w.kind] = Admit(@, w.type, "attempt")]
  /\ worker' = [worker EXCEPT ![c].pc = "get"]
  /\ UNCHANGED <<req, claimVars, catalog, wire>>

(* A Create that replaces a pool it finds under its name.                   *)
CreatePoolAfresh(c) ==
  LET w == worker[c] IN
  /\ w.pc = "create"
  /\ pool' = [pool EXCEPT ![c][w.kind] = Admit(NoPool, w.type, "attempt")]
  /\ worker' = [worker EXCEPT ![c].pc = "get"]
  /\ UNCHANGED <<req, claimVars, catalog, wire>>

(* CreateSpotNodePool or CreateOnDemandNodePool answers: AlreadyExists is   *)
(* not an error, the pool in flight is used again.                          *)
CreatePool(c) ==
  LET w == worker[c] IN
  /\ w.pc = "create"
  /\ pool' = [pool EXCEPT ![c][w.kind] = Admit(@, w.type, "attempt")]
  /\ worker' = [worker EXCEPT ![c].pc = "get"]
  /\ UNCHANGED <<req, claimVars, catalog, wire>>

RequestOf(c) == [claim |-> c, kind |-> worker[c].kind, type |-> worker[c].type]

(* The reply to the create request is lost: Create returns an error while   *)
(* the request is still on its way.                                         *)
AbandonCreate(c) ==
  /\ worker[c].pc = "create"
  /\ wire' = wire \union {RequestOf(c)}
  /\ worker' = [worker EXCEPT ![c] = Idle]
  /\ UNCHANGED <<req, claimVars, catalog, pool>>

(* instance.Get of the pool just created.                                   *)
GetPool(c) ==
  /\ worker[c].pc = "get" /\ Exists(c, worker[c].kind)
  /\ worker' = [worker EXCEPT ![c].pc = "check"]
  /\ UNCHANGED <<req, claimVars, catalog, pool, wire>>

(* A provider that takes a pool that exists for a server that is attached.  *)
ServerAssignedIfCreated(c) == \E k \in Kinds : Exists(c, k)

(* Rackspace names an assigned server after its pool, and pools of both     *)
(* kinds carry the NodeClaim's UID, so the prefix match cannot tell them    *)
(* apart.                                                                   *)
ServerAssigned(c) == \E k \in Kinds : pool[c][k].state = "attached"

CheckAssigned(c) ==
  /\ worker[c].pc = "check"
  /\ worker' = [worker EXCEPT ![c].pc = "patch", ![c].assigned = ServerAssigned(c)]
  /\ UNCHANGED <<req, claimVars, catalog, pool, wire>>

(* What hydrate writes into the NodeClaim, as the merge patch carries it:   *)
(* the fields that differ from the NodeClaim read when the attempt began.   *)
hydrate(c, w) ==
  LET id == PoolID(w.kind, c) IN
  /\ label' = [label EXCEPT ![c] = w.kind]
  /\ flavor' = [flavor EXCEPT ![c] = w.type]
  /\ providerID' = [providerID EXCEPT ![c] = IF w.seen = id THEN @ ELSE id]

(* The lifecycle controller patches the NodeClaim after Create, whether it  *)
(* returned the NodeClaim or the AwaitingServerAssignment error.            *)
Patch(c) ==
  LET w == worker[c] IN
  /\ w.pc = "patch"
  /\ hydrate(c, w)
  /\ launched' = [launched EXCEPT ![c] = @ \/ w.assigned]
  /\ worker' = [worker EXCEPT ![c] = Idle]
  /\ UNCHANGED <<req, phase, accepted, catalog, pool, wire>>

(* A call of the attempt fails: the API refuses it, the pool is not found,  *)
(* the Cloudspace cannot be read, the patch is lost.                        *)
StepFails(c) ==
  /\ worker[c] # Idle
  /\ worker' = [worker EXCEPT ![c] = Idle]
  /\ UNCHANGED <<req, claimVars, catalog, pool, wire>>

(* The process ends and starts again: every attempt is forgotten, and the   *)
(* create requests that were in flight may still arrive.                    *)
Restart ==
  /\ \E c \in Claims : worker[c] # Idle
  /\ \E S \in SUBSET {c \in Claims : worker[c].pc = "create"} :
       wire' = wire \union {RequestOf(c) : c \in S}
  /\ worker' = [c \in Claims |-> Idle]
  /\ UNCHANGED <<req, claimVars, catalog, pool>>

------------------------------------------------------------------------------
(* CloudProvider.Delete and the end of a NodeClaim.                         *)

(* LaunchTimeout, the registration timeout, a disruption or a user.         *)
MarkDeleted(c) ==
  /\ phase[c] = "live"
  /\ phase' = [phase EXCEPT ![c] = "deleting"]
  /\ UNCHANGED <<req, launched, label, flavor, providerID, accepted, catalog,
                 worker, pool, wire>>

(* The kind of pool Delete goes for when Create stamped no label: the first *)
(* value of the requirement, and spot unless that is on-demand.             *)
FallbackOf(r) == IF requirementValue(r) = "on-demand" THEN "on-demand" ELSE "spot"

FallbackKind(c) == FallbackOf(req[c])

(* A Delete that goes by the requirement alone.                             *)
TargetKindByRequirement(c) == FallbackKind(c)

(* The kind of pool Delete goes for: the one in the label Create stamped.   *)
TargetKind(c) == IF label[c] # "" THEN label[c] ELSE FallbackKind(c)

Deletable(c) == phase[c] = "deleting" /\ worker[c] = Idle

(* A Delete whose NotFound stays an ordinary error.                         *)
DeleteNotFoundIsError(c) ==
  /\ Deletable(c) /\ ~Exists(c, TargetKind(c))
  /\ UNCHANGED vars

(* DeleteSpotNodePool or DeleteOnDemandNodePool accepts.                    *)
DeleteAccepted(c) ==
  /\ Deletable(c) /\ Exists(c, TargetKind(c))
  /\ pool' = [pool EXCEPT ![c][TargetKind(c)] = NoPool]
  /\ accepted' = [accepted EXCEPT ![c] = TRUE]
  /\ UNCHANGED <<req, phase, launched, label, flavor, providerID, catalog,
                 worker, wire>>

(* The pool is deleted but the reply is lost: Delete returns an error.      *)
DeleteReplyLost(c) ==
  /\ Deletable(c) /\ Exists(c, TargetKind(c))
  /\ pool' = [pool EXCEPT ![c][TargetKind(c)] = NoPool]
  /\ UNCHANGED <<req, claimVars, catalog, worker, wire>>

(* A Delete that takes every error of the API for NotFound.                 *)
DeleteErrorIsNotFound(c) ==
  /\ Deletable(c)
  /\ phase' = [phase EXCEPT ![c] = "gone"]
  /\ UNCHANGED <<req, launched, label, flavor, providerID, accepted, catalog,
                 worker, pool, wire>>

(* ErrPoolNotFound becomes NodeClaimNotFoundError, on which karpenter takes *)
(* its finalizer off the NodeClaim.                                         *)
DeleteNotFound(c) ==
  /\ Deletable(c) /\ ~Exists(c, TargetKind(c))
  /\ phase' = [phase EXCEPT ![c] = "gone"]
  /\ UNCHANGED <<req, launched, label, flavor, providerID, accepted, catalog,
                 worker, pool, wire>>

(* CloudProvider.Get of the NodeClaim's providerID, by which karpenter      *)
(* confirms a Delete that was accepted, answers NotFound: the pool a        *)
(* synthetic ID names is gone. An OpenStack ID is looked up among the       *)
(* Nodes, which may be gone already.                                        *)
ConfirmGone(c) ==
  /\ Deletable(c) /\ accepted[c]
  /\ \A k \in Kinds : providerID[c] = PoolID(k, c) => ~Exists(c, k)
  /\ phase' = [phase EXCEPT ![c] = "gone"]
  /\ UNCHANGED <<req, launched, label, flavor, providerID, accepted, catalog,
                 worker, pool, wire>>

------------------------------------------------------------------------------
(* The environment.                                                         *)

(* A refresh of the ServerClass cache brings another list.                  *)
RefreshCatalog ==
  /\ \E cat \in Catalogs \ {catalog} : catalog' = cat
  /\ UNCHANGED <<req, claimVars, worker, pool, wire>>

(* Rackspace attaches a server to a pool, the first or another one.         *)
AttachServer(c, k) ==
  /\ pool[c][k].state \in {"awaiting", "lost"}
  /\ pool' = [pool EXCEPT ![c][k].state = "attached"]
  /\ UNCHANGED <<req, claimVars, catalog, worker, wire>>

(* Rackspace takes the server away.                                         *)
LoseServer(c, k) ==
  /\ pool[c][k].state = "attached"
  /\ pool' = [pool EXCEPT ![c][k].state = "lost"]
  /\ UNCHANGED <<req, claimVars, catalog, worker, wire>>

(* The pool is deleted from outside.                                        *)
DropPool(c, k) ==
  /\ Exists(c, k)
  /\ pool' = [pool EXCEPT ![c][k] = NoPool]
  /\ UNCHANGED <<req, claimVars, catalog, worker, wire>>

(* A create request nobody waits for any more is received, or never is.     *)
DeliverLate(m) ==
  /\ m \in wire
  /\ wire' = wire \ {m}
  /\ LET origin == IF accepted[m.claim] \/ phase[m.claim] = "gone"
                   THEN "posthumous" ELSE "late"
     IN  pool' = [pool EXCEPT ![m.claim][m.kind] = Admit(@, m.type, origin)]
  /\ UNCHANGED <<req, claimVars, catalog, worker>>

LoseLate(m) ==
  /\ m \in wire
  /\ wire' = wire \ {m}
  /\ UNCHANGED <<req, claimVars, catalog, worker, pool>>

(* nodelink rewrites status.providerID to the ID of a Node. NodeLink.tla    *)
(* says when; here it may happen at any time while the NodeClaim exists.    *)
Relink(c, v) ==
  /\ phase[c] # "gone"
  /\ providerID' = [providerID EXCEPT ![c] = VMID(v)]
  /\ UNCHANGED <<req, phase, launched, label, flavor, accepted, catalog,
                 worker, pool, wire>>

------------------------------------------------------------------------------
CreateStep(c) ==
  \/ CreatePool(c) \/ AbandonCreate(c) \/ GetPool(c) \/ CheckAssigned(c)
  \/ Patch(c) \/ StepFails(c)

DeleteStep(c) ==
  \/ DeleteAccepted(c) \/ DeleteReplyLost(c) \/ DeleteNotFound(c) \/ ConfirmGone(c)

PoolStep(c, k) == AttachServer(c, k) \/ LoseServer(c, k) \/ DropPool(c, k)

(* All but nodelink and the end of the process, which NodeLink refines.     *)
Lifecycle ==
  \/ \E c \in Claims : StartCreate(c) \/ CreateStep(c)
  \/ \E c \in Claims : MarkDeleted(c) \/ DeleteStep(c)
  \/ \E c \in Claims, k \in Kinds : PoolStep(c, k)
  \/ \E m \in wire : DeliverLate(m) \/ LoseLate(m)
  \/ RefreshCatalog

Next ==
  \/ Lifecycle \/ Restart
  \/ \E c \in Claims, v \in VMs : Relink(c, v)

Spec == Init /\ [][Next]_vars

------------------------------------------------------------------------------
(* Safety.                                                                  *)

(* The requirements for which every capacity type that an attempt may       *)
(* choose is the one Delete falls back to.                                  *)
Definite == {r \in Requirements : KindsOf(r) \subseteq {FallbackOf(r)}}

FallbackAgrees(c) == req[c] \in Definite

(* Deleting a NodeClaim leaves no pool behind: when karpenter has let a     *)
(* NodeClaim go, no pool named after it exists, of either kind, provided    *)
(* that the attempts could only choose one kind and that Delete knew it,    *)
(* from the label or from the requirement. Only a create request received   *)
(* after the Delete can still build one. This is what CloudProvider.Delete  *)
(* prefers the label for.                                                   *)
NoOrphan ==
  \A c \in Claims :
    /\ phase[c] = "gone"
    /\ StableKind(req[c])
    /\ label[c] # "" \/ FallbackAgrees(c)
    => \A k \in Kinds : Exists(c, k) => pool[c][k].origin = "posthumous"

(* What Delete promises without any such proviso: once Rackspace accepted a *)
(* Delete or karpenter let the NodeClaim go, no pool of the kind Delete     *)
(* goes for is left. A pool that leaks is of the kind neither the label nor *)
(* the requirement named.                                                   *)
TargetGone ==
  \A c \in Claims :
    accepted[c] \/ phase[c] = "gone" =>
      (Exists(c, TargetKind(c)) => pool[c][TargetKind(c)].origin = "posthumous")

(* However often Create is retried, abandoned, delivered late or cut short, *)
(* a NodeClaim whose capacity type cannot change has one pool, and every    *)
(* NodeClaim has only pools of capacity types it permits: the pool name     *)
(* makes Create idempotent.                                                 *)
OnePool ==
  \A c \in Claims : StableKind(req[c]) =>
    \A k1, k2 \in Kinds : Exists(c, k1) /\ Exists(c, k2) => k1 = k2

KindPermitted ==
  \A c \in Claims, k \in Kinds : Exists(c, k) => Permits(req[c], k)

(* A NodeClaim is Launched only on a server of its own: unless the pool has *)
(* since been deleted or rebuilt by a late request, a server was attached   *)
(* to the pool the label names. Create asks ServerAssigned by name alone,   *)
(* so this needs the capacity type to be stable.                            *)
LaunchedHasServer ==
  \A c \in Claims : launched[c] /\ StableKind(req[c]) =>
    \A k \in Kinds :
      pool[c][k].state = "awaiting" => pool[c][k].origin # "attempt"

(* A retry never costs progress: a pool that exists before and after a step *)
(* keeps the ServerClass it was made with, and one that has had a server is *)
(* never back to waiting for its first. Create re-uses the pool in flight.  *)
KeepsProgress(p, q) ==
  p.state # "absent" /\ q.state # "absent" =>
    /\ p.class = q.class
    /\ q.state = "awaiting" => p.state = "awaiting"

RetryKeepsProgress ==
  [][\A c \in Claims, k \in Kinds : KeepsProgress(pool[c][k], pool'[c][k])]_vars

------------------------------------------------------------------------------
(* The abstract specification of a NodeClaim's life, Lease, is implemented  *)
(* for the NodeClaims whose requirement tells Delete the kind of the pool.  *)
(* Of the others it sees nothing. Nor does it see a pool built by a request *)
(* that Rackspace received after the Delete it accepted.                    *)
leaseStanding(c) ==
  IF ~FallbackAgrees(c) THEN "wanted"
  ELSE CASE phase[c] = "gone" -> "gone"
         [] phase[c] = "deleting" /\ accepted[c] -> "released"
         [] phase[c] = "deleting" /\ ~accepted[c] -> "ending"
         [] OTHER -> IF launched[c] THEN "launched" ELSE "wanted"

visible(p) ==
  IF p.state = "absent" \/ p.origin = "posthumous" THEN "none" ELSE p.state

leaseServer(c) ==
  IF ~FallbackAgrees(c) THEN "none" ELSE visible(pool[c][FallbackKind(c)])

leaseTold(c) == FallbackAgrees(c) /\ worker[c].pc = "patch" /\ worker[c].assigned

L == INSTANCE Lease WITH
  standing <- [c \in Claims |-> leaseStanding(c)],
  server <- [c \in Claims |-> leaseServer(c)],
  told <- [c \in Claims |-> leaseTold(c)]

(* Whatever fails, is repeated, lost, late or restarted, karpenter sees no  *)
(* more than a Lease: one pool, never made afresh, Launched only when its   *)
(* server was seen, and let go before the NodeClaim is.                     *)
ImplementsLease == L!Spec

------------------------------------------------------------------------------
(* Liveness.                                                                *)

(* Karpenter reconciles a NodeClaim again and again, so that an attempt     *)
(* ends and a Delete is repeated (weak fairness), and a call that is made   *)
(* again and again does not fail every time (strong fairness). Nothing is   *)
(* assumed of Rackspace's servers, of the list, of late requests or of      *)
(* nodelink.                                                                *)
Fairness ==
  \A c \in Claims :
    /\ WF_vars(CreateStep(c)) /\ WF_vars(DeleteStep(c))
    /\ SF_vars(StartCreate(c)) /\ SF_vars(CreatePool(c)) /\ SF_vars(GetPool(c))
    /\ SF_vars(CheckAssigned(c)) /\ SF_vars(Patch(c))

FairSpec == Spec /\ Fairness

(* A NodeClaim that is being deleted is let go, wherever its attempt was,   *)
(* whether or not its pool was ever made and whatever replies are lost.     *)
DeletionCompletes ==
  \A c \in Claims : phase[c] = "deleting" ~> phase[c] = "gone"

(* A server attached to a NodeClaim's pool gets the NodeClaim Launched,     *)
(* unless the server is taken away, the NodeClaim is deleted or there is a  *)
(* moment when nothing can be picked for it.                                *)
ServedIsLaunched ==
  \A c \in Claims :
    (phase[c] = "live" /\ ServerAssigned(c))
      ~> (launched[c] \/ phase[c] # "live" \/ ~ServerAssigned(c)
           \/ Picks(catalog, req[c]) = {})
==============================================================================
