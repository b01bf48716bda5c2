----------------------------- MODULE InstanceTypes -----------------------------
(****************************************************************************)
(* The instance type provider (src/pkg/providers/instancetype): the list of *)
(* ServerClasses cached for five minutes, the capacity that Nodes have      *)
(* reported, and the capacity karpenter is told, which is made of both.     *)
(*                                                                          *)
(* Two mutexes guard the two halves. p.mu is held while Rackspace is asked, *)
(* so each step of load is an action. discoveredMu is only ever held for a  *)
(* few assignments: what is done under it is one action, and List takes it  *)
(* anew for every class, so that a report may come between two of them.     *)
(*                                                                          *)
(* Sizes are in MiB. Time is reduced to whether the list is within          *)
(* refreshAfter, which may end at any moment.                               *)
(****************************************************************************)
EXTENDS Integers

CONSTANTS
  Callers,  \* the goroutines that ask for instance types
  Classes,  \* the names of ServerClasses
  Sold,     \* the sizes each class is sold with, 0 where none is given
  Offers,   \* the sets of classes Rackspace may have on its list
  Wants,    \* what is asked for: all classes by List, one by Get
  Reports,  \* what Nodes may report
  MemoryPercent,  \* VM_MEMORY_OVERHEAD_PERCENT, as envPercent accepts it
  NoOne     \* the holder of a mutex that is free

(* discoveredResources: the two that are worth measuring.                   *)
Resources == {"memory", "disk"}

Sizes == [Resources -> Nat]

Report == [class : Classes, size : Sizes]

(* What List wants. Get and MinBidPrice want the one class they name;       *)
(* MinBidPrice then makes nothing of it that capacity enters into.          *)
All == "all"

ASSUME SoldAssumption == Sold \in [Classes -> Sizes]
ASSUME OffersAssumption == Offers \subseteq SUBSET Classes
ASSUME WantsAssumption == Wants \subseteq Classes \union {All}
ASSUME ReportsAssumption == Reports \subseteq Report
ASSUME PercentAssumption == MemoryPercent \in 0 .. 99
ASSUME NoOneAssumption == NoOne \notin Callers

VARIABLES
  offered,   \* the classes on Rackspace's list
  cache,     \* the region's list, and the classes whose disk was looked up
  fresh,     \* it was fetched less than refreshAfter ago
  mu,        \* who holds p.mu
  measured,  \* p.discovered, 0 where nothing was reported
  call,      \* each caller's call
  seen,      \* every report recorded since the process started
  dropped    \* classes off Rackspace's list ever since the cached one expired

cacheVars == <<cache, fresh, mu>>
histories == <<seen, dropped>>
typeVars == <<offered, cacheVars, measured, call, histories>>

------------------------------------------------------------------------------
(* Sizes.                                                                   *)

DiskPercent == 4
Floor == 40 * 1024

shave(q, percent) == (q * (100 - percent)) \div 100

(* What a class is taken to have until a Node has told: the size it is sold *)
(* with, less what a guest loses of it. A disk that was not looked up, or   *)
(* is not given, counts as 40Gi.                                            *)
estimate(t, disks) ==
  [memory |-> shave(Sold[t].memory, MemoryPercent),
   disk |-> shave(IF t \in disks THEN Sold[t].disk ELSE Floor, DiskPercent)]

(* A capacity in which the larger of the two wins.                          *)
capacityLarger(t, disks, m) ==
  [r \in Resources |->
    IF m[r] > estimate(t, disks)[r] THEN m[r] ELSE estimate(t, disks)[r]]

(* A measured resource takes the place of the estimate, be it more or less. *)
capacity(t, disks, m) ==
  [r \in Resources |-> IF m[r] # 0 THEN m[r] ELSE estimate(t, disks)[r]]

(* What is left for pods of a capacity: kubeReserved and the eviction       *)
(* threshold come off, for the disk a tenth of the capacity itself.         *)
allocatable(q) ==
  [memory |-> q.memory - 1024 - 100,
   disk |-> q.disk - 2048 - q.disk \div 10]

------------------------------------------------------------------------------
Cache == [classes : SUBSET Classes, disks : SUBSET Classes]

NoCache == [classes |-> {}, disks |-> {}]

Nothing == [r \in Resources |-> 0]

Unmeasured == [t \in Classes |-> Nothing]

(* A call: where it is, what it wants, the list it took, the classes still  *)
(* to translate, and what it has made of the others. "Translate" with       *)
(* nothing left to do is the end of a call that succeeded, "lacking" of one *)
(* whose class is not on the list, "failed" of one that got no list.        *)
(* "Began" is what had been seen when it began; no action reads it.         *)
Call == [pc : {"lock", "load", "list", "disks", "translate", "lacking", "failed"},
         want : Classes \union {All}, took : Cache, todo : SUBSET Classes,
         answer : [Classes -> Sizes], began : SUBSET Report]

Resting == [pc |-> "idle"]

Fetching(c) == call[c].pc \in {"list", "disks"}

Answered(c) == call[c].pc = "translate" /\ call[c].todo = {}

TypeOK ==
  /\ offered \in Offers
  /\ cache \in Cache /\ fresh \in BOOLEAN
  /\ mu \in Callers \union {NoOne}
  /\ measured \in [Classes -> Sizes]
  /\ call \in [Callers -> Call \union {Resting}]
  /\ \A c \in Callers :
       call[c].pc = "translate" => call[c].todo \subseteq call[c].took.classes
  /\ seen \subseteq Report
  /\ dropped \subseteq Classes

Init ==
  /\ offered \in Offers
  /\ cache = NoCache /\ fresh = FALSE
  /\ mu = NoOne
  /\ measured = Unmeasured
  /\ call = [c \in Callers |-> Resting]
  /\ seen = {} /\ dropped = {}

------------------------------------------------------------------------------
(* load.                                                                    *)

Start(c, want) ==
  /\ call[c] = Resting
  /\ call' = [call EXCEPT ![c] =
               [pc |-> "lock", want |-> want, took |-> NoCache, todo |-> {},
                answer |-> Unmeasured, began |-> seen]]
  /\ UNCHANGED <<offered, cacheVars, measured, histories>>

(* Without the mutex, every caller that finds the list expired fetches.     *)
LockUnguarded(c) ==
  /\ call[c].pc = "lock"
  /\ mu' = c /\ call' = [call EXCEPT ![c].pc = "load"]
  /\ UNCHANGED <<offered, cache, fresh, measured, histories>>

Lock(c) ==
  /\ call[c].pc = "lock" /\ mu = NoOne
  /\ mu' = c /\ call' = [call EXCEPT ![c].pc = "load"]
  /\ UNCHANGED <<offered, cache, fresh, measured, histories>>

(* A Get that does not ask whether its class was found.                     *)
tookUnfound(c, list) ==
  LET w == call[c].want
      there == IF w = All THEN list.classes ELSE {w}
  IN  [call[c] EXCEPT !.pc = "translate", !.took = list, !.todo = there]

(* The list a call goes on with once load has returned: Get and MinBidPrice *)
(* fail if their class is not on it, List takes what there is.              *)
took(c, list) ==
  LET w == call[c].want
      there == IF w = All THEN list.classes ELSE {w} \intersect list.classes
  IN  [call[c] EXCEPT !.pc = IF w = All \/ there # {} THEN "translate" ELSE "lacking",
                      !.took = list, !.todo = there]

LoadFresh(c) ==
  /\ call[c].pc = "load" /\ fresh
  /\ call' = [call EXCEPT ![c] = took(c, cache)]
  /\ mu' = NoOne
  /\ UNCHANGED <<offered, cache, fresh, measured, histories>>

LoadExpired(c) ==
  /\ call[c].pc = "load" /\ ~fresh
  /\ call' = [call EXCEPT ![c].pc = "list"]
  /\ UNCHANGED <<offered, cacheVars, measured, histories>>

(* ListServerClasses answers.                                               *)
ListAnswers(c) ==
  /\ call[c].pc = "list"
  /\ call' = [call EXCEPT ![c].pc = "disks", ![c].took.classes = offered]
  /\ UNCHANGED <<offered, cacheVars, measured, histories>>

(* The way the price feed fails: what is cached is served, however old.     *)
ListFailsServed(c) ==
  /\ call[c].pc = "list"
  /\ call' = [call EXCEPT ![c] = took(c, cache)]
  /\ mu' = NoOne
  /\ UNCHANGED <<offered, cache, fresh, measured, histories>>

(* A return in the middle of a section that does not unlock.                *)
ListFailsLocked(c) ==
  /\ call[c].pc = "list"
  /\ call' = [call EXCEPT ![c].pc = "failed"]
  /\ UNCHANGED <<offered, cacheVars, measured, histories>>

(* An error ends the call. The expired list stays and is not served.        *)
ListFails(c) ==
  /\ call[c].pc = "list"
  /\ call' = [call EXCEPT ![c].pc = "failed"]
  /\ mu' = NoOne
  /\ UNCHANGED <<offered, cache, fresh, measured, histories>>

(* The end of load: list and disks become the cache and count as fresh from *)
(* now on.                                                                  *)
Refreshed(c, disks) ==
  LET list == [classes |-> call[c].took.classes, disks |-> disks]
  IN  /\ cache' = list /\ fresh' = TRUE /\ mu' = NoOne
      /\ call' = [call EXCEPT ![c] = took(c, list)]
      /\ dropped' = {}
      /\ UNCHANGED <<offered, measured, seen>>

(* fetchDisks is a second request, and Rackspace's list may have changed    *)
(* since the first.                                                         *)
DisksAnswer(c) ==
  /\ call[c].pc = "disks"
  /\ Refreshed(c, {t \in offered : Sold[t].disk # 0})

(* A failed lookup is not an error: the list is cached without disks.       *)
DisksFail(c) == call[c].pc = "disks" /\ Refreshed(c, {})

------------------------------------------------------------------------------
(* One turn of List's loop, or Get's only one. discoveredFor is asked for   *)
(* this class now, after whatever load had to wait for.                     *)
Translate(c, t) ==
  /\ t \in Classes /\ call[c].pc = "translate" /\ t \in call[c].todo
  /\ call' = [call EXCEPT ![c].todo = @ \ {t},
                          ![c].answer[t] = capacity(t, call[c].took.disks, measured[t])]
  /\ UNCHANGED <<offered, cacheVars, measured, histories>>

(* The caller has its answer or its error.                                  *)
Return(c) ==
  /\ Answered(c) \/ call[c].pc \in {"lacking", "failed"}
  /\ call' = [call EXCEPT ![c] = Resting]
  /\ UNCHANGED <<offered, cacheVars, measured, histories>>

(* Each report replaces what was recorded.                                  *)
UpdateFromNodeLatest(t, size) ==
  /\ measured' = [measured EXCEPT ![t] =
       [r \in Resources |-> IF size[r] = 0 THEN @[r] ELSE size[r]]]
  /\ seen' = seen \union {[class |-> t, size |-> size]}
  /\ UNCHANGED <<offered, cacheVars, call, dropped>>

(* One mutex for both halves.                                               *)
UpdateFromNodeOneMutex(t, size) ==
  /\ mu = NoOne
  /\ measured' = [measured EXCEPT ![t] =
       [r \in Resources |->
         IF size[r] = 0 \/ (@[r] # 0 /\ @[r] <= size[r]) THEN @[r] ELSE size[r]]]
  /\ seen' = seen \union {[class |-> t, size |-> size]}
  /\ UNCHANGED <<offered, cacheVars, call, dropped>>

(* The smallest capacity ever reported is kept, resource by resource; one   *)
(* that is missing or zero says nothing.                                    *)
UpdateFromNode(t, size) ==
  /\ measured' = [measured EXCEPT ![t] =
       [r \in Resources |->
         IF size[r] = 0 \/ (@[r] # 0 /\ @[r] <= size[r]) THEN @[r] ELSE size[r]]]
  /\ seen' = seen \union {[class |-> t, size |-> size]}
  /\ UNCHANGED <<offered, cacheVars, call, dropped>>

------------------------------------------------------------------------------
(* The outside: Rackspace's list changes, five minutes pass.                *)
ChangeOffer ==
  /\ \E new \in Offers \ {offered} :
       /\ offered' = new
       /\ dropped' = dropped \ new
  /\ UNCHANGED <<cacheVars, measured, call, seen>>

Expire ==
  /\ fresh /\ fresh' = FALSE
  /\ dropped' = Classes \ offered
  /\ UNCHANGED <<offered, cache, mu, measured, call, seen>>

(* The process ends: both halves are in memory and nowhere else.            *)
Forget ==
  /\ cache' = NoCache /\ fresh' = FALSE /\ mu' = NoOne
  /\ measured' = Unmeasured
  /\ call' = [c \in Callers |-> Resting]
  /\ seen' = {} /\ dropped' = {}
  /\ UNCHANGED offered

------------------------------------------------------------------------------
CallStep(c) ==
  \/ Lock(c) \/ LoadFresh(c) \/ LoadExpired(c)
  \/ ListAnswers(c) \/ ListFails(c) \/ DisksAnswer(c) \/ DisksFail(c)
  \/ \E t \in Classes : Translate(c, t)

Outside == ChangeOffer \/ Expire

Next ==
  \/ \E c \in Callers : (\E want \in Wants : Start(c, want)) \/ CallStep(c) \/ Return(c)
  \/ \E s \in Reports : UpdateFromNode(s.class, s.size)
  \/ Outside \/ Forget

Spec == Init /\ [][Next]_typeVars

------------------------------------------------------------------------------
(* What is recorded for a class is the smallest capacity reported for it    *)
(* since the start, for each resource apart, whatever the order of reports. *)
SmallestSeen ==
  \A t \in Classes, r \in Resources :
    LET values == {s.size[r] : s \in {x \in seen : x.class = t}} \ {0}
    IN  IF values = {} THEN measured[t][r] = 0
        ELSE measured[t][r] \in values /\ \A v \in values : measured[t][r] <= v

(* The classes a call has answered for.                                     *)
Told(c) == {t \in call[c].took.classes \ call[c].todo : call[c].want \in {All, t}}

(* A pod that fits what an answer calls allocatable fits every Node of that *)
(* class that had reported before the call began, though the list was       *)
(* refreshed, the disk lookup failed or the call waited in between. This is *)
(* what the README demands of the published capacity, for Nodes that have   *)
(* reported.                                                                *)
FitsNode(answer, s) ==
  \A r \in Resources :
    s.size[r] # 0 => allocatable(answer)[r] <= allocatable(s.size)[r]

AnswersFitNodes ==
  \A c \in Callers : call[c].pc = "translate" =>
    \A s \in call[c].began :
      s.class \in Told(c) => FitsNode(call[c].answer[s.class], s)

(* Rackspace is only asked while the list has expired, and by one caller:   *)
(* those who wait for the mutex meanwhile take the list it brings.          *)
RefreshOnlyExpired ==
  \A c \in Callers : Fetching(c) => ~fresh /\ mu = c

(* The callers do not stop one another: while one is in load, somebody there *)
(* can go on, for p.mu is free or its holder is at work. This is what a     *)
(* return from the middle of load that left the mutex held would break.     *)
InLoad(x) == x.pc \in {"lock", "load", "list", "disks"}

SomebodyGoesOn ==
  (\E c \in Callers : InLoad(call[c]))
    => \E c \in Callers :
         \/ call[c].pc \in {"load", "list", "disks"} /\ mu = c
         \/ call[c].pc = "lock" /\ mu = NoOne

(* What the callers see of load is one cache without a mutex or requests:   *)
(* each is answered with the list that is cached at one moment of its call, *)
(* or with an error, and only an expired list is replaced. An expired one   *)
(* is as good as none.                                                      *)
Brought(x) == IF x.pc \in {"translate", "lacking"} THEN {x.took} ELSE {}

Shared == INSTANCE SharedCache WITH
  Values <- Cache, KeepStale <- FALSE,
  value <- IF fresh THEN {cache} ELSE {},
  asking <- {c \in Callers : InLoad(call[c])},
  got <- [c \in Callers |-> Brought(call[c])]

ImplementsCache == Shared!Spec

(* A class that is off Rackspace's list by the time the cached one expires  *)
(* is in no answer from then on, unless it comes back: a list that cannot   *)
(* be refreshed is an error and is never served, as a stale feed of prices  *)
(* would be.                                                                *)
Taking(c) == call[c].pc # "translate" /\ call'[c].pc = "translate"

WithdrawnStaysOut ==
  [][\A c \in Callers : Taking(c) => call'[c].todo \intersect dropped = {}]_typeVars
==============================================================================
