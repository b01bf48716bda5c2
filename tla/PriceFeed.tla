------------------------------ MODULE PriceFeed ------------------------------
(****************************************************************************)
(* The cache of Rackspace's price feed: DefaultProvider.load, fetchLive and *)
(* loadEmbedded (src/pkg/providers/pricing/pricing.go), called by           *)
(* Percentiles for every spot bid.                                          *)
(*                                                                          *)
(* A feed is known by its version: the snapshot built into the program is   *)
(* version 0, what S3 publishes comes after it. Time is reduced to whether  *)
(* the cached feed is within refreshAfter, which may end at any moment. The *)
(* mutex is Go's RWMutex: a writer that waits keeps new readers out.        *)
(****************************************************************************)
EXTENDS Integers

CONSTANTS
  Callers,     \* the goroutines that ask for percentiles
  MaxVersion,  \* bound on the versions published
  NoOne        \* the writer when there is none

ASSUME CallersAssumption == NoOne \notin Callers
ASSUME VersionAssumption == MaxVersion \in Nat \ {0}

VARIABLES
  readable,   \* whether the snapshot parses, settled when the program is built
  published,  \* the version S3 has
  cached,     \* the version in p.cached, None at first
  fresh,      \* cachedAt is less than refreshAfter ago
  readers,    \* who holds p.mu for reading
  writer,     \* who holds it for writing
  pc,         \* where each call of load is
  began,      \* what was cached when the call began
  answer      \* what the last call returned, None for an error

vars == <<readable, published, cached, fresh, readers, writer, pc, began, answer>>

None == -1
Embedded == 0

Versions == None .. MaxVersion

TypeOK ==
  /\ readable \in BOOLEAN
  /\ published \in 1 .. MaxVersion
  /\ cached \in Versions /\ fresh \in BOOLEAN
  /\ fresh => cached # None
  /\ readers \subseteq Callers /\ writer \in Callers \union {NoOne}
  /\ pc \in [Callers -> {"idle", "call", "check", "waiting", "recheck", "fetch"}]
  /\ began \in [Callers -> Versions]
  /\ answer \in [Callers -> Versions]

Init ==
  /\ readable \in BOOLEAN
  /\ published = 1
  /\ cached = None /\ fresh = FALSE
  /\ readers = {} /\ writer = NoOne
  /\ pc = [c \in Callers |-> "idle"]
  /\ began = [c \in Callers |-> None]
  /\ answer = [c \in Callers |-> None]

------------------------------------------------------------------------------
Goto(c, l) == pc' = [pc EXCEPT ![c] = l]

Return(c, v) == answer' = [answer EXCEPT ![c] = v] /\ Goto(c, "idle")

Call(c) ==
  /\ pc[c] = "idle" /\ Goto(c, "call")
  /\ began' = [began EXCEPT ![c] = cached]
  /\ UNCHANGED <<readable, published, cached, fresh, readers, writer, answer>>

RLock(c) ==
  /\ pc[c] = "call" /\ writer = NoOne
  /\ \A d \in Callers : pc[d] # "waiting"
  /\ readers' = readers \union {c} /\ Goto(c, "check")
  /\ UNCHANGED <<readable, published, cached, fresh, writer, began, answer>>

ReadFresh(c) ==
  /\ pc[c] = "check" /\ fresh
  /\ readers' = readers \ {c} /\ Return(c, cached)
  /\ UNCHANGED <<readable, published, cached, fresh, writer, began>>

(* A lock that is turned from reading to writing.                           *)
ReadStaleHolding(c) ==
  /\ pc[c] = "check" /\ ~fresh
  /\ Goto(c, "waiting")
  /\ UNCHANGED <<readable, published, cached, fresh, readers, writer, began, answer>>

(* The read lock is given back before the write lock is asked for.          *)
ReadStale(c) ==
  /\ pc[c] = "check" /\ ~fresh
  /\ readers' = readers \ {c} /\ Goto(c, "waiting")
  /\ UNCHANGED <<readable, published, cached, fresh, writer, began, answer>>

Lock(c) ==
  /\ pc[c] = "waiting" /\ writer = NoOne /\ readers = {}
  /\ writer' = c /\ Goto(c, "recheck")
  /\ UNCHANGED <<readable, published, cached, fresh, readers, began, answer>>

(* Somebody else has refreshed the cache while this call waited.            *)
RecheckFresh(c) ==
  /\ pc[c] = "recheck" /\ fresh
  /\ writer' = NoOne /\ Return(c, cached)
  /\ UNCHANGED <<readable, published, cached, fresh, readers, began>>

(* The cache is not looked at again under the write lock.                   *)
RecheckNothing(c) ==
  /\ pc[c] = "recheck" /\ Goto(c, "fetch")
  /\ UNCHANGED <<readable, published, cached, fresh, readers, writer, began, answer>>

RecheckStale(c) ==
  /\ pc[c] = "recheck" /\ ~fresh
  /\ Goto(c, "fetch")
  /\ UNCHANGED <<readable, published, cached, fresh, readers, writer, began, answer>>

FetchLive(c) ==
  /\ pc[c] = "fetch"
  /\ cached' = published /\ fresh' = TRUE
  /\ writer' = NoOne /\ Return(c, published)
  /\ UNCHANGED <<readable, published, readers, began>>

(* What the comment on load says of any HTTP failure.                       *)
FetchFailsToEmbedded(c) ==
  /\ pc[c] = "fetch"
  /\ cached' = Embedded /\ fresh' = TRUE /\ Return(c, Embedded)
  /\ writer' = NoOne
  /\ UNCHANGED <<readable, published, readers, began>>

(* A load that tries again until there is an answer.                        *)
FetchFailsRetries(c) ==
  /\ pc[c] = "fetch" /\ Goto(c, "recheck")
  /\ UNCHANGED <<readable, published, cached, fresh, readers, writer, began, answer>>

(* A stale feed is served, and stays stale; only without one the snapshot   *)
(* is taken, and counts as fresh. If it does not parse load returns an      *)
(* error.                                                                   *)
FetchFails(c) ==
  /\ pc[c] = "fetch"
  /\ \/ cached # None /\ UNCHANGED <<cached, fresh>>
     \/ cached = None /\ readable /\ cached' = Embedded /\ fresh' = TRUE
     \/ cached = None /\ ~readable /\ UNCHANGED <<cached, fresh>>
  /\ Return(c, cached')
  /\ writer' = NoOne
  /\ UNCHANGED <<readable, published, readers, began>>

Publish ==
  /\ published < MaxVersion
  /\ published' = published + 1
  /\ UNCHANGED <<readable, cached, fresh, readers, writer, pc, began, answer>>

Expire ==
  /\ fresh /\ fresh' = FALSE
  /\ UNCHANGED <<readable, published, cached, readers, writer, pc, began, answer>>

------------------------------------------------------------------------------
LoadStep(c) ==
  \/ RLock(c) \/ ReadFresh(c) \/ ReadStale(c) \/ Lock(c) \/ RecheckFresh(c)
  \/ RecheckStale(c) \/ FetchLive(c) \/ FetchFails(c)

Next == Publish \/ Expire \/ \E c \in Callers : Call(c) \/ LoadStep(c)

Spec == Init /\ [][Next]_vars

(* A call goes on: the HTTP client gives up after ten seconds, and Go wakes *)
(* everyone who waits for the mutex in turn, so that a lock that is free    *)
(* again and again is got in the end.                                       *)
FairSpec ==
  Spec /\ \A c \in Callers :
            WF_vars(LoadStep(c)) /\ SF_vars(RLock(c)) /\ SF_vars(Lock(c))

------------------------------------------------------------------------------
(* The feed is fetched only while what is cached is stale: of the callers   *)
(* that find it stale at once, one fetches and the others take what it got. *)
FetchOnlyWhenStale == \A c \in Callers : pc[c] = "fetch" => ~fresh

(* The cache never goes back to an older feed, nor from a live one to the   *)
(* snapshot, whatever fails.                                                *)
NeverOlder == [][cached' >= cached]_vars

(* A call never returns a feed older than the one cached when it began, and *)
(* no error when there was one.                                             *)
AnswerNotOlder ==
  \A c \in Callers : pc[c] = "idle" => answer[c] >= began[c]

(* The calls do not stop one another: while there is one, somebody is at a  *)
(* step that needs no lock, or the lock he waits for is free. This is what  *)
(* a read lock that is kept for writing would break.                        *)
WaitsForNobody(c) ==
  \/ pc[c] \in {"check", "recheck", "fetch"}
  \/ pc[c] = "waiting" /\ writer = NoOne /\ readers = {}
  \/ pc[c] = "call" /\ writer = NoOne /\ \A d \in Callers : pc[d] # "waiting"

SomebodyGoesOn ==
  (\E c \in Callers : pc[c] # "idle") => \E c \in Callers : WaitsForNobody(c)

(* What the callers see of all this is one cache without locks: each is     *)
(* answered with what is cached at one moment of its call, and only a feed  *)
(* that is stale is replaced. A stale one is kept.                          *)
C == INSTANCE SharedCache WITH
  Values <- Embedded .. MaxVersion, KeepStale <- TRUE,
  value <- IF cached = None THEN {} ELSE {cached},
  asking <- {c \in Callers : pc[c] # "idle"},
  got <- [c \in Callers |->
           IF pc[c] # "idle" \/ answer[c] = None THEN {} ELSE {answer[c]}]

ImplementsCache == C!Spec

(* Every call returns.                                                      *)
CallReturns == \A c \in Callers : pc[c] # "idle" ~> pc[c] = "idle"
==============================================================================
