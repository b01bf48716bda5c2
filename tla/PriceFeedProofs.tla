--------------------------- MODULE PriceFeedProofs ---------------------------
(****************************************************************************)
(* PriceFeed, for any number of callers and of versions.                    *)
(****************************************************************************)
EXTENDS PriceFeed, TLAPS

(* The mutex is held by those who are in its sections, for writing by one.  *)
Mutex ==
  \A c \in Callers :
    /\ (writer = c) <=> pc[c] \in {"recheck", "fetch"}
    /\ (c \in readers) <=> pc[c] = "check"

(* No version is newer than what is published, and none that a call returns *)
(* or has seen is newer than the cached one or older than it should be.     *)
Ordered ==
  /\ cached <= published
  /\ \A c \in Callers :
       /\ began[c] <= cached
       /\ pc[c] = "idle" => answer[c] >= began[c]

IInv == TypeOK /\ Mutex /\ FetchOnlyWhenStale /\ Ordered

------------------------------------------------------------------------------
LEMMA Constants ==
  /\ MaxVersion \in Nat \ {0}
  /\ Versions \subseteq Int
  /\ Embedded \in Versions /\ None \in Versions
  /\ \A v \in Versions : v # None => v >= Embedded
  /\ \A v \in 1 .. MaxVersion : v \in Versions /\ v # None /\ v >= Embedded
  BY VersionAssumption DEF Versions, Embedded, None

LEMMA IInvInit == Init => IInv
<1> SUFFICES ASSUME Init PROVE IInv
  OBVIOUS
<1> USE DEF Init
<1>1. published \in 1 .. MaxVersion
  BY VersionAssumption
<1>2. pc \in [Callers -> {"idle", "call", "check", "waiting", "recheck", "fetch"}]
  BY Zenon
<1>3. began \in [Callers -> Versions] /\ answer \in [Callers -> Versions]
  BY Constants
<1>4. TypeOK
  BY <1>1, <1>2, <1>3, Constants DEF TypeOK
<1>5. Mutex
  BY CallersAssumption DEF Mutex
<1>6. Ordered
  BY DEF Ordered, None
<1> QED BY <1>4, <1>5, <1>6 DEF IInv, FetchOnlyWhenStale

(* The end of a fetch, whatever it got: nobody else is fetching, so the      *)
(* cache may become fresh, and what is cached is what is returned.          *)
LEMMA Answering ==
  ASSUME IInv, NEW c \in Callers, pc[c] = "fetch",
         cached' \in Versions, cached' >= cached, cached' <= published,
         fresh' \in BOOLEAN, fresh' => cached' # None,
         Return(c, cached'), writer' = NoOne,
         UNCHANGED <<readable, published, readers, began>>
  PROVE  IInv'
<1> USE DEF IInv, TypeOK, Mutex, FetchOnlyWhenStale, Ordered, Return, Goto
<1>1. \A d \in Callers \ {c} : pc[d] \notin {"recheck", "fetch"}
  OBVIOUS
<1>2. pc'[c] = "idle" /\ \A d \in Callers \ {c} : pc'[d] = pc[d]
  OBVIOUS
<1>3. answer'[c] = cached' /\ \A d \in Callers \ {c} : answer'[d] = answer[d]
  OBVIOUS
<1>4. TypeOK'
  OBVIOUS
<1>5. Mutex'
  BY <1>1, <1>2, CallersAssumption
<1>6. FetchOnlyWhenStale'
  BY <1>1, <1>2
<1>7. Ordered'
  <2>1. \A d \in Callers : began[d] \in Int /\ answer[d] \in Int
    BY Constants
  <2>2. cached \in Int /\ cached' \in Int /\ published \in Int
    BY Constants
  <2> QED BY <1>2, <1>3, <2>1, <2>2
<1> QED BY <1>4, <1>5, <1>6, <1>7

LEMMA IInvNext == IInv /\ [Next]_vars => IInv'
<1> SUFFICES ASSUME IInv, [Next]_vars PROVE IInv'
  OBVIOUS
<1> USE DEF IInv, TypeOK, Mutex, FetchOnlyWhenStale, Ordered
<1>1. ASSUME NEW c \in Callers, Call(c) PROVE IInv'
  BY <1>1, CallersAssumption, Constants DEF Call, Goto
<1>2. ASSUME NEW c \in Callers, RLock(c) PROVE IInv'
  BY <1>2, CallersAssumption, Constants DEF RLock, Goto
<1>3. ASSUME NEW c \in Callers, ReadFresh(c) PROVE IInv'
  BY <1>3, CallersAssumption, Constants DEF ReadFresh, Return, Goto
<1>4. ASSUME NEW c \in Callers, ReadStale(c) PROVE IInv'
  BY <1>4, CallersAssumption, Constants DEF ReadStale, Goto
<1>5. ASSUME NEW c \in Callers, Lock(c) PROVE IInv'
  BY <1>5, CallersAssumption, Constants DEF Lock, Goto
<1>6. ASSUME NEW c \in Callers, RecheckFresh(c) PROVE IInv'
  BY <1>6, CallersAssumption, Constants DEF RecheckFresh, Return, Goto
<1>7. ASSUME NEW c \in Callers, RecheckStale(c) PROVE IInv'
  BY <1>7, CallersAssumption, Constants DEF RecheckStale, Goto
<1>8. ASSUME NEW c \in Callers, FetchLive(c) PROVE IInv'
  <2>1. published \in Versions /\ published # None /\ published >= cached
    BY Constants
  <2> QED BY <1>8, <2>1, Answering DEF FetchLive
<1>9. ASSUME NEW c \in Callers, FetchFails(c) PROVE IInv'
  <2>1. cached' \in Versions /\ cached' >= cached /\ cached' <= published
    BY <1>9, Constants DEF FetchFails, None, Embedded
  <2>2. CASE UNCHANGED <<cached, fresh>>
    BY <1>9, <2>1, <2>2, Answering DEF FetchFails
  <2>3. CASE cached' = Embedded /\ fresh' = TRUE
    <3>1. cached' # None
      BY <2>3 DEF Embedded, None
    <3> QED BY <1>9, <2>1, <2>3, <3>1, Answering DEF FetchFails
  <2> QED BY <1>9, <2>2, <2>3 DEF FetchFails
<1>10. CASE Publish
  BY <1>10, Constants DEF Publish
<1>11. CASE Expire
  BY <1>11 DEF Expire
<1>12. CASE UNCHANGED vars
  BY <1>12 DEF vars
<1> QED
  BY <1>1, <1>2, <1>3, <1>4, <1>5, <1>6, <1>7, <1>8, <1>9, <1>10, <1>11, <1>12
     DEF Next, LoadStep

(* The mutex is respected and no version is out of order, at every step.    *)
THEOREM Inductive == Spec => []IInv
  BY IInvInit, IInvNext, PTL DEF Spec

------------------------------------------------------------------------------
(* Variables keep their types, and what counts as fresh is there.           *)
THEOREM TypeCorrect == Spec => []TypeOK
<1>1. IInv => TypeOK
  BY DEF IInv
<1> QED BY <1>1, Inductive, PTL

(* No fetch while the cache is fresh, however many callers find it stale.   *)
THEOREM OneFetch == Spec => []FetchOnlyWhenStale
<1>1. IInv => FetchOnlyWhenStale
  BY DEF IInv
<1> QED BY <1>1, Inductive, PTL

(* Whoever calls, somebody can go on: there is no deadlock on the two locks. *)
THEOREM NoDeadlock == Spec => []SomebodyGoesOn
<1>1. IInv => SomebodyGoesOn
  <2> SUFFICES ASSUME IInv, NEW c \in Callers, pc[c] # "idle",
                      \A d \in Callers : pc[d] \notin {"check", "recheck", "fetch"}
               PROVE  \E d \in Callers : WaitsForNobody(d)
    BY DEF SomebodyGoesOn, WaitsForNobody
  <2>1. writer = NoOne /\ readers = {}
    BY DEF IInv, TypeOK, Mutex
  <2>2. \A d \in Callers : pc[d] \in {"idle", "call", "waiting"}
    BY DEF IInv, TypeOK
  <2> QED BY <2>1, <2>2 DEF WaitsForNobody
<1> QED BY <1>1, Inductive, PTL

(* A call returns nothing older than what was cached when it began.         *)
THEOREM AnswersNotOlder == Spec => []AnswerNotOlder
<1>1. IInv => AnswerNotOlder
  BY DEF IInv, Ordered, AnswerNotOlder
<1> QED BY <1>1, Inductive, PTL

(* The cache only moves to newer feeds.                                     *)
THEOREM CacheNeverOlder == Spec => NeverOlder
<1>1. IInv /\ [Next]_vars => [cached' >= cached]_vars
  <2> SUFFICES ASSUME IInv, [Next]_vars PROVE cached' >= cached
    OBVIOUS
  <2>1. ASSUME NEW c \in Callers, FetchLive(c) PROVE cached' >= cached
    BY <2>1 DEF FetchLive, IInv, Ordered
  <2>2. ASSUME NEW c \in Callers, FetchFails(c) PROVE cached' >= cached
    BY <2>2, Constants DEF FetchFails, None, Embedded, IInv, TypeOK
  <2>3. CASE UNCHANGED cached
    BY <2>3, Constants DEF IInv, TypeOK
  <2> QED
    BY <2>1, <2>2, <2>3
       DEF Next, LoadStep, Publish, Expire, Call, RLock, ReadFresh, ReadStale,
           Lock, RecheckFresh, RecheckStale, vars
<1> QED BY <1>1, Inductive, PTL DEF Spec, NeverOlder

------------------------------------------------------------------------------
(* The refinement. A caller that has been answered asks no more.            *)
LEMMA AnswerMaps ==
  ASSUME IInv, NEW c \in Callers, pc[c] # "idle", Return(c, cached'), UNCHANGED began
  PROVE  C!Answered(c)
<1> USE DEF IInv, TypeOK, Return, Goto
<1>1. {d \in Callers : pc'[d] # "idle"} = {d \in Callers : pc[d] # "idle"} \ {c}
  OBVIOUS
<1>2. /\ pc'[c] = "idle" /\ answer'[c] = cached'
      /\ \A d \in Callers \ {c} : pc'[d] = pc[d] /\ answer'[d] = answer[d]
  OBVIOUS
<1> DEFINE G(d) == IF pc[d] # "idle" \/ answer[d] = None THEN {} ELSE {answer[d]}
           H(d) == IF pc'[d] # "idle" \/ answer'[d] = None THEN {} ELSE {answer'[d]}
           V == IF cached' = None THEN {} ELSE {cached'}
<1>3. H(c) = V /\ \A d \in Callers \ {c} : H(d) = G(d)
  BY <1>2
<1> HIDE DEF G, H, V
<1>4. [d \in Callers |-> H(d)] = [[d \in Callers |-> G(d)] EXCEPT ![c] = V]
  BY <1>3
<1> QED BY <1>1, <1>4 DEF C!Answered, G, H, V

(* A step of a call that is neither its first nor its last is not seen.     *)
LEMMA Unseen ==
  ASSUME UNCHANGED <<cached, fresh, answer>>,
         \A d \in Callers : pc'[d] = "idle" <=> pc[d] = "idle"
  PROVE  UNCHANGED C!cacheVars
<1>1. {d \in Callers : pc'[d] # "idle"} = {d \in Callers : pc[d] # "idle"}
  OBVIOUS
<1>2. [d \in Callers |-> IF pc'[d] # "idle" \/ answer'[d] = None THEN {} ELSE {answer'[d]}]
      = [d \in Callers |-> IF pc[d] # "idle" \/ answer[d] = None THEN {} ELSE {answer[d]}]
  OBVIOUS
<1> QED BY <1>1, <1>2 DEF C!cacheVars

LEMMA CallMaps == ASSUME IInv, NEW c \in Callers, Call(c) PROVE C!Ask(c)
<1> USE DEF IInv, TypeOK, Call, Goto
<1>1. {d \in Callers : pc'[d] # "idle"} = {d \in Callers : pc[d] # "idle"} \union {c}
  OBVIOUS
<1>2. [d \in Callers |-> IF pc'[d] # "idle" \/ answer'[d] = None THEN {} ELSE {answer'[d]}]
      = [[d \in Callers |-> IF pc[d] # "idle" \/ answer[d] = None THEN {} ELSE {answer[d]}]
           EXCEPT ![c] = {}]
  OBVIOUS
<1> QED BY <1>1, <1>2 DEF C!Ask

LEMMA StepMaps == IInv /\ [Next]_vars => [C!Next]_C!cacheVars
<1> SUFFICES ASSUME IInv, [Next]_vars PROVE [C!Next]_C!cacheVars
  OBVIOUS
<1>1. ASSUME NEW c \in Callers, Call(c) PROVE C!Next
  BY <1>1, CallMaps DEF C!Next
<1>2. ASSUME NEW c \in Callers,
             RLock(c) \/ ReadStale(c) \/ Lock(c) \/ RecheckStale(c)
      PROVE  UNCHANGED C!cacheVars
  BY <1>2, Unseen
     DEF RLock, ReadStale, Lock, RecheckStale, Goto, IInv, TypeOK
<1>3. ASSUME NEW c \in Callers, ReadFresh(c) \/ RecheckFresh(c) PROVE C!Next
  <2>1. Return(c, cached') /\ pc[c] # "idle" /\ UNCHANGED <<cached, fresh, began>>
    BY <1>3 DEF ReadFresh, RecheckFresh
  <2>2. C!Answer(c)
    BY <2>1, AnswerMaps DEF C!Answer
  <2> QED BY <2>2 DEF C!Next
<1>4. ASSUME NEW c \in Callers, NEW v \in Embedded .. MaxVersion, pc[c] = "fetch",
             cached' = v, fresh' = TRUE, Return(c, cached'), UNCHANGED began
      PROVE  C!Next
  <2>1. ~fresh /\ C!Answered(c)
    BY <1>4, AnswerMaps DEF IInv, FetchOnlyWhenStale
  <2>2. cached' # None
    BY <1>4 DEF Embedded, None
  <2>3. C!Replace(c, v)
    BY <1>4, <2>1, <2>2 DEF C!Replace
  <2> QED BY <2>3 DEF C!Next
<1>5. ASSUME NEW c \in Callers, FetchLive(c) PROVE C!Next
  <2>1. published \in Embedded .. MaxVersion
    BY VersionAssumption DEF IInv, TypeOK, Embedded
  <2> QED BY <1>4, <1>5, <2>1 DEF FetchLive
<1>6. ASSUME NEW c \in Callers, FetchFails(c) PROVE C!Next
  <2>1. CASE UNCHANGED <<cached, fresh>>
    <3>1. C!Answer(c)
      BY <1>6, <2>1, AnswerMaps DEF FetchFails, C!Answer
    <3> QED BY <3>1 DEF C!Next
  <2>2. CASE cached' = Embedded /\ fresh' = TRUE
    <3>1. Embedded \in Embedded .. MaxVersion
      BY VersionAssumption DEF Embedded
    <3> QED BY <1>4, <1>6, <2>2, <3>1 DEF FetchFails
  <2> QED BY <1>6, <2>1, <2>2 DEF FetchFails
<1>7. CASE Publish
  BY <1>7, Unseen DEF Publish
<1>8. CASE Expire
  <2>1. C!Expire
    BY <1>8 DEF Expire, C!Expire
  <2> QED BY <2>1 DEF C!Next
<1>9. CASE UNCHANGED vars
  BY <1>9, Unseen DEF vars
<1> QED
  BY <1>1, <1>2, <1>3, <1>5, <1>6, <1>7, <1>8, <1>9 DEF Next, LoadStep

(* Whatever the two locks and the failures do, the callers see one cache    *)
(* whose every answer is what was cached at one moment of the call.         *)
THEOREM CacheImplemented == Spec => ImplementsCache
<1>1. Init => C!Init
  BY DEF Init, C!Init, None
<1> QED BY <1>1, StepMaps, Inductive, PTL DEF Spec, ImplementsCache, C!Spec
==============================================================================
