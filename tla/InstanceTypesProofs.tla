------------------------- MODULE InstanceTypesProofs -------------------------
(****************************************************************************)
(* InstanceTypes, for every number of callers, every set of classes, all    *)
(* sizes and every list Rackspace may have.                                 *)
(*                                                                          *)
(* The lemmas are about Step, which is Next with any report a Node may      *)
(* make, so that the modules that extend InstanceTypes can cite them.       *)
(****************************************************************************)
EXTENDS InstanceTypes, TLAPS

ProviderStep ==
  \/ \E c \in Callers : (\E want \in Wants : Start(c, want)) \/ CallStep(c) \/ Return(c)
  \/ Outside \/ Forget

AnyReport == \E t \in Classes, size \in Sizes : UpdateFromNode(t, size)

Step == ProviderStep \/ AnyReport \/ UNCHANGED typeVars

LEMMA NextIsStep == [Next]_typeVars => Step
  BY ReportsAssumption DEF Next, Step, ProviderStep, AnyReport, Report

------------------------------------------------------------------------------
(* Sizes.                                                                   *)

LEMMA ShaveType ==
  ASSUME NEW q \in Nat, NEW p \in 0 .. 99
  PROVE  shave(q, p) \in Nat
<1>1. 100 - p \in Nat
  OBVIOUS
<1>2. q * (100 - p) \in Nat
  BY <1>1
<1>3. \A x \in Nat : x \div 100 \in Nat
  OBVIOUS
<1> QED BY <1>2, <1>3 DEF shave

LEMMA CapacityType ==
  ASSUME NEW t \in Classes, NEW disks, NEW m \in Sizes
  PROVE  capacity(t, disks, m) \in Sizes
<1>1. Sold[t].memory \in Nat /\ Sold[t].disk \in Nat
  BY SoldAssumption DEF Sizes, Resources
<1>2. Floor \in Nat /\ DiskPercent \in 0 .. 99
  BY DEF Floor, DiskPercent
<1>3. shave(Sold[t].memory, MemoryPercent) \in Nat
  BY <1>1, PercentAssumption, ShaveType
<1>4. shave(IF t \in disks THEN Sold[t].disk ELSE Floor, DiskPercent) \in Nat
  BY <1>1, <1>2, ShaveType
<1>5. \A r \in Resources : estimate(t, disks)[r] \in Nat
  BY <1>3, <1>4 DEF estimate, Resources
<1>6. \A r \in Resources : m[r] \in Nat
  BY DEF Sizes
<1> QED BY <1>5, <1>6 DEF capacity, Sizes

(* What is left of a capacity grows with it.                                *)
LEMMA AllocatableMonotone ==
  ASSUME NEW a \in Sizes, NEW b \in Sizes, NEW r \in Resources, a[r] <= b[r]
  PROVE  allocatable(a)[r] <= allocatable(b)[r]
<1>1. CASE r = "memory"
  <2>1. a.memory \in Nat /\ b.memory \in Nat /\ a.memory <= b.memory
    BY <1>1 DEF Sizes, Resources
  <2> QED BY <1>1, <2>1 DEF allocatable
<1>2. CASE r = "disk"
  <2>1. a.disk \in Nat /\ b.disk \in Nat /\ a.disk <= b.disk
    BY <1>2 DEF Sizes, Resources
  <2>2. \A x, y \in Nat : x <= y => x - x \div 10 <= y - y \div 10
    OBVIOUS
  <2>3. a.disk - a.disk \div 10 <= b.disk - b.disk \div 10
    BY <2>1, <2>2
  <2> QED BY <1>2, <2>1, <2>3 DEF allocatable
<1> QED BY <1>1, <1>2 DEF Resources

------------------------------------------------------------------------------
(* The values reported for a class, as SmallestSeen reads them.             *)
Values(t, r) == {s.size[r] : s \in {x \in seen : x.class = t}} \ {0}

LEMMA ValuesOf ==
  ASSUME NEW t, NEW r
  PROVE  \A v : v \in Values(t, r) <=> v # 0 /\ \E s \in seen : s.class = t /\ v = s.size[r]
  BY DEF Values

LEMMA ValuesOfNext ==
  ASSUME NEW t, NEW r
  PROVE  \A v : v \in Values(t, r)'
                  <=> v # 0 /\ \E s \in seen' : s.class = t /\ v = s.size[r]
  BY DEF Values

------------------------------------------------------------------------------
(* Types.                                                                   *)

CallType(c) ==
  /\ call[c] \in Call \union {Resting}
  /\ call[c].pc = "translate" => call[c].todo \subseteq call[c].took.classes

LEMMA InCall ==
  ASSUME TypeOK, NEW c \in Callers, call[c].pc # "idle"
  PROVE  call[c] \in Call
  BY DEF TypeOK, Resting

(* What load leaves of a call.                                              *)
LEMMA TookType ==
  ASSUME NEW c \in Callers, call[c] \in Call, NEW list \in Cache
  PROVE  /\ took(c, list) \in Call
         /\ took(c, list).pc \in {"translate", "lacking"}
         /\ took(c, list).took = list /\ took(c, list).began = call[c].began
         /\ took(c, list).want = call[c].want
         /\ took(c, list).todo = IF call[c].want = All THEN list.classes
                                 ELSE {call[c].want} \intersect list.classes
         /\ took(c, list).todo \subseteq list.classes
<1>1. list.classes \in SUBSET Classes
  BY DEF Cache
<1> QED BY <1>1 DEF took, Call

(* The fields of a call that moves on without having loaded a list.         *)
LEMMA MovedType ==
  ASSUME NEW c \in Callers, call[c] \in Call,
         NEW next \in {"lock", "load", "list", "disks", "failed"}
  PROVE  /\ [call[c] EXCEPT !.pc = next] \in Call
         /\ [call[c] EXCEPT !.pc = next].pc = next
         /\ [call[c] EXCEPT !.pc = next].began = call[c].began
         /\ [call[c] EXCEPT !.pc = next].took = call[c].took
         /\ [call[c] EXCEPT !.pc = next].want = call[c].want
  BY DEF Call

(* One caller's call changes.                                               *)
LEMMA OneCall ==
  ASSUME TypeOK, NEW c \in Callers, NEW new, call' = [call EXCEPT ![c] = new]
  PROVE  /\ call'[c] = new
         /\ \A d \in Callers : d # c => call'[d] = call[d]
         /\ new \in Call \union {Resting} => call' \in [Callers -> Call \union {Resting}]
  BY DEF TypeOK

LEMMA CallStepType ==
  ASSUME TypeOK, NEW c \in Callers,
         (\E want \in Wants : Start(c, want)) \/ CallStep(c) \/ Return(c)
  PROVE  TypeOK'
<1>0. call[c].pc # "idle" => call[c] \in Call
  BY InCall
<1>a. ASSUME NEW new, call' = [call EXCEPT ![c] = new], new \in Call \union {Resting},
             new.pc = "translate" => new.todo \subseteq new.took.classes,
             UNCHANGED <<offered, histories>>,
             cache' \in Cache, fresh' \in BOOLEAN, mu' \in Callers \union {NoOne},
             measured' = measured
      PROVE  TypeOK'
  BY <1>a, OneCall DEF TypeOK, histories
<1>1. ASSUME NEW want \in Wants, Start(c, want) PROVE TypeOK'
  <2> DEFINE new == [pc |-> "lock", want |-> want, took |-> NoCache, todo |-> {},
                     answer |-> Unmeasured, began |-> seen]
  <2>1. NoCache \in Cache /\ Unmeasured \in [Classes -> Sizes] /\ seen \in SUBSET Report
    BY DEF NoCache, Cache, Unmeasured, Nothing, Sizes, TypeOK
  <2>2. new \in Call /\ new.pc = "lock"
    BY <2>1, WantsAssumption DEF Call
  <2>3. call' = [call EXCEPT ![c] = new]
    BY <1>1 DEF Start
  <2> HIDE DEF new
  <2> QED BY <1>1, <1>a, <2>2, <2>3 DEF Start, cacheVars, TypeOK
<1>2. CASE Lock(c)
  <2>1. /\ call[c] \in Call /\ mu' = c
        /\ call' = [call EXCEPT ![c] = [call[c] EXCEPT !.pc = "load"]]
    BY <1>0, <1>2 DEF Lock
  <2> QED BY <1>2, <1>a, <2>1, MovedType DEF Lock, TypeOK
<1>3. CASE LoadFresh(c)
  <2>1. call[c] \in Call /\ cache \in Cache
    BY <1>0, <1>3 DEF LoadFresh, TypeOK
  <2> QED BY <1>3, <1>a, <2>1, TookType DEF LoadFresh, TypeOK
<1>4. CASE LoadExpired(c)
  <2>1. /\ call[c] \in Call
        /\ call' = [call EXCEPT ![c] = [call[c] EXCEPT !.pc = "list"]]
    BY <1>0, <1>4 DEF LoadExpired
  <2> QED BY <1>4, <1>a, <2>1, MovedType DEF LoadExpired, cacheVars, TypeOK
<1>5. CASE ListAnswers(c)
  <2> DEFINE new == [call[c] EXCEPT !.pc = "disks", !.took.classes = offered]
  <2>1. call[c] \in Call /\ offered \in SUBSET Classes
    BY <1>0, <1>5, OffersAssumption DEF ListAnswers, TypeOK
  <2>2. [call[c].took EXCEPT !.classes = offered] \in Cache
    BY <2>1 DEF Call, Cache
  <2>3. new = [[call[c] EXCEPT !.pc = "disks"]
                 EXCEPT !.took = [call[c].took EXCEPT !.classes = offered]]
    BY <2>1 DEF Call
  <2>4. new \in Call /\ new.pc = "disks"
    BY <2>1, <2>2, <2>3 DEF Call
  <2>5. call' = [call EXCEPT ![c] = new]
    BY <1>5 DEF ListAnswers
  <2> HIDE DEF new
  <2> QED BY <1>5, <1>a, <2>4, <2>5 DEF ListAnswers, cacheVars, TypeOK
<1>6. CASE ListFails(c)
  <2>1. /\ call[c] \in Call
        /\ call' = [call EXCEPT ![c] = [call[c] EXCEPT !.pc = "failed"]]
    BY <1>0, <1>6 DEF ListFails
  <2> QED BY <1>6, <1>a, <2>1, MovedType DEF ListFails, TypeOK
<1>7. ASSUME NEW disks \in SUBSET Classes, call[c].pc = "disks", Refreshed(c, disks)
      PROVE  TypeOK'
  <2> DEFINE list == [classes |-> call[c].took.classes, disks |-> disks]
  <2>1. call[c] \in Call
    BY <1>0, <1>7
  <2>2. list \in Cache
    BY <2>1 DEF Call, Cache
  <2>3. call' = [call EXCEPT ![c] = took(c, list)] /\ cache' = list
    BY <1>7 DEF Refreshed
  <2> HIDE DEF list
  <2>4. /\ took(c, list) \in Call
        /\ took(c, list).pc = "translate"
             => took(c, list).todo \subseteq took(c, list).took.classes
    BY <2>1, <2>2, TookType
  <2>5. /\ fresh' \in BOOLEAN /\ mu' \in Callers \union {NoOne}
        /\ offered' = offered /\ measured' = measured /\ seen' = seen /\ dropped' = {}
    BY <1>7 DEF Refreshed
  <2> QED BY <2>2, <2>3, <2>4, <2>5, OneCall DEF TypeOK
<1>8. CASE DisksAnswer(c)
  <2>1. {t \in offered : Sold[t].disk # 0} \in SUBSET Classes
    BY OffersAssumption DEF TypeOK
  <2> QED BY <1>7, <1>8, <2>1 DEF DisksAnswer
<1>9. CASE DisksFail(c)
  BY <1>7, <1>9 DEF DisksFail
<1>10. ASSUME NEW t \in Classes, Translate(c, t) PROVE TypeOK'
  <2> DEFINE made == capacity(t, call[c].took.disks, measured[t])
             new == [call[c] EXCEPT !.todo = @ \ {t}, !.answer[t] = made]
  <2>1. call[c] \in Call /\ call[c].pc = "translate"
    BY <1>0, <1>10 DEF Translate
  <2>2. made \in Sizes
    BY CapacityType DEF TypeOK
  <2>3. new = [[call[c] EXCEPT !.todo = @ \ {t}]
                 EXCEPT !.answer = [call[c].answer EXCEPT ![t] = made]]
    BY <2>1 DEF Call
  <2>4. call' = [call EXCEPT ![c] = new]
    BY <1>10 DEF Translate
  <2> HIDE DEF made
  <2>5. /\ new \in Call /\ new.took = call[c].took /\ new.todo = call[c].todo \ {t}
    BY <2>1, <2>2, <2>3 DEF Call
  <2>6. new.todo \subseteq new.took.classes
    BY <2>1, <2>5 DEF TypeOK
  <2> HIDE DEF new
  <2> QED BY <1>10, <1>a, <2>4, <2>5, <2>6 DEF Translate, cacheVars, TypeOK
<1>11. CASE Return(c)
  <2>1. call' = [call EXCEPT ![c] = Resting]
    BY <1>11 DEF Return
  <2> QED BY <1>11, <1>a, <2>1 DEF Return, cacheVars, TypeOK, Resting
<1> QED BY <1>1, <1>2, <1>3, <1>4, <1>5, <1>6, <1>8, <1>9, <1>10, <1>11 DEF CallStep

LEMMA ReportType ==
  ASSUME TypeOK, NEW t \in Classes, NEW size \in Sizes, UpdateFromNode(t, size)
  PROVE  TypeOK'
<1>1. \A r \in Resources : size[r] \in Nat /\ measured[t][r] \in Nat
  BY DEF Sizes, TypeOK
<1> DEFINE m == [r \in Resources |->
                  IF size[r] = 0 \/ (measured[t][r] # 0 /\ measured[t][r] <= size[r])
                  THEN measured[t][r] ELSE size[r]]
<1>2. m \in Sizes
  BY <1>1 DEF Sizes
<1>3. measured' = [measured EXCEPT ![t] = m]
  BY DEF UpdateFromNode
<1> HIDE DEF m
<1>4. measured' \in [Classes -> Sizes]
  BY <1>2, <1>3 DEF TypeOK
<1>5. seen' \subseteq Report
  BY DEF UpdateFromNode, Report, TypeOK
<1> QED BY <1>4, <1>5 DEF UpdateFromNode, TypeOK, cacheVars

LEMMA OutsideType ==
  ASSUME TypeOK, Outside \/ Forget \/ UNCHANGED typeVars
  PROVE  TypeOK'
<1>1. CASE Outside
  BY <1>1 DEF Outside, ChangeOffer, Expire, TypeOK, cacheVars
<1>2. CASE Forget
  <2>1. Unmeasured \in [Classes -> Sizes] /\ NoCache \in Cache
    BY DEF Unmeasured, Nothing, Sizes, NoCache, Cache
  <2> QED BY <1>2, <2>1 DEF Forget, TypeOK, Resting
<1>3. CASE UNCHANGED typeVars
  BY <1>3 DEF typeVars, cacheVars, histories, TypeOK
<1> QED BY <1>1, <1>2, <1>3

LEMMA TypeInit == Init => TypeOK
<1>1. Unmeasured \in [Classes -> Sizes] /\ NoCache \in Cache
  BY DEF Unmeasured, Nothing, Sizes, NoCache, Cache
<1>2. ASSUME Init PROVE \A c \in Callers : call[c] = Resting /\ call[c].pc = "idle"
  BY <1>2 DEF Init, Resting
<1>3. ASSUME Init PROVE call \in [Callers -> Call \union {Resting}]
  BY <1>3 DEF Init
<1> QED BY <1>1, <1>2, <1>3 DEF Init, TypeOK

LEMMA TypeStep ==
  ASSUME TypeOK, Step
  PROVE  TypeOK'
  BY CallStepType, ReportType, OutsideType DEF Step, ProviderStep, AnyReport

(* The state keeps its type, and no call translates a class that is not on  *)
(* the list it took.                                                        *)
THEOREM TypeCorrect == Spec => []TypeOK
<1>1. TypeOK /\ [Next]_typeVars => TypeOK'
  BY NextIsStep, TypeStep
<1> QED BY <1>1, TypeInit, PTL DEF Spec

------------------------------------------------------------------------------
(* The list. Who is in load holds the mutex, and who asks Rackspace does so *)
(* with the list expired; what was off Rackspace's list when it expired, and*)
(* since, is not on what Rackspace answers.                                 *)
Loading(c) == call[c].pc \in {"load", "list", "disks"}

FetchInv ==
  /\ \A c \in Callers : Loading(c) <=> mu = c
  /\ \A c \in Callers : Fetching(c) => ~fresh
  /\ fresh => dropped = {}
  /\ dropped \intersect offered = {}
  /\ \A c \in Callers :
       call[c].pc = "disks" => call[c].took.classes \intersect dropped = {}

LEMMA FetchCallStep ==
  ASSUME TypeOK, FetchInv, NEW c \in Callers,
         (\E want \in Wants : Start(c, want)) \/ CallStep(c) \/ Return(c)
  PROVE  /\ FetchInv'
         /\ \A d \in Callers : Taking(d) => call'[d].todo \intersect dropped = {}
<1>0. call[c].pc # "idle" => call[c] \in Call
  BY InCall
(* A step outside load, and one that leaves it in a call that has failed.   *)
<1>a. ASSUME NEW new, call' = [call EXCEPT ![c] = new],
             new.pc \notin {"load", "list", "disks"},
             new.pc # "translate" \/ call[c].pc = "translate",
             UNCHANGED <<offered, fresh, dropped>>,
             IF Loading(c) THEN mu' = NoOne ELSE mu' = mu
      PROVE  /\ FetchInv'
             /\ \A d \in Callers : Taking(d) => call'[d].todo \intersect dropped = {}
  <2>1. call'[c] = new /\ \A d \in Callers : d # c => call'[d] = call[d]
    BY <1>a, OneCall
  <2>2. \A d \in Callers : Loading(d)' <=> d # c /\ Loading(d)
    BY <1>a, <2>1 DEF Loading
  <2>5. \A d \in Callers : mu' = d <=> d # c /\ Loading(d)
    BY <1>a, NoOneAssumption DEF FetchInv
  <2>3. \A d \in Callers : ~Taking(d)
    BY <1>a, <2>1 DEF Taking
  <2>4. \A d \in Callers : Fetching(d)' => d # c /\ Fetching(d)
    BY <1>a, <2>1 DEF Fetching
  <2>6. \A d \in Callers :
          call'[d].pc = "disks" => call'[d].took.classes \intersect dropped = {}
    BY <1>a, <2>1 DEF FetchInv
  <2>7. \A d \in Callers : Loading(d)' <=> mu' = d
    BY <2>2, <2>5
  <2> QED BY <1>a, <2>3, <2>4, <2>6, <2>7 DEF FetchInv
(* A step into load or on in it.                                            *)
<1>b. ASSUME NEW new, call' = [call EXCEPT ![c] = new], Loading(c) \/ mu = NoOne,
             new.pc \in {"load", "list", "disks"}, mu' = c,
             new.pc \in {"list", "disks"} => ~fresh,
             new.pc = "disks" => new.took.classes = offered,
             UNCHANGED <<offered, fresh, dropped>>
      PROVE  /\ FetchInv'
             /\ \A d \in Callers : Taking(d) => call'[d].todo \intersect dropped = {}
  <2>1. call'[c] = new /\ \A d \in Callers : d # c => call'[d] = call[d]
    BY <1>b, OneCall
  <2>2. \A d \in Callers : d # c => ~Loading(d)
    BY <1>b, NoOneAssumption DEF FetchInv
  <2>3. \A d \in Callers : d # c => ~Loading(d)'
    BY <2>1, <2>2 DEF Loading
  <2>4. \A d \in Callers : ~Taking(d)
    BY <1>b, <2>1 DEF Taking
  <2> QED BY <1>b, <2>1, <2>3, <2>4 DEF FetchInv, Loading, Fetching
(* The end of load.                                                         *)
<1>c. ASSUME NEW list \in Cache, call' = [call EXCEPT ![c] = took(c, list)],
             call[c] \in Call, Loading(c), mu' = NoOne, offered' = offered,
             list.classes \intersect dropped = {},
             \/ fresh' = fresh /\ dropped' = dropped
             \/ fresh' = TRUE /\ dropped' = {}
      PROVE  /\ FetchInv'
             /\ \A d \in Callers : Taking(d) => call'[d].todo \intersect dropped = {}
  <2>1. call'[c] = took(c, list) /\ \A d \in Callers : d # c => call'[d] = call[d]
    BY <1>c, OneCall
  <2>2. took(c, list).pc \in {"translate", "lacking"} /\ took(c, list).todo \subseteq list.classes
    BY <1>c, TookType
  <2>3. \A d \in Callers : d # c => ~Loading(d)
    BY <1>c DEF FetchInv
  <2>4. \A d \in Callers : ~Loading(d)'
    BY <2>1, <2>2, <2>3 DEF Loading
  <2>5. \A d \in Callers : Taking(d) => d = c
    BY <2>1 DEF Taking
  <2>6. \A d \in Callers : Taking(d) => call'[d].todo \intersect dropped = {}
    BY <1>c, <2>1, <2>2, <2>5
  <2> QED BY <1>c, <2>4, <2>6, NoOneAssumption DEF FetchInv, Loading, Fetching
<1>1. ASSUME NEW want \in Wants, Start(c, want)
      PROVE  /\ FetchInv'
             /\ \A d \in Callers : Taking(d) => call'[d].todo \intersect dropped = {}
  <2> DEFINE new == [pc |-> "lock", want |-> want, took |-> NoCache, todo |-> {},
                     answer |-> Unmeasured, began |-> seen]
  <2>1. new.pc = "lock" /\ call' = [call EXCEPT ![c] = new]
    BY <1>1 DEF Start
  <2> HIDE DEF new
  <2>2. ~Loading(c) /\ mu' = mu
    BY <1>1 DEF Start, Loading, Resting, cacheVars
  <2> QED BY <1>1, <1>a, <2>1, <2>2 DEF Start, cacheVars, histories
<1>2. CASE Lock(c)
  <2>1. /\ call[c] \in Call /\ mu = NoOne /\ mu' = c
        /\ call' = [call EXCEPT ![c] = [call[c] EXCEPT !.pc = "load"]]
    BY <1>0, <1>2 DEF Lock
  <2> QED BY <1>2, <1>b, <2>1, MovedType DEF Lock, histories
<1>3. CASE LoadFresh(c)
  <2>1. call[c] \in Call /\ cache \in Cache /\ Loading(c) /\ dropped = {}
    BY <1>0, <1>3 DEF LoadFresh, TypeOK, Loading, FetchInv
  <2> QED BY <1>3, <1>c, <2>1 DEF LoadFresh, histories
<1>4. CASE LoadExpired(c)
  <2>1. /\ call[c] \in Call /\ Loading(c) /\ mu = c
        /\ call' = [call EXCEPT ![c] = [call[c] EXCEPT !.pc = "list"]]
    BY <1>0, <1>4 DEF LoadExpired, Loading, FetchInv
  <2> QED BY <1>4, <1>b, <2>1, MovedType DEF LoadExpired, cacheVars, histories
<1>5. CASE ListAnswers(c)
  <2> DEFINE new == [call[c] EXCEPT !.pc = "disks", !.took.classes = offered]
  <2>1. call[c] \in Call /\ Loading(c) /\ mu = c /\ ~fresh
    BY <1>0, <1>5 DEF ListAnswers, Loading, Fetching, FetchInv
  <2>2. new = [[call[c] EXCEPT !.pc = "disks"]
                 EXCEPT !.took = [call[c].took EXCEPT !.classes = offered]]
    BY <2>1 DEF Call
  <2>3. [call[c].took EXCEPT !.classes = offered].classes = offered
    BY <2>1 DEF Call, Cache
  <2>4. new.pc = "disks" /\ new.took.classes = offered
    BY <2>1, <2>2, <2>3 DEF Call
  <2>5. call' = [call EXCEPT ![c] = new]
    BY <1>5 DEF ListAnswers
  <2> HIDE DEF new
  <2> QED BY <1>5, <1>b, <2>1, <2>4, <2>5 DEF ListAnswers, cacheVars, histories
<1>6. CASE ListFails(c)
  <2>1. /\ call[c] \in Call /\ Loading(c)
        /\ call' = [call EXCEPT ![c] = [call[c] EXCEPT !.pc = "failed"]]
    BY <1>0, <1>6 DEF ListFails, Loading
  <2> QED BY <1>6, <1>a, <2>1, MovedType DEF ListFails, histories
<1>7. ASSUME NEW disks \in SUBSET Classes, call[c].pc = "disks", Refreshed(c, disks)
      PROVE  /\ FetchInv'
             /\ \A d \in Callers : Taking(d) => call'[d].todo \intersect dropped = {}
  <2> DEFINE list == [classes |-> call[c].took.classes, disks |-> disks]
  <2>1. call[c] \in Call /\ Loading(c)
    BY <1>0, <1>7 DEF Loading
  <2>2. list \in Cache /\ list.classes \intersect dropped = {}
    BY <1>7, <2>1 DEF Call, Cache, FetchInv
  <2>3. call' = [call EXCEPT ![c] = took(c, list)]
    BY <1>7 DEF Refreshed
  <2> HIDE DEF list
  <2> QED BY <1>7, <1>c, <2>1, <2>2, <2>3 DEF Refreshed
<1>8. CASE DisksAnswer(c)
  <2>1. {t \in offered : Sold[t].disk # 0} \in SUBSET Classes
    BY OffersAssumption DEF TypeOK
  <2> QED BY <1>7, <1>8, <2>1 DEF DisksAnswer
<1>9. CASE DisksFail(c)
  BY <1>7, <1>9 DEF DisksFail
<1>10. ASSUME NEW t \in Classes, Translate(c, t)
       PROVE  /\ FetchInv'
              /\ \A d \in Callers : Taking(d) => call'[d].todo \intersect dropped = {}
  <2> DEFINE made == capacity(t, call[c].took.disks, measured[t])
             new == [call[c] EXCEPT !.todo = @ \ {t}, !.answer[t] = made]
  <2>1. call[c] \in Call /\ call[c].pc = "translate"
    BY <1>0, <1>10 DEF Translate
  <2>2. new = [[call[c] EXCEPT !.todo = @ \ {t}]
                 EXCEPT !.answer = [call[c].answer EXCEPT ![t] = made]]
    BY <2>1 DEF Call
  <2>3. call' = [call EXCEPT ![c] = new]
    BY <1>10 DEF Translate
  <2> HIDE DEF made
  <2>4. new.pc = "translate"
    BY <2>1, <2>2 DEF Call
  <2> HIDE DEF new
  <2>5. ~Loading(c)
    BY <2>1 DEF Loading
  <2> QED BY <1>10, <1>a, <2>1, <2>3, <2>4, <2>5 DEF Translate, cacheVars, histories
<1>11. CASE Return(c)
  <2>1. call' = [call EXCEPT ![c] = Resting]
    BY <1>11 DEF Return
  <2>2. ~Loading(c)
    BY <1>11 DEF Return, Answered, Loading
  <2> QED BY <1>11, <1>a, <2>1, <2>2 DEF Return, cacheVars, histories, Resting
<1> QED BY <1>1, <1>2, <1>3, <1>4, <1>5, <1>6, <1>8, <1>9, <1>10, <1>11 DEF CallStep

LEMMA FetchOutside ==
  ASSUME TypeOK, FetchInv, Outside \/ Forget \/ AnyReport \/ UNCHANGED typeVars
  PROVE  /\ FetchInv'
         /\ \A d \in Callers : Taking(d) => call'[d].todo \intersect dropped = {}
<1>1. CASE ChangeOffer
  BY <1>1 DEF ChangeOffer, cacheVars, FetchInv, Loading, Fetching, Taking
<1>2. CASE Expire
  BY <1>2 DEF Expire, FetchInv, Loading, Fetching, Taking
<1>3. CASE Forget
  <2>1. \A d \in Callers : call'[d].pc = "idle"
    BY <1>3 DEF Forget, Resting
  <2> QED BY <1>3, <2>1, NoOneAssumption DEF Forget, FetchInv, Loading, Fetching, Taking
<1>4. CASE AnyReport
  BY <1>4 DEF AnyReport, UpdateFromNode, cacheVars, FetchInv, Loading, Fetching, Taking
<1>5. CASE UNCHANGED typeVars
  BY <1>5 DEF typeVars, cacheVars, histories, FetchInv, Loading, Fetching, Taking
<1> QED BY <1>1, <1>2, <1>3, <1>4, <1>5 DEF Outside

LEMMA FetchStep ==
  ASSUME TypeOK, FetchInv, Step
  PROVE  /\ FetchInv'
         /\ \A c \in Callers : Taking(c) => call'[c].todo \intersect dropped = {}
  BY FetchCallStep, FetchOutside DEF Step, ProviderStep

LEMMA FetchInit == Init => FetchInv
<1>1. ASSUME Init PROVE \A c \in Callers : call[c].pc = "idle"
  BY <1>1 DEF Init, Resting
<1> QED BY <1>1, NoOneAssumption DEF Init, FetchInv, Loading, Fetching

(* Rackspace is only asked while the list has expired, by the holder of     *)
(* p.mu, however many callers there are.                                    *)
THEOREM FetchesOnlyExpired == Spec => []RefreshOnlyExpired
<1>1. TypeOK /\ FetchInv /\ [Next]_typeVars => (TypeOK /\ FetchInv)'
  BY NextIsStep, TypeStep, FetchStep
<1>2. FetchInv => RefreshOnlyExpired
  BY DEF FetchInv, RefreshOnlyExpired, Fetching, Loading
<1> QED BY <1>1, <1>2, TypeInit, FetchInit, PTL DEF Spec

(* What Rackspace has withdrawn by the time the list expires is in no       *)
(* answer from then on, unless it comes back.                               *)
THEOREM ServesNoWithdrawn == Spec => WithdrawnStaysOut
<1>1. TypeOK /\ FetchInv /\ [Next]_typeVars => (TypeOK /\ FetchInv)'
  BY NextIsStep, TypeStep, FetchStep
<1>2. TypeOK /\ FetchInv /\ [Next]_typeVars
        => [\A c \in Callers : Taking(c) => call'[c].todo \intersect dropped = {}]_typeVars
  BY NextIsStep, FetchStep
<1> QED BY <1>1, <1>2, TypeInit, FetchInit, PTL DEF Spec, WithdrawnStaysOut

(* The mutex is free or its holder is in load: nobody waits for one who has *)
(* gone.                                                                    *)
LEMMA MutexComesBack ==
  ASSUME TypeOK, FetchInv
  PROVE  SomebodyGoesOn
<1> SUFFICES ASSUME NEW c \in Callers, InLoad(call[c])
             PROVE  \E d \in Callers :
                      \/ call[d].pc \in {"load", "list", "disks"} /\ mu = d
                      \/ call[d].pc = "lock" /\ mu = NoOne
  BY DEF SomebodyGoesOn
<1>1. CASE mu = NoOne
  BY <1>1, NoOneAssumption DEF FetchInv, Loading, InLoad
<1>2. CASE mu \in Callers
  BY <1>2 DEF FetchInv, Loading
<1> QED BY <1>1, <1>2 DEF TypeOK

(* Whoever asks for the list and however the requests for it end, somebody  *)
(* can go on.                                                               *)
THEOREM NoDeadlock == Spec => []SomebodyGoesOn
<1>1. TypeOK /\ FetchInv /\ [Next]_typeVars => (TypeOK /\ FetchInv)'
  BY NextIsStep, TypeStep, FetchStep
<1>2. TypeOK /\ FetchInv => SomebodyGoesOn
  BY MutexComesBack
<1> QED BY <1>1, <1>2, TypeInit, FetchInit, PTL DEF Spec

------------------------------------------------------------------------------
(* The cache the callers see.                                               *)
Asking == {c \in Callers : InLoad(call[c])}
Got == [c \in Callers |-> Brought(call[c])]
Cached == IF fresh THEN {cache} ELSE {}

(* What one caller's step changes of it.                                    *)
LEMMA OneSeen ==
  ASSUME TypeOK, NEW c \in Callers, NEW new, call' = [call EXCEPT ![c] = new]
  PROVE  /\ Asking' = IF InLoad(new) THEN Asking \union {c} ELSE Asking \ {c}
         /\ Got' = [Got EXCEPT ![c] = Brought(new)]
<1>1. call'[c] = new /\ \A d \in Callers : d # c => call'[d] = call[d]
  BY OneCall
<1>2. Asking' = IF InLoad(new) THEN Asking \union {c} ELSE Asking \ {c}
  BY <1>1 DEF Asking
<1>3. Got' = [d \in Callers |-> IF d = c THEN Brought(new) ELSE Got[d]]
  <2>1. \A d \in Callers : Brought(call'[d]) = IF d = c THEN Brought(new) ELSE Got[d]
    BY <1>1 DEF Got
  <2> QED BY <2>1, Zenon DEF Got
<1>4. Got' = [Got EXCEPT ![c] = Brought(new)]
  BY <1>3 DEF Got
<1> QED BY <1>2, <1>4

LEMMA Unseen ==
  ASSUME TypeOK, NEW c \in Callers, NEW new, call' = [call EXCEPT ![c] = new],
         InLoad(new) <=> InLoad(call[c]), Brought(new) = Brought(call[c]),
         UNCHANGED <<cache, fresh>>
  PROVE  UNCHANGED Shared!cacheVars
<1>1. Asking' = Asking
  BY OneSeen DEF Asking
<1>2. Got' = [Got EXCEPT ![c] = Got[c]] /\ Got = [d \in Callers |-> Got[d]]
  BY OneSeen DEF Got
<1>3. Got' = Got
  BY <1>2
<1> QED BY <1>1, <1>3 DEF Shared!cacheVars, Asking, Got

(* The end of load, with what is cached by then.                            *)
LEMMA EndOfLoad ==
  ASSUME TypeOK, NEW c \in Callers, NEW new, call' = [call EXCEPT ![c] = new],
         InLoad(call[c]), ~InLoad(new), Brought(new) = Cached'
  PROVE  Shared!Answered(c)
<1>1. Asking' = Asking \ {c} /\ Got' = [Got EXCEPT ![c] = Cached']
  BY OneSeen
<1>2. c \in Asking
  BY DEF Asking
<1> QED BY <1>1, <1>2 DEF Shared!Answered, Asking, Got, Cached

LEMMA TookSeen ==
  ASSUME NEW c \in Callers, call[c] \in Call, NEW list \in Cache
  PROVE  ~InLoad(took(c, list)) /\ Brought(took(c, list)) = {list}
<1> DEFINE new == took(c, list)
<1>1. new.pc \in {"translate", "lacking"} /\ new.took = list
  BY TookType
<1> HIDE DEF new
<1>2. ~InLoad(new) /\ Brought(new) = {list}
  BY <1>1 DEF InLoad, Brought
<1> QED BY <1>2 DEF new

LEMMA CallMaps ==
  ASSUME TypeOK, FetchInv, NEW c \in Callers,
         (\E want \in Wants : Start(c, want)) \/ CallStep(c) \/ Return(c)
  PROVE  Shared!Next \/ UNCHANGED Shared!cacheVars
<1>0. call[c].pc # "idle" => call[c] \in Call
  BY InCall
<1>1. ASSUME NEW want \in Wants, Start(c, want) PROVE Shared!Next
  <2> DEFINE new == [pc |-> "lock", want |-> want, took |-> NoCache, todo |-> {},
                     answer |-> Unmeasured, began |-> seen]
  <2>1. call' = [call EXCEPT ![c] = new] /\ new.pc = "lock"
    BY <1>1 DEF Start
  <2> HIDE DEF new
  <2>2. InLoad(new) /\ Brought(new) = {} /\ ~InLoad(call[c])
    BY <1>1, <2>1 DEF Start, InLoad, Brought, Resting
  <2>3. Shared!Ask(c)
    BY <1>1, <2>1, <2>2, OneSeen DEF Shared!Ask, Asking, Got, Start, cacheVars
  <2> QED BY <2>3 DEF Shared!Next
<1>2. CASE Lock(c) \/ LoadExpired(c)
  <2>1. call[c] \in Call /\ UNCHANGED <<cache, fresh>>
    BY <1>0, <1>2 DEF Lock, LoadExpired, cacheVars
  <2>2. PICK next \in {"load", "list"} :
          call' = [call EXCEPT ![c] = [call[c] EXCEPT !.pc = next]]
    BY <1>2 DEF Lock, LoadExpired
  <2>3. [call[c] EXCEPT !.pc = next].pc = next
    BY <2>1, MovedType
  <2> QED BY <1>2, <2>1, <2>2, <2>3, Unseen DEF Lock, LoadExpired, InLoad, Brought
<1>3. CASE LoadFresh(c)
  <2>1. call[c] \in Call /\ cache \in Cache /\ InLoad(call[c])
    BY <1>0, <1>3 DEF LoadFresh, TypeOK, InLoad
  <2>2. ~InLoad(took(c, cache)) /\ Brought(took(c, cache)) = {cache}
    BY <2>1, TookSeen
  <2>3. /\ call' = [call EXCEPT ![c] = took(c, cache)]
        /\ Cached' = {cache} /\ UNCHANGED <<cache, fresh>>
    BY <1>3 DEF LoadFresh, Cached
  <2>4. Shared!Answer(c)
    BY <2>1, <2>2, <2>3, EndOfLoad DEF Shared!Answer
  <2> QED BY <2>4 DEF Shared!Next
<1>4. CASE ListAnswers(c)
  <2> DEFINE new == [call[c] EXCEPT !.pc = "disks", !.took.classes = offered]
  <2>1. call[c] \in Call
    BY <1>0, <1>4 DEF ListAnswers
  <2>2. new = [[call[c] EXCEPT !.pc = "disks"]
                 EXCEPT !.took = [call[c].took EXCEPT !.classes = offered]]
    BY <2>1 DEF Call
  <2>3. new.pc = "disks"
    BY <2>1, <2>2 DEF Call
  <2>4. call' = [call EXCEPT ![c] = new]
    BY <1>4 DEF ListAnswers
  <2> HIDE DEF new
  <2> QED BY <1>4, <2>3, <2>4, Unseen DEF ListAnswers, cacheVars, InLoad, Brought
<1>5. CASE ListFails(c)
  <2> DEFINE new == [call[c] EXCEPT !.pc = "failed"]
  <2>1. call[c] \in Call /\ InLoad(call[c]) /\ ~fresh
    BY <1>0, <1>5 DEF ListFails, InLoad, FetchInv, Fetching
  <2>2. call' = [call EXCEPT ![c] = new] /\ new.pc = "failed" /\ UNCHANGED <<cache, fresh>>
    BY <1>5, <2>1, MovedType DEF ListFails
  <2> HIDE DEF new
  <2>3. ~InLoad(new) /\ Brought(new) = Cached'
    BY <2>1, <2>2 DEF InLoad, Brought, Cached
  <2>4. Shared!Answer(c)
    BY <2>1, <2>2, <2>3, EndOfLoad DEF Shared!Answer
  <2> QED BY <2>4 DEF Shared!Next
<1>6. ASSUME NEW disks \in SUBSET Classes, call[c].pc = "disks", Refreshed(c, disks)
      PROVE  Shared!Next
  <2> DEFINE list == [classes |-> call[c].took.classes, disks |-> disks]
  <2>1. call[c] \in Call /\ InLoad(call[c]) /\ ~fresh
    BY <1>0, <1>6 DEF InLoad, FetchInv, Fetching
  <2>2. list \in Cache
    BY <2>1 DEF Call, Cache
  <2>3. /\ call' = [call EXCEPT ![c] = took(c, list)]
        /\ cache' = list /\ fresh' = TRUE
    BY <1>6 DEF Refreshed
  <2> HIDE DEF list
  <2>4. ~InLoad(took(c, list)) /\ Brought(took(c, list)) = {list}
    BY <2>1, <2>2, TookSeen
  <2>5. Shared!Answered(c)
    BY <2>1, <2>3, <2>4, EndOfLoad DEF Cached
  <2>6. Shared!Replace(c, list)
    BY <2>1, <2>3, <2>5 DEF Shared!Replace
  <2> QED BY <2>2, <2>6 DEF Shared!Next
<1>7. CASE DisksAnswer(c) \/ DisksFail(c)
  <2>1. {t \in offered : Sold[t].disk # 0} \in SUBSET Classes /\ {} \in SUBSET Classes
    BY OffersAssumption DEF TypeOK
  <2> QED BY <1>6, <1>7, <2>1 DEF DisksAnswer, DisksFail
<1>8. ASSUME NEW t \in Classes, Translate(c, t) PROVE UNCHANGED Shared!cacheVars
  <2> DEFINE made == capacity(t, call[c].took.disks, measured[t])
             new == [call[c] EXCEPT !.todo = @ \ {t}, !.answer[t] = made]
  <2>1. call[c] \in Call /\ call[c].pc = "translate"
    BY <1>0, <1>8 DEF Translate
  <2>2. new = [[call[c] EXCEPT !.todo = @ \ {t}]
                 EXCEPT !.answer = [call[c].answer EXCEPT ![t] = made]]
    BY <2>1 DEF Call
  <2>3. call' = [call EXCEPT ![c] = new]
    BY <1>8 DEF Translate
  <2> HIDE DEF made
  <2>4. new.pc = call[c].pc /\ new.took = call[c].took
    BY <2>1, <2>2 DEF Call
  <2> HIDE DEF new
  <2> QED BY <1>8, <2>3, <2>4, Unseen DEF Translate, cacheVars, InLoad, Brought
<1>9. CASE Return(c)
  <2>1. call' = [call EXCEPT ![c] = Resting] /\ UNCHANGED <<cache, fresh>>
    BY <1>9 DEF Return, cacheVars
  <2>2. ~InLoad(call[c]) /\ ~InLoad(Resting) /\ Brought(Resting) = {}
    BY <1>9 DEF Return, Answered, InLoad, Brought, Resting
  <2>3. c \notin Asking /\ Asking' = Asking /\ Got' = [Got EXCEPT ![c] = {}]
    BY <2>1, <2>2, OneSeen DEF Asking
  <2>4. Shared!Leave(c)
    BY <2>1, <2>3 DEF Shared!Leave, Asking, Got
  <2> QED BY <2>4 DEF Shared!Next
<1> QED BY <1>1, <1>2, <1>3, <1>4, <1>5, <1>7, <1>8, <1>9 DEF CallStep

LEMMA CacheStep ==
  ASSUME TypeOK, FetchInv, Step
  PROVE  Shared!Next \/ UNCHANGED Shared!cacheVars
<1>1. CASE UNCHANGED <<cache, fresh, call>>
  BY <1>1 DEF Shared!cacheVars
<1>2. CASE ChangeOffer \/ AnyReport \/ UNCHANGED typeVars
  BY <1>1, <1>2 DEF ChangeOffer, AnyReport, UpdateFromNode, typeVars, cacheVars
<1>3. CASE Expire
  <2>1. Shared!Expire
    BY <1>3 DEF Expire, Shared!Expire
  <2> QED BY <2>1 DEF Shared!Next
<1>4. CASE Forget
  <2>1. Asking' = {} /\ Got' = [c \in Callers |-> {}]
    BY <1>4 DEF Forget, Asking, Got, InLoad, Brought, Resting
  <2>2. Shared!Forget
    BY <1>4, <2>1 DEF Forget, Shared!Forget, Asking, Got
  <2> QED BY <2>2 DEF Shared!Next
<1> QED BY <1>2, <1>3, <1>4, CallMaps DEF Step, ProviderStep, Outside

LEMMA CacheInit == Init => Shared!Init
<1> SUFFICES ASSUME Init PROVE Shared!Init
  OBVIOUS
<1>1. Asking = {} /\ Got = [c \in Callers |-> {}]
  BY DEF Init, Asking, Got, InLoad, Brought, Resting
<1> QED BY <1>1 DEF Init, Shared!Init, Asking, Got

(* Whatever the mutex, the two requests and their failures do, the callers  *)
(* see one cache whose every answer is what was cached at one moment of the *)
(* call, and which holds nothing that has expired.                          *)
THEOREM CacheImplemented == Spec => ImplementsCache
<1>1. TypeOK /\ FetchInv /\ [Next]_typeVars => (TypeOK /\ FetchInv)'
  BY NextIsStep, TypeStep, FetchStep
<1>2. TypeOK /\ FetchInv /\ [Next]_typeVars => [Shared!Next]_Shared!cacheVars
  BY NextIsStep, CacheStep
<1> QED BY <1>1, <1>2, TypeInit, FetchInit, CacheInit, PTL DEF Spec, ImplementsCache, Shared!Spec

------------------------------------------------------------------------------
(* What is measured.                                                        *)
Smallest(t, r) ==
  IF Values(t, r) = {} THEN measured[t][r] = 0
  ELSE measured[t][r] \in Values(t, r) /\ \A v \in Values(t, r) : measured[t][r] <= v

LEMMA SmallestIs == SmallestSeen <=> \A t \in Classes, r \in Resources : Smallest(t, r)
  BY DEF SmallestSeen, Smallest, Values

LEMMA SmallestReport ==
  ASSUME TypeOK, SmallestSeen,
         NEW t \in Classes, NEW size \in Sizes, UpdateFromNode(t, size)
  PROVE  SmallestSeen'
<1>1. \A r \in Resources : size[r] \in Nat /\ measured[t][r] \in Nat
  BY DEF Sizes, TypeOK
<1>2. ASSUME NEW u \in Classes, NEW r \in Resources
      PROVE  measured'[u][r] = IF u # t \/ size[r] = 0
                                  \/ (measured[t][r] # 0 /\ measured[t][r] <= size[r])
                               THEN measured[u][r] ELSE size[r]
  <2> DEFINE m == [q \in Resources |->
                    IF size[q] = 0 \/ (measured[t][q] # 0 /\ measured[t][q] <= size[q])
                    THEN measured[t][q] ELSE size[q]]
  <2>1. measured' = [measured EXCEPT ![t] = m]
    BY DEF UpdateFromNode
  <2>2. measured'[u] = IF u = t THEN m ELSE measured[u]
    BY <2>1 DEF TypeOK
  <2>3. m[r] = IF size[r] = 0 \/ (measured[t][r] # 0 /\ measured[t][r] <= size[r])
               THEN measured[t][r] ELSE size[r]
    OBVIOUS
  <2> HIDE DEF m
  <2> QED BY <2>2, <2>3
<1>3. ASSUME NEW u \in Classes, NEW r \in Resources
      PROVE  \A v : v \in Values(u, r)'
                      <=> v \in Values(u, r) \/ (u = t /\ v = size[r] /\ v # 0)
  <2> DEFINE new == [class |-> t, size |-> size]
  <2>1. seen' = seen \union {new}
    BY DEF UpdateFromNode
  <2>2. new.class = t /\ new.size = size
    OBVIOUS
  <2> HIDE DEF new
  <2>3. \A v : (\E s \in seen' : s.class = u /\ v = s.size[r])
                 <=> (\E s \in seen : s.class = u /\ v = s.size[r]) \/ (t = u /\ v = size[r])
    BY <2>1, <2>2
  <2>4. \A v : v \in Values(u, r) <=> v # 0 /\ \E s \in seen : s.class = u /\ v = s.size[r]
    BY ValuesOf
  <2>5. \A v : v \in Values(u, r)'
                 <=> v # 0 /\ \E s \in seen' : s.class = u /\ v = s.size[r]
    BY ValuesOfNext
  <2> QED BY <2>3, <2>4, <2>5
<1>4. ASSUME NEW u \in Classes, NEW r \in Resources PROVE Smallest(u, r)'
  <2>1. Smallest(u, r)
    BY SmallestIs
  <2>2. \A v \in Values(u, r) : v \in Nat
    BY ValuesOf DEF TypeOK, Report, Sizes
  <2>3. CASE u # t \/ size[r] = 0
    <3>1. measured'[u][r] = measured[u][r]
      BY <1>2, <2>3
    <3>2. \A v : v \in Values(u, r)' <=> v \in Values(u, r)
      BY <1>3, <2>3
    <3> QED BY <2>1, <3>1, <3>2 DEF Smallest
  <2>4. CASE u = t /\ size[r] # 0 /\ Values(u, r) = {}
    <3>1. measured[u][r] = 0
      BY <2>1, <2>4 DEF Smallest
    <3>2. measured'[u][r] = size[r]
      BY <1>2, <2>4, <3>1
    <3>3. Values(u, r)' = {size[r]}
      BY <1>3, <2>4
    <3> QED BY <1>1, <3>2, <3>3 DEF Smallest
  <2>5. CASE u = t /\ size[r] # 0 /\ Values(u, r) # {}
    <3>1. /\ measured[u][r] \in Values(u, r) /\ measured[u][r] # 0
          /\ \A v \in Values(u, r) : measured[u][r] <= v
      BY <2>1, <2>5, ValuesOf DEF Smallest
    <3>2. measured'[u][r] = IF measured[u][r] <= size[r] THEN measured[u][r] ELSE size[r]
      BY <1>2, <2>5, <3>1
    <3>3. size[r] \in Values(u, r)' /\ measured[u][r] \in Values(u, r)'
      BY <1>3, <2>5, <3>1
    <3>4. ASSUME NEW v \in Values(u, r)' PROVE measured'[u][r] <= v
      <4>1. v = size[r] \/ v \in Values(u, r)
        BY <1>3
      <4> QED BY <1>1, <2>2, <2>5, <3>1, <3>2, <4>1
    <3>5. measured'[u][r] \in Values(u, r)' /\ Values(u, r)' # {}
      BY <3>2, <3>3
    <3> QED BY <3>4, <3>5 DEF Smallest
  <2> QED BY <2>3, <2>4, <2>5
<1>5. (\A u \in Classes, r \in Resources : Smallest(u, r)') => SmallestSeen'
  BY DEF SmallestSeen, Smallest, Values
<1> QED BY <1>4, <1>5

LEMMA SmallestStep ==
  ASSUME TypeOK, SmallestSeen, Step
  PROVE  SmallestSeen'
<1>1. CASE AnyReport
  BY <1>1, SmallestReport DEF AnyReport
<1>2. CASE Forget
  <2>1. seen' = {} /\ measured' = Unmeasured
    BY <1>2 DEF Forget
  <2>2. \A t \in Classes, r \in Resources : measured'[t][r] = 0
    BY <2>1 DEF Unmeasured, Nothing
  <2>3. \A t \in Classes, r \in Resources : Values(t, r)' = {}
    BY <2>1, ValuesOfNext
  <2>4. \A t \in Classes, r \in Resources : Smallest(t, r)'
    BY <2>2, <2>3 DEF Smallest
  <2> QED BY <2>4 DEF SmallestSeen, Smallest, Values
<1>3. CASE measured' = measured /\ seen' = seen
  BY <1>3 DEF SmallestSeen
<1>4. ASSUME NEW c \in Callers,
             (\E want \in Wants : Start(c, want)) \/ CallStep(c) \/ Return(c)
      PROVE  measured' = measured /\ seen' = seen
  BY <1>4 DEF Start, CallStep, Lock, LoadFresh, LoadExpired, ListAnswers, ListFails,
     DisksAnswer, DisksFail, Refreshed, Translate, Return, histories
<1>5. CASE Outside \/ UNCHANGED typeVars
  BY <1>3, <1>5 DEF Outside, ChangeOffer, Expire, typeVars, histories
<1> QED BY <1>1, <1>2, <1>3, <1>4, <1>5 DEF Step, ProviderStep

LEMMA SmallestInit == Init => SmallestSeen
<1> SUFFICES ASSUME Init PROVE SmallestSeen
  OBVIOUS
<1>1. \A t \in Classes, r \in Resources : measured[t][r] = 0
  BY DEF Init, Unmeasured, Nothing
<1>2. \A t \in Classes, r \in Resources : Values(t, r) = {}
  BY ValuesOf DEF Init
<1> QED BY <1>1, <1>2, SmallestIs DEF Smallest

(* What is recorded is the smallest reported, for any Nodes in any order.   *)
THEOREM RecordsSmallest == Spec => []SmallestSeen
<1>1. TypeOK /\ SmallestSeen /\ [Next]_typeVars => (TypeOK /\ SmallestSeen)'
  BY NextIsStep, TypeStep, SmallestStep
<1> QED BY <1>1, TypeInit, SmallestInit, PTL DEF Spec

------------------------------------------------------------------------------
(* Answers. A call only knows reports that have been recorded, and what it  *)
(* has made of a class is no more than any of them.                         *)
Below(c) ==
  \A s \in call[c].began, r \in Resources :
    s.class \in Told(c) /\ s.size[r] # 0 => call[c].answer[s.class][r] <= s.size[r]

AnswerInv ==
  \A c \in Callers : call[c].pc # "idle" =>
    /\ call[c].began \subseteq seen
    /\ call[c].pc = "translate" => Below(c)

LEMMA MeasuredBelow ==
  ASSUME TypeOK, SmallestSeen, NEW s \in seen, NEW r \in Resources, s.size[r] # 0
  PROVE  /\ s.class \in Classes
         /\ measured[s.class][r] # 0 /\ measured[s.class][r] <= s.size[r]
<1>1. s.class \in Classes
  BY DEF TypeOK, Report
<1>2. s.size[r] \in Values(s.class, r)
  BY ValuesOf
<1>3. Smallest(s.class, r)
  BY <1>1, SmallestIs
<1>4. measured[s.class][r] \in Values(s.class, r) /\ measured[s.class][r] <= s.size[r]
  BY <1>2, <1>3 DEF Smallest
<1> QED BY <1>1, <1>4, ValuesOf

LEMMA AnswerCallStep ==
  ASSUME TypeOK, SmallestSeen, AnswerInv, NEW c \in Callers,
         (\E want \in Wants : Start(c, want)) \/ CallStep(c) \/ Return(c)
  PROVE  AnswerInv'
<1>0. call[c].pc # "idle" => call[c] \in Call
  BY InCall
<1>a. ASSUME NEW new, call' = [call EXCEPT ![c] = new], seen' = seen,
             new.pc # "idle" => new.began \subseteq seen,
             new.pc = "translate" => Below(c)'
      PROVE  AnswerInv'
  <2>1. call'[c] = new /\ \A d \in Callers : d # c => call'[d] = call[d]
    BY <1>a, OneCall
  <2>2. ASSUME NEW d \in Callers, d # c, Below(d) PROVE Below(d)'
    BY <2>1, <2>2 DEF Below, Told
  <2> QED BY <1>a, <2>1, <2>2 DEF AnswerInv
<1>b. ASSUME NEW next \in {"load", "list", "failed"}, call[c] \in Call, seen' = seen,
             call[c].pc # "idle",
             call' = [call EXCEPT ![c] = [call[c] EXCEPT !.pc = next]]
      PROVE  AnswerInv'
  <2> DEFINE new == [call[c] EXCEPT !.pc = next]
  <2>1. new.pc = next /\ new.began = call[c].began
    BY <1>b, MovedType
  <2> HIDE DEF new
  <2>2. new.began \subseteq seen /\ new.pc # "translate"
    BY <1>b, <2>1 DEF AnswerInv
  <2>3. call' = [call EXCEPT ![c] = new]
    BY <1>b DEF new
  <2> QED BY <1>a, <1>b, <2>2, <2>3
<1>c. ASSUME NEW list \in Cache, call[c] \in Call, call[c].pc # "idle", seen' = seen,
             call' = [call EXCEPT ![c] = took(c, list)]
      PROVE  AnswerInv'
  <2>1. /\ took(c, list).took = list /\ took(c, list).began = call[c].began
        /\ took(c, list).want = call[c].want
        /\ took(c, list).todo = IF call[c].want = All THEN list.classes
                                ELSE {call[c].want} \intersect list.classes
    BY <1>c, TookType
  <2>2. call'[c] = took(c, list)
    BY <1>c, OneCall
  <2>3. \A t \in list.classes \ took(c, list).todo : took(c, list).want \notin {All, t}
    BY <2>1
  <2>4. Told(c)' = {}
    BY <2>1, <2>2, <2>3 DEF Told
  <2>5. Below(c)'
    BY <2>4 DEF Below
  <2>6. call[c].began \subseteq seen
    BY <1>c DEF AnswerInv
  <2> QED BY <1>a, <1>c, <2>1, <2>5, <2>6
<1>1. ASSUME NEW want \in Wants, Start(c, want) PROVE AnswerInv'
  <2> DEFINE new == [pc |-> "lock", want |-> want, took |-> NoCache, todo |-> {},
                     answer |-> Unmeasured, began |-> seen]
  <2>1. new.pc = "lock" /\ new.began = seen /\ call' = [call EXCEPT ![c] = new]
    BY <1>1 DEF Start
  <2> HIDE DEF new
  <2> QED BY <1>1, <1>a, <2>1 DEF Start, histories
<1>2. CASE Lock(c) \/ LoadExpired(c) \/ ListFails(c)
  <2>1. call[c] \in Call /\ call[c].pc # "idle" /\ seen' = seen
    BY <1>0, <1>2 DEF Lock, LoadExpired, ListFails, histories
  <2>2. \E next \in {"load", "list", "failed"} :
          call' = [call EXCEPT ![c] = [call[c] EXCEPT !.pc = next]]
    BY <1>2 DEF Lock, LoadExpired, ListFails
  <2> QED BY <1>b, <2>1, <2>2
<1>3. CASE LoadFresh(c)
  <2>1. call[c] \in Call /\ cache \in Cache /\ call[c].pc # "idle"
    BY <1>0, <1>3 DEF LoadFresh, TypeOK
  <2> QED BY <1>3, <1>c, <2>1 DEF LoadFresh, histories
<1>4. CASE ListAnswers(c)
  <2> DEFINE new == [call[c] EXCEPT !.pc = "disks", !.took.classes = offered]
  <2>1. call[c] \in Call /\ call[c].pc # "idle"
    BY <1>0, <1>4 DEF ListAnswers
  <2>2. new = [[call[c] EXCEPT !.pc = "disks"]
                 EXCEPT !.took = [call[c].took EXCEPT !.classes = offered]]
    BY <2>1 DEF Call
  <2>3. new.pc = "disks" /\ new.began = call[c].began
    BY <2>1, <2>2 DEF Call
  <2>4. call' = [call EXCEPT ![c] = new]
    BY <1>4 DEF ListAnswers
  <2> HIDE DEF new
  <2>5. new.began \subseteq seen
    BY <2>1, <2>3 DEF AnswerInv
  <2> QED BY <1>4, <1>a, <2>3, <2>4, <2>5 DEF ListAnswers, histories
<1>5. ASSUME NEW disks \in SUBSET Classes, call[c].pc = "disks", Refreshed(c, disks)
      PROVE  AnswerInv'
  <2> DEFINE list == [classes |-> call[c].took.classes, disks |-> disks]
  <2>1. call[c] \in Call
    BY <1>0, <1>5
  <2>2. list \in Cache
    BY <2>1 DEF Call, Cache
  <2>3. call' = [call EXCEPT ![c] = took(c, list)] /\ seen' = seen
    BY <1>5 DEF Refreshed
  <2> HIDE DEF list
  <2> QED BY <1>5, <1>c, <2>1, <2>2, <2>3
<1>6. CASE DisksAnswer(c) \/ DisksFail(c)
  <2>1. {t \in offered : Sold[t].disk # 0} \in SUBSET Classes /\ {} \in SUBSET Classes
    BY OffersAssumption DEF TypeOK
  <2> QED BY <1>5, <1>6, <2>1 DEF DisksAnswer, DisksFail
<1>7. ASSUME NEW t \in Classes, Translate(c, t) PROVE AnswerInv'
  <2> DEFINE made == capacity(t, call[c].took.disks, measured[t])
             new == [call[c] EXCEPT !.todo = @ \ {t}, !.answer[t] = made]
  <2>1. /\ call[c] \in Call /\ call[c].pc = "translate" /\ t \in call[c].todo
        /\ seen' = seen
    BY <1>0, <1>7 DEF Translate, histories
  <2>2. new = [[call[c] EXCEPT !.todo = @ \ {t}]
                 EXCEPT !.answer = [call[c].answer EXCEPT ![t] = made]]
    BY <2>1 DEF Call
  <2>3. call' = [call EXCEPT ![c] = new]
    BY <1>7 DEF Translate
  <2>4. ASSUME NEW s \in call[c].began, s.class = t, NEW r \in Resources, s.size[r] # 0
        PROVE  made[r] <= s.size[r]
    <3>1. s \in seen
      BY <2>1 DEF AnswerInv
    <3>2. measured[t][r] # 0 /\ measured[t][r] <= s.size[r]
      BY <2>4, <3>1, MeasuredBelow
    <3> QED BY <3>2 DEF capacity
  <2> HIDE DEF made
  <2>5. /\ new.took = call[c].took /\ new.todo = call[c].todo \ {t}
        /\ new.began = call[c].began /\ new.want = call[c].want
        /\ new.answer[t] = made
        /\ \A u \in Classes : u # t => new.answer[u] = call[c].answer[u]
    BY <2>1, <2>2 DEF Call
  <2> HIDE DEF new
  <2>6. call'[c] = new
    BY <2>3, OneCall
  <2>7. Below(c) /\ call[c].began \subseteq seen
    BY <2>1 DEF AnswerInv
  <2>8. ASSUME NEW s \in call[c].began, NEW r \in Resources,
               s.class \in Told(c)', s.size[r] # 0
        PROVE  new.answer[s.class][r] <= s.size[r]
    <3>1. CASE s.class = t
      BY <2>4, <2>5, <2>8, <3>1
    <3>2. CASE s.class # t
      <4>1. s.class \in Told(c)
        BY <2>5, <2>6, <2>8, <3>2 DEF Told
      <4>2. s.class \in Classes
        BY <2>7 DEF TypeOK, Report
      <4> QED BY <2>5, <2>7, <2>8, <3>2, <4>1, <4>2 DEF Below
    <3> QED BY <3>1, <3>2
  <2>9. Below(c)'
    BY <2>5, <2>6, <2>8 DEF Below
  <2> QED BY <1>a, <2>1, <2>3, <2>5, <2>7, <2>9
<1>8. CASE Return(c)
  <2>1. call' = [call EXCEPT ![c] = Resting] /\ seen' = seen
    BY <1>8 DEF Return, histories
  <2> QED BY <1>a, <2>1 DEF Resting
<1> QED BY <1>1, <1>2, <1>3, <1>4, <1>6, <1>7, <1>8 DEF CallStep

LEMMA AnswerStep ==
  ASSUME TypeOK, SmallestSeen, AnswerInv, Step
  PROVE  AnswerInv'
<1>1. CASE Forget
  <2>1. \A d \in Callers : call'[d].pc = "idle"
    BY <1>1 DEF Forget, Resting
  <2> QED BY <2>1 DEF AnswerInv
<1>2. CASE AnyReport \/ Outside \/ UNCHANGED typeVars
  <2>1. call' = call /\ seen \subseteq seen'
    BY <1>2 DEF AnyReport, UpdateFromNode, Outside, ChangeOffer, Expire, typeVars, histories
  <2> QED BY <2>1 DEF AnswerInv, Below, Told
<1> QED BY <1>1, <1>2, AnswerCallStep DEF Step, ProviderStep

LEMMA AnswerInit == Init => AnswerInv
<1>1. ASSUME Init PROVE \A c \in Callers : call[c].pc = "idle"
  BY <1>1 DEF Init, Resting
<1> QED BY <1>1 DEF AnswerInv

LEMMA BelowFits ==
  ASSUME TypeOK, AnswerInv
  PROVE  AnswersFitNodes
<1> SUFFICES ASSUME NEW c \in Callers, call[c].pc = "translate",
                    NEW s \in call[c].began, s.class \in Told(c),
                    NEW r \in Resources, s.size[r] # 0
             PROVE  allocatable(call[c].answer[s.class])[r] <= allocatable(s.size)[r]
  BY DEF AnswersFitNodes, FitsNode
<1>1. call[c] \in Call
  BY InCall
<1>2. s.class \in Classes /\ s.size \in Sizes
  BY <1>1 DEF Call, Report
<1>3. call[c].answer[s.class] \in Sizes
  BY <1>1, <1>2 DEF Call
<1>4. call[c].answer[s.class][r] <= s.size[r]
  BY DEF AnswerInv, Below
<1> QED BY <1>2, <1>3, <1>4, AllocatableMonotone

ProviderInv == TypeOK /\ FetchInv /\ SmallestSeen /\ AnswerInv

LEMMA ProviderInit == Init => ProviderInv
  BY TypeInit, FetchInit, SmallestInit, AnswerInit DEF ProviderInv

LEMMA ProviderNext ==
  ASSUME ProviderInv, Step
  PROVE  ProviderInv'
  BY TypeStep, FetchStep, SmallestStep, AnswerStep DEF ProviderInv

LEMMA ProviderSafe ==
  ASSUME ProviderInv
  PROVE  /\ TypeOK /\ RefreshOnlyExpired /\ SomebodyGoesOn
         /\ SmallestSeen /\ AnswersFitNodes
  BY BelowFits, MutexComesBack DEF ProviderInv, FetchInv, RefreshOnlyExpired, Fetching, Loading

(* What an answer calls allocatable fits every Node that had reported when  *)
(* the call began, for all sizes, any number of Nodes and callers, and in   *)
(* whichever order refreshes and reports interleave.                        *)
THEOREM AnswersAlwaysFit == Spec => []AnswersFitNodes
<1>1. ProviderInv /\ [Next]_typeVars => ProviderInv'
  BY NextIsStep, ProviderNext
<1>2. ProviderInv => AnswersFitNodes
  BY ProviderSafe
<1> QED BY <1>1, <1>2, ProviderInit, PTL DEF Spec
==============================================================================
