--------------------------- MODULE BidLadderProofs ---------------------------
(****************************************************************************)
(* BidLadder, for all prices.                                               *)
(****************************************************************************)
EXTENDS BidLadder, TLAPS

------------------------------------------------------------------------------
(* Arithmetic of the ladder.                                                *)

(* Rounding up to cents gives the fewest that cover b.                      *)
LEMMA Ceiling ==
  ASSUME NEW b \in Nat
  PROVE  /\ CeilCents(b) \in Nat
         /\ \A c \in Nat : c < CeilCents(b) <=> c * Cent < b
  BY DEF CeilCents, Cent

(* A step from a rung leads to a rung, and to the next one.                 *)
LEMMA StepUp ==
  ASSUME NEW c \in Nat, OnLadder(c)
  PROVE  /\ c + bidStepCents(c) \in Nat
         /\ OnLadder(c + bidStepCents(c))
         /\ \A d \in Nat : OnLadder(d) /\ d < c + bidStepCents(c) => d <= c
<1>1. CASE c < 22
  BY <1>1 DEF OnLadder, bidStepCents
<1>2. CASE c >= 22
  BY <1>2 DEF OnLadder, bidStepCents
<1> QED BY <1>1, <1>2

LEMMA Selecting ==
  ASSUME NEW x \in Choices, NEW p \in Percentiles
  PROVE  selectPercentile(x, p) \in Nat
  BY DEF selectPercentile, Percentiles

------------------------------------------------------------------------------
LEMMA TypeInit == Init => TypeOK
  BY DEF Init, TypeOK

LEMMA TypeNext == TypeOK /\ [Next]_vars => TypeOK'
<1> SUFFICES ASSUME TypeOK, [Next]_vars PROVE TypeOK'
  OBVIOUS
<1> USE DEF TypeOK
<1>1. CASE ConsultFeed
  <2>1. selectPercentile(choice, feed) \in Nat /\ market \in Nat
    BY Selecting, FeedsAssumption, PricesAssumption
  <2>2. bid' \in Nat
    BY <1>1, <2>1 DEF ConsultFeed
  <2> QED BY <1>1, <2>2 DEF ConsultFeed, inputs
<1>2. CASE ClampToFloor
  BY <1>2, PricesAssumption DEF ClampToFloor, inputs
<1>3. CASE Climb
  BY <1>3 DEF Climb, bidStepCents, inputs
<1>4. CASE Bid
  BY <1>4 DEF Bid, inputs
<1>5. CASE UNCHANGED vars
  BY <1>5 DEF vars, inputs
<1> QED BY <1>1, <1>2, <1>3, <1>4, <1>5 DEF Next

(* Every variable has its type, and no bid is ever negative.                *)
THEOREM TypeCorrect == Spec => []TypeOK
  BY TypeInit, TypeNext, PTL DEF Spec

------------------------------------------------------------------------------
(* The climb is always on a rung, all the rungs below which are too low,    *)
(* and the price aimed at is what the inputs ask for.                       *)
Climbing ==
  /\ pc \in {"feed", "floor"} => cents = 1
  /\ OnLadder(cents)
  /\ \A c \in Nat : OnLadder(c) /\ c < cents => c * Cent < bid
  /\ pc = "done" => cents * Cent >= bid

Aimed ==
  /\ pc # "feed" =>
       /\ bid >= market * 105
       /\ feedRead => bid >= selectPercentile(choice, feed) * 105
  /\ pc \in {"round", "done"} /\ floorRead => bid >= floor * 100

IInv == TypeOK /\ Climbing /\ Aimed

LEMMA IInvInit == Init => IInv
<1>1. Init => Climbing
  BY DEF Init, Climbing, OnLadder
<1> QED BY <1>1, TypeInit DEF IInv, Init, Aimed

LEMMA ClimbingNext ==
  ASSUME TypeOK, Climbing, [Next]_vars
  PROVE  Climbing'
<1> USE DEF TypeOK
<1>1. CASE ConsultFeed \/ ClampToFloor
  BY <1>1 DEF ConsultFeed, ClampToFloor, Climbing, OnLadder
<1>2. CASE Climb
  <2>1. cents * Cent < bid
    BY <1>2, Ceiling DEF Climb
  <2>2. /\ OnLadder(cents')
        /\ \A d \in Nat : OnLadder(d) /\ d < cents' => d <= cents
    BY <1>2, StepUp DEF Climb, Climbing
  <2>3. \A d \in Nat : OnLadder(d) /\ d < cents' => d * Cent < bid
    BY <2>1, <2>2 DEF Climbing, Cent
  <2> QED BY <1>2, <2>2, <2>3 DEF Climb, Climbing
<1>3. CASE Bid
  <2>1. ~(cents < CeilCents(bid))
    BY <1>3, Ceiling DEF Bid
  <2>2. cents * Cent >= bid
    BY <2>1, Ceiling DEF Cent
  <2> QED BY <1>3, <2>2 DEF Bid, Climbing, OnLadder
<1>4. CASE UNCHANGED vars
  BY <1>4 DEF vars, Climbing, OnLadder
<1> QED BY <1>1, <1>2, <1>3, <1>4 DEF Next

LEMMA AimedNext ==
  ASSUME TypeOK, Aimed, [Next]_vars
  PROVE  Aimed'
<1> USE DEF TypeOK
<1>1. selectPercentile(choice, feed) \in Nat /\ market \in Nat /\ floor \in Nat
  BY Selecting, FeedsAssumption, PricesAssumption
<1>2. UNCHANGED inputs =>
        selectPercentile(choice, feed)' = selectPercentile(choice, feed)
  BY DEF inputs, selectPercentile
<1>3. CASE ConsultFeed
  BY <1>1, <1>2, <1>3 DEF ConsultFeed, Aimed, inputs
<1>4. CASE ClampToFloor
  BY <1>1, <1>2, <1>4 DEF ClampToFloor, Aimed, inputs
<1>5. CASE Climb \/ Bid
  BY <1>1, <1>2, <1>5 DEF Climb, Bid, Aimed, inputs
<1>6. CASE UNCHANGED vars
  BY <1>2, <1>6 DEF vars, Aimed, inputs
<1> QED BY <1>3, <1>4, <1>5, <1>6 DEF Next

LEMMA IInvNext == IInv /\ [Next]_vars => IInv'
  BY TypeNext, ClimbingNext, AimedNext DEF IInv

(* The type invariant, the climb's and the aim's hold together at every     *)
(* step.                                                                    *)
THEOREM Inductive == Spec => []IInv
  BY IInvInit, IInvNext, PTL DEF Spec

------------------------------------------------------------------------------
(* The bid is the lowest rung of the ladder that is not below the price     *)
(* aimed at, whatever the prices.                                           *)
THEOREM AlwaysLowestRung == Spec => []LowestRung
<1>1. IInv => LowestRung
  BY DEF IInv, TypeOK, Climbing, LowestRung
<1> QED BY <1>1, Inductive, PTL

(* It covers the market, the percentile and the minimum bid.                *)
THEOREM AlwaysWins == Spec => []BidWins
<1> SUFFICES ASSUME IInv, pc = "done"
             PROVE  /\ cents * Cent >= market * 105
                    /\ feedRead => cents * Cent >= selectPercentile(choice, feed) * 105
                    /\ floorRead => cents * Cent >= floor * 100
  BY Inductive, PTL DEF BidWins
<1>1. /\ selectPercentile(choice, feed) \in Nat
      /\ market \in Nat /\ floor \in Nat /\ bid \in Nat /\ cents * Cent \in Nat
  BY Selecting, FeedsAssumption, PricesAssumption DEF IInv, TypeOK, Cent
<1> QED BY <1>1 DEF IInv, Climbing, Aimed

(* Every step of Next, none of which leaves all as it is, comes nearer to   *)
(* the bid, and there are 0 .. 3 stages and a natural number of cents to    *)
(* go: the climb cannot go on for ever, however high the price.             *)
LEMMA StepsNearer ==
  ASSUME TypeOK, Next
  PROVE  /\ Nearer
         /\ StagesLeft \in 0 .. 3 /\ CentsLeft \in Nat
<1> USE DEF TypeOK
<1>1. StagesLeft \in 0 .. 3
  BY DEF StagesLeft
<1>2. CentsLeft \in Nat
  BY Ceiling DEF CentsLeft
<1>3. CASE ConsultFeed \/ ClampToFloor \/ Bid
  <2>1. StagesLeft' < StagesLeft
    BY <1>3 DEF ConsultFeed, ClampToFloor, Bid, StagesLeft
  <2> QED BY <1>1, <1>2, <2>1 DEF Nearer
<1>4. CASE Climb
  <2>1. cents' > cents /\ cents' \in Nat /\ pc' = pc /\ bid' = bid
    BY <1>4 DEF Climb, bidStepCents
  <2>2. cents < CeilCents(bid) /\ CeilCents(bid) \in Nat /\ CeilCents(bid)' = CeilCents(bid)
    BY <1>4, <2>1, Ceiling DEF Climb, CeilCents
  <2>3. StagesLeft' = StagesLeft
    BY <2>1 DEF StagesLeft
  <2>4. CentsLeft' < CentsLeft
    BY <2>1, <2>2 DEF CentsLeft
  <2> QED BY <1>1, <1>2, <2>3, <2>4 DEF Nearer
<1> QED BY <1>3, <1>4 DEF Next

(* The steps to a bid are bounded by what is left, for all prices.          *)
THEOREM ComesNearer == Spec => AlwaysNearer
<1>1. TypeOK /\ [Next]_vars => [Nearer]_vars
  BY StepsNearer
<1> QED BY <1>1, TypeCorrect, PTL DEF Spec, AlwaysNearer
==============================================================================
