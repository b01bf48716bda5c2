------------------------------ MODULE BidLadder ------------------------------
(****************************************************************************)
(* The bid of a spot pool: chooseBidPrice, selectPercentile, roundBidUp and *)
(* bidStepCents of src/pkg/providers/instance/instance.go.                  *)
(*                                                                          *)
(* Prices are whole mills, thousandths of a dollar. A bid before rounding   *)
(* is in hundredths of a mill, so that a percentage of a price is whole;    *)
(* Cent of them make a cent. The code computes in floating point and takes  *)
(* 1e-9 off before it rounds up: the noise of a handful of operations on    *)
(* prices of a few dollars is far below that, and the distance between two  *)
(* values that differ is far above it, so that the result is the exact one. *)
(****************************************************************************)
EXTENDS Integers

CONSTANTS
  Prices,  \* the market prices and minimum bids Rackspace may quote, in mills
  Feeds    \* the percentiles it may publish for a ServerClass, in mills

Percentiles == [{"P20", "P50", "P80"} -> Nat]

ASSUME PricesAssumption == Prices \subseteq Nat
ASSUME FeedsAssumption == Feeds \subseteq Percentiles

Cent == 1000

Choices == {"", "P20", "P50", "P80"}

VARIABLES
  market,     \* the price of the spot offering
  choice,     \* the NodeClass's bidPercentile
  feed,       \* the percentiles
  feedRead,   \* the feed could be read
  floor,      \* the ServerClass's minimum bid
  floorRead,  \* the minimum bid could be read
  pc,         \* where chooseBidPrice is
  bid,        \* the bid before rounding
  cents       \* the rung reached by the rounding

inputs == <<market, choice, feed, feedRead, floor, floorRead>>
vars == <<inputs, pc, bid, cents>>

TypeOK ==
  /\ market \in Prices \ {0}
  /\ choice \in Choices
  /\ feed \in Feeds /\ feedRead \in BOOLEAN
  /\ floor \in Prices /\ floorRead \in BOOLEAN
  /\ pc \in {"feed", "floor", "round", "done"}
  /\ bid \in Nat
  /\ cents \in Nat \ {0}

------------------------------------------------------------------------------
(* selectPercentile: P80 unless the NodeClass says otherwise.               *)
selectPercentile(x, p) == IF x \in {"P20", "P50"} THEN p[x] ELSE p["P80"]

(* The steps below with their bounds counted in.                            *)
bidStepCentsShifted(c) ==
  IF c <= 4 THEN 1 ELSE IF c <= 10 THEN 2 ELSE IF c <= 20 THEN 3 ELSE 5

(* A table of steps that ends too early: past it the step is nothing.       *)
bidStepCentsTable(c) ==
  IF c < 4 THEN 1 ELSE IF c < 10 THEN 2 ELSE IF c < 20 THEN 3 ELSE 0

(* The step that follows a rung.                                            *)
bidStepCents(c) ==
  IF c < 4 THEN 1 ELSE IF c < 10 THEN 2 ELSE IF c < 20 THEN 3 ELSE 5

(* The fewest whole cents that are not less than b.                         *)
CeilCents(b) == (b + Cent - 1) \div Cent

------------------------------------------------------------------------------
(* A ServerClass without a market price has no spot offering, and is never  *)
(* asked a bid.                                                             *)
Init ==
  /\ market \in Prices \ {0}
  /\ choice \in Choices
  /\ feed \in Feeds /\ feedRead \in BOOLEAN
  /\ floor \in Prices /\ floorRead \in BOOLEAN
  /\ pc = "feed"
  /\ bid = 0
  /\ cents = 1

(* A regression that bids the percentile even where the market is higher.   *)
ConsultFeedAlone ==
  /\ pc = "feed"
  /\ bid' = IF feedRead THEN selectPercentile(choice, feed) * 105 ELSE market * 120
  /\ pc' = "floor"
  /\ UNCHANGED <<inputs, cents>>

(* The higher of the market and the percentile and 5% more, or 20% above    *)
(* the market without the feed.                                             *)
ConsultFeed ==
  /\ pc = "feed"
  /\ bid' = LET chosen == selectPercentile(choice, feed)
                pivot == IF chosen > market THEN chosen ELSE market
            IN  IF feedRead THEN pivot * 105 ELSE market * 120
  /\ pc' = "floor"
  /\ UNCHANGED <<inputs, cents>>

(* A minimum bid that is waited for, with a feed that is read anew.          *)
ClampToFloorAgain ==
  /\ pc = "floor"
  /\ bid' = IF floorRead /\ bid < floor * 100 THEN floor * 100 ELSE bid
  /\ pc' = IF floorRead THEN "round" ELSE "feed"
  /\ UNCHANGED <<inputs, cents>>

(* Clamped up to the minimum bid, when that can be read.                    *)
ClampToFloor ==
  /\ pc = "floor"
  /\ bid' = IF floorRead /\ bid < floor * 100 THEN floor * 100 ELSE bid
  /\ pc' = "round"
  /\ UNCHANGED <<inputs, cents>>

(* roundBidUp: from the lowest rung up, one rung at a time.                 *)
Climb ==
  /\ pc = "round" /\ cents < CeilCents(bid)
  /\ cents' = cents + bidStepCents(cents)
  /\ UNCHANGED <<inputs, pc, bid>>

Bid ==
  /\ pc = "round" /\ cents >= CeilCents(bid)
  /\ pc' = "done"
  /\ UNCHANGED <<inputs, bid, cents>>

Next == ConsultFeed \/ ClampToFloor \/ Climb \/ Bid

Spec == Init /\ [][Next]_vars

FairSpec == Spec /\ WF_vars(Next)

------------------------------------------------------------------------------
(* The rungs of Rackspace's ladder, as the comment on roundBidUp lists them *)
(* and goes on: 0.01, 0.02, 0.03, 0.04, 0.06, 0.08, 0.10, 0.13, 0.16, 0.19, *)
(* 0.22, 0.27, ...                                                          *)
OnLadder(c) ==
  \/ c \in {1, 2, 3, 4, 6, 8, 10, 13, 16, 19}
  \/ c >= 22 /\ (c - 22) % 5 = 0

(* The bid Rackspace gets is a rung, or its admission webhook refuses it;   *)
(* and rounding is up and no further than it must: it is the lowest rung    *)
(* not below the price aimed at, so that a price that is a rung already is  *)
(* bid as it is.                                                            *)
LowestRung ==
  pc = "done" =>
    /\ OnLadder(cents)
    /\ cents * Cent >= bid
    /\ \A c \in 1 .. cents - 1 : OnLadder(c) => c * Cent < bid

(* The bid always tops the market it must win by 5% at least, tops the      *)
(* chosen percentile by as much when the feed can be read, and is no lower  *)
(* than the minimum bid when that can be read.                              *)
BidWins ==
  pc = "done" =>
    /\ cents * Cent >= market * 105
    /\ feedRead => cents * Cent >= selectPercentile(choice, feed) * 105
    /\ floorRead => cents * Cent >= floor * 100

(* Every step comes nearer to the bid: chooseBidPrice asks for the feed and *)
(* for the minimum bid once, whatever comes of it, and the loop of          *)
(* roundBidUp has fewer cents to go after each turn.                        *)
StagesLeft == [feed |-> 3, floor |-> 2, round |-> 1, done |-> 0][pc]

CentsLeft == IF cents < CeilCents(bid) THEN CeilCents(bid) - cents ELSE 0

Nearer ==
  \/ StagesLeft' < StagesLeft
  \/ StagesLeft' = StagesLeft /\ CentsLeft' < CentsLeft

AlwaysNearer == [][Nearer]_vars

(* The climb comes to an end.                                               *)
BidIsMade == <>(pc = "done")
==============================================================================
