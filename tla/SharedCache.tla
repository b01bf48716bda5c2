------------------------------ MODULE SharedCache ------------------------------
(****************************************************************************)
(* A cached value that many callers ask for at once, without the locks: a   *)
(* call is answered at one moment, with what is cached at that moment, and  *)
(* the value is replaced only while it is out of date. PriceFeed and        *)
(* InstanceTypes implement it, each with its own locks. They differ in what *)
(* becomes of a value that has expired: a feed of prices is kept, to be     *)
(* served if it cannot be replaced; a list of ServerClasses is not.         *)
(****************************************************************************)
CONSTANTS
  Callers,
  Values,    \* what may be cached
  KeepStale  \* whether an expired value is kept

VARIABLES
  value,   \* the set of what is cached: one value or none
  fresh,   \* it is not out of date
  asking,  \* the callers that wait for an answer
  got      \* the value each was answered last, none for an error

cacheVars == <<value, fresh, asking, got>>

Init ==
  /\ value = {} /\ fresh = FALSE
  /\ asking = {}
  /\ got = [c \in Callers |-> {}]

------------------------------------------------------------------------------
Ask(c) ==
  /\ c \notin asking
  /\ asking' = asking \union {c}
  /\ got' = [got EXCEPT ![c] = {}]
  /\ UNCHANGED <<value, fresh>>

(* The end of a call, with what is cached by then: nothing is an error.     *)
Answered(c) ==
  /\ c \in asking
  /\ asking' = asking \ {c}
  /\ got' = [got EXCEPT ![c] = value']

(* What is cached answers: while it is fresh, and for want of anything      *)
(* newer.                                                                   *)
Answer(c) == Answered(c) /\ UNCHANGED <<value, fresh>>

(* It is replaced by one of those who find it out of date.                  *)
Replace(c, v) ==
  /\ ~fresh
  /\ value' = {v} /\ fresh' = TRUE
  /\ Answered(c)

(* A caller goes away with its answer.                                      *)
Leave(c) ==
  /\ c \notin asking
  /\ got' = [got EXCEPT ![c] = {}]
  /\ UNCHANGED <<value, fresh, asking>>

Expire ==
  /\ fresh /\ fresh' = FALSE
  /\ value' = IF KeepStale THEN value ELSE {}
  /\ UNCHANGED <<asking, got>>

(* The process ends.                                                        *)
Forget ==
  /\ value' = {} /\ fresh' = FALSE /\ asking' = {}
  /\ got' = [c \in Callers |-> {}]

------------------------------------------------------------------------------
Next ==
  \/ \E c \in Callers :
       Ask(c) \/ Answer(c) \/ Leave(c) \/ \E v \in Values : Replace(c, v)
  \/ Expire \/ Forget

Spec == Init /\ [][Next]_cacheVars
==============================================================================
