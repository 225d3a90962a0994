------------------------------- MODULE RateLimit -------------------------------
(***************************************************************************)
(* The budget of one category of events: allow takes one unit from signal  *)
(* handlers, refill runs once a second in the timer of the recorder, and   *)
(* enable and disable come with the recording. No lock is held.            *)
(***************************************************************************)
EXTENDS Integers

CONSTANTS
    Threads, Limits,
    MaxPeriods, MaxEvents       \* bounds: refills and events of a period

RateLimitShape == Limits \subseteq Nat /\ MaxPeriods \in Nat /\ MaxEvents \in Nat

VARIABLES
    budget, limit, enabled,
    at,             \* thread -> "run" or "take": between the test and the decrement
    refilling,      \* refill has computed the carryover and not stored it
    carry,
    periods,        \* history: refills so far
    admitted,       \* history: events admitted against the present budget
    events          \* history: events of the present period

vars == <<budget, limit, enabled, at, refilling, carry, periods, admitted, events>>

Smaller(a, b) == IF a < b THEN a ELSE b
Larger(a, b) == IF a > b THEN a ELSE b

Init ==
    /\ budget = 0 /\ limit = 0 /\ enabled = FALSE
    /\ at = [t \in Threads |-> "run"]
    /\ refilling = FALSE /\ carry = 0
    /\ periods = 0 /\ admitted = 0 /\ events = 0

(* FlightRecorder::start and stop.                                         *)
Enable(l) ==
    /\ ~enabled /\ ~refilling /\ periods < MaxPeriods
    /\ budget' = l /\ limit' = l /\ enabled' = TRUE
    /\ periods' = periods + 1 /\ admitted' = 0 /\ events' = 0
    /\ UNCHANGED <<at, refilling, carry>>

Disable ==
    /\ enabled /\ ~refilling
    /\ enabled' = FALSE
    /\ UNCHANGED <<budget, limit, at, refilling, carry, periods, admitted, events>>

(* allow: the category is tested, then the budget taken.                   *)
Test(t) ==
    /\ at[t] = "run" /\ enabled /\ events < MaxEvents
    /\ at' = [at EXCEPT ![t] = "take"]
    /\ events' = events + 1
    /\ UNCHANGED <<budget, limit, enabled, refilling, carry, periods, admitted>>

Take(t) ==
    /\ at[t] = "take"
    /\ budget' = budget - 1
    /\ admitted' = IF budget > 0 THEN admitted + 1 ELSE admitted
    /\ at' = [at EXCEPT ![t] = "run"]
    /\ UNCHANGED <<limit, enabled, refilling, carry, periods, events>>

Carryover(left) == Smaller(Larger(left, 0), limit)

ReadBudget ==
    /\ enabled /\ ~refilling /\ periods < MaxPeriods
    /\ carry' = Carryover(budget) /\ refilling' = TRUE
    /\ UNCHANGED <<budget, limit, enabled, at, periods, admitted, events>>

StoreBudget ==
    /\ refilling
    /\ budget' = limit + carry /\ refilling' = FALSE /\ carry' = 0
    /\ periods' = periods + 1 /\ admitted' = 0 /\ events' = 0
    /\ UNCHANGED <<limit, enabled, at>>

Next ==
    \/ \E l \in Limits : Enable(l)
    \/ Disable \/ ReadBudget \/ StoreBudget
    \/ \E t \in Threads : Test(t) \/ Take(t)

Spec == Init /\ [][Next]_vars

-----------------------------------------------------------------------------
TypeOK ==
    /\ budget \in Int /\ limit \in Limits \cup {0} /\ enabled \in BOOLEAN
    /\ periods \in 0..MaxPeriods /\ events \in 0..MaxEvents /\ admitted \in Nat

(* Between two refills at most twice the limit is admitted, however many   *)
(* quiet periods came before and however refill and allow interleave.      *)
RateBounded == admitted <= 2 * limit
=============================================================================
