------------------------------- MODULE Delays -------------------------------
(***************************************************************************)
(* The two delays common.go computes.  Durations are integers.             *)
(***************************************************************************)
EXTENDS Integers

CONSTANT Second     \* time.Second, in units of the model's clock

ASSUME SecondAssumption == Second \in Nat \ {0}

RefreshDuration_Whole(left) == IF left < 0 THEN 0 ELSE left

(* How long to wait when the token expires after left.  A product of a     *)
(* float64 and .75 converted to an integer is rounded down.                *)
RefreshDuration(left) ==
    CASE left < 0          -> 0
      [] left > 4 * Second -> (3 * left) \div 4
      [] OTHER             -> IF left - Second < 0 THEN 0 ELSE left - Second

(* backoff * backoffFactor, retries times unless it reaches the maximum.   *)
Grown(base, max, retries) ==
    LET grow[k \in 0 .. retries] ==
            IF k = 0 THEN base
            ELSE IF grow[k - 1] < max THEN (13 * grow[k - 1]) \div 10 ELSE grow[k - 1]
    IN  grow[retries]

Backoff_Uncapped(base, max, retries) ==
    LET backoff == Grown(base, max, retries)
    IN  {backoff - (backoff * 4 * r) \div 100 : r \in 0 .. 9}

(* The delays Backoff can return: up to 40% is taken off at random.  r     *)
(* stands for rand.Float64(), in tenths.                                   *)
Backoff(base, max, retries) ==
    LET grown   == Grown(base, max, retries)
        backoff == IF grown > max THEN max ELSE grown
    IN  {LET d == backoff - (backoff * 4 * r) \div 100 IN IF d < 0 THEN 0 ELSE d :
            r \in 0 .. 9}
=============================================================================
