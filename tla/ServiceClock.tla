---------------------------- MODULE ServiceClock ----------------------------
(***************************************************************************)
(* The wall clock the services of the relay read through Date.now, as a    *)
(* bounded counter.  Each service's module extends this one and says when  *)
(* its clock may go on.                                                    *)
(***************************************************************************)
EXTENDS Integers

CONSTANT MaxClock          \* bound: how far the clock runs
ASSUME ClockAssumption == MaxClock \in Nat

VARIABLE clock

ClockInit == clock = 0

ClockTick == /\ clock < MaxClock
             /\ clock' = clock + 1

\* An absent value: no row, no lane, no tier, no model.
None == "none"

Min2(a, b) == IF a <= b THEN a ELSE b
Max2(a, b) == IF a >= b THEN a ELSE b
=============================================================================
