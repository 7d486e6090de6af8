-------------------------------- MODULE Clock --------------------------------
(* The clock (clock.Clock, time.Now) that components with expiries share.    *)
EXTENDS Naturals

CONSTANT MaxTime   \* bound of the model: the clock stops here

ASSUME MaxTimeAssumption == MaxTime \in Nat

VARIABLE now

Advance == now < MaxTime /\ now' = now + 1
=============================================================================
