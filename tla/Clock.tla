--------------------------------- MODULE Clock ---------------------------------
(***************************************************************************)
(* The clock that sessions, invites and the limiter on logins read by      *)
(* time.Now.                                                               *)
(***************************************************************************)
EXTENDS Naturals

CONSTANT MaxTime  \* bound of the model on the clock

ASSUME ClockAssumption == MaxTime \in Nat

VARIABLE now

TimePasses ==
  /\ now < MaxTime
  /\ now' = now + 1
===============================================================================
