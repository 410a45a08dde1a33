---------------------------- MODULE MCRotation ----------------------------
(* A lot of two shares at ten or twelve, two calls, and an account that     *)
(* begins with cash for two lots or with the parking symbol for one.        *)
EXTENDS Rotation

TwoCalls == {[strike |-> 10, limit |-> 2], [strike |-> 12, limit |-> 1]}
CashOrPark == {[cash |-> 48, park |-> 0], [cash |-> 0, park |-> 30]}
=============================================================================
