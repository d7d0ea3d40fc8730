-------------------------- MODULE MCGoroutinePool --------------------------
(* Instances of GoroutinePool small enough for TLC. *)
EXTENDS GoroutinePool

CONSTANTS Eager    \* the tasks submitted with one retry; the others have none
CONSTANTS Hopeless \* the tasks submitted with a negative maxRetries

MCMaxRetries == [t \in Tasks |-> IF t \in Eager THEN 1 ELSE IF t \in Hopeless THEN -1 ELSE 0]
=============================================================================
