--------------------------- MODULE DurableStepsMC ---------------------------
(* Instances of DurableSteps for TLC. *)
EXTENDS DurableSteps

MixedEffects == [s \in 1 .. StepCount |-> IF s = 1 THEN "pure" ELSE "external"]
SafeEffects  == [s \in 1 .. StepCount |-> IF s = 1 THEN "pure" ELSE "idempotent"]
\* An uncertain step that an entrypoint can leave behind for the next one.
UncertainFirst == [s \in 1 .. StepCount |-> IF s = 1 THEN "external" ELSE "pure"]
=============================================================================
