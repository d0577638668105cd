---------------------------- MODULE MCDutyCycle ----------------------------
(***************************************************************************)
(* Instances of DutyCycle for TLC.                                         *)
(***************************************************************************)
EXTENDS DutyCycle

\* One characteristic in each service: a removal before the service's own.
OneEach == [s \in Services |-> 1]

\* As many as EnvironmentService and BatteryService create.
AsBuilt == [s \in Services |-> IF s = "ENV" THEN 6 ELSE 2]
=============================================================================
