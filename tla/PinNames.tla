------------------------------ MODULE PinNames ------------------------------
(* The tasks of Ex4/main.c. *)
EXTENDS FreeRTOSKernel, SmallParameters

CONSTANTS A, B, C       \* the tasks that execute pinA, pinB and pinC

\* Three tasks, of the priorities 2, 1 and 0.
ASSUME PinAssumption ==
  /\ Task = {A, B, C} /\ A # B /\ A # C /\ B # C
  /\ 2 \in Priority
=============================================================================
