---------------------------- MODULE MCCocoKernel ----------------------------
(***************************************************************************)
(* CocoKernel with the values its configurations need.                     *)
(***************************************************************************)
EXTENDS CocoSemaphores, TLC

CONSTANTS t1, t2

Prio2 == t1 :> 1 @@ t2 :> 2

Binary == [s \in Sem |-> 1]
Counting == [s \in Sem |-> 2]
Zero == [s \in Sem |-> 0]

MasterClock == {0}
TwoClocks == {0, 1}
OneTick == {1}
TwoTicks == {1, 2}
NoSteps == {}
=============================================================================
