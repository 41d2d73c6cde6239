----------------------------- MODULE MCSensorNet -----------------------------
(***************************************************************************)
(* SensorNet with the values its configurations need.                      *)
(***************************************************************************)
EXTENDS SensorPort, TLC

CONSTANTS s1, s2

\* The order of the priorities of the application: UART 10, network 20, the
\* sensors from 100.
TaskPrio == UART :> 1 @@ NET :> 2 @@ s1 :> 3 @@ s2 :> 4
=============================================================================
