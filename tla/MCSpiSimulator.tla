--------------------------- MODULE MCSpiSimulator ---------------------------
(***************************************************************************)
(* SpiSimulator with the values its configurations need.                   *)
(***************************************************************************)
EXTENDS SpiSimulator, TLC

CONSTANTS s1, s2, e, c1, c2, c3

\* One driver makes the same poll each time; the other has two polls, the
\* longer one too long for the trail.
SteadyAndVarying ==
  s1 :> {<<c1, c2>>} @@ s2 :> {<<c1>>, <<c2, c1, c1>>} @@ e :> {<<c3>>}

\* A driver whose polls differ.
Varying == s1 :> {<<c1>>, <<c2>>}
=============================================================================
