----------------------------- MODULE MCMsgQueue -----------------------------
(***************************************************************************)
(* MsgQueue with the values its configurations need.                       *)
(***************************************************************************)
EXTENDS MsgQueueRefinement

NoDelay == {0}
ShortDelays == {0, 1, 2}
FewDelays == {0, 2}
NoPeriod == {}
ShortPeriods == {1}
LongPeriods == {2}
=============================================================================
