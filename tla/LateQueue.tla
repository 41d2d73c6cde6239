------------------------------ MODULE LateQueue ------------------------------
(***************************************************************************)
(* What is left of DelayQueue's promise where the clock interrupt may land *)
(* within a receive.  The line is still bounded, no message is lost or     *)
(* served twice, the messages passed over keep their order, and none whose *)
(* delay fits in a byte is served before its time.  But the message served *)
(* need not be the first one that is due, nor served as soon as it is due, *)
(* and one with a longer delay may be served at any time.                  *)
(***************************************************************************)
EXTENDS DelayQueue

CONSTANT Byte    \* delays below this one are read in one piece

\* Some message that is due, or whose delay may be misread, leaves the line.
DeliverSome ==
  /\ out = Nothing
  /\ \E k \in 1 .. Len(queue) :
       /\ queue[k].delay = 0 \/ queue[k].asked >= Byte
       /\ Take(k)

LateNext ==
  \/ \E p \in Poster, d \in Delays : Post(Message(p, d, 0))
  \/ \E p \in Poster, r \in Periods : Post(Message(p, r, r))
  \/ DeliverSome
  \/ Return
  \/ Tick

LateSpec == Init /\ [][LateNext]_vars
=============================================================================
