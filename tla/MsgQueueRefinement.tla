------------------------- MODULE MsgQueueRefinement -------------------------
(***************************************************************************)
(* MsgQueue implements DelayQueue as long as no tick changes the queue     *)
(* within a receive, and LateQueue whenever the ticks come.  The line of   *)
(* messages is read off the ring from the cursor to the head; in the middle*)
(* of a receive the messages already put back, and the one in the          *)
(* receiver's hand, are still in front of it.  The delay of a message there*)
(* is what is really left of it, whatever its delay field says.  The       *)
(* receive takes effect when CopyOut finds a message that is due.          *)
(***************************************************************************)
EXTENDS MsgQueue, Sequences

Plain(m) == [from |-> m.from, asked |-> m.asked, delay |-> m.due, reload |-> m.reload]

\* The live slots in the order a walk meets them.
Line == [j \in 1 .. (head - Cursor - 1) % Size |-> Plain(list[(Cursor + j) % Size])]

\* How many of them this receive has put back: the last ones of Line.
NumPutBack == LET copied == (rtail - tail) % Size
              IN  CASE rpc = "copy" -> copied
                    [] rpc = "put"  -> copied - 1
                    [] OTHER        -> 0

InHand == CASE rpc = "put"    -> <<Plain(reg)>>
            [] rpc = "reload" -> <<Plain(reg)>>
            [] OTHER          -> <<>>

QueueBar ==
  LET unread == Len(Line) - NumPutBack
  IN  IF rpc = "reload"
      THEN Line \o InHand
      ELSE SubSeq(Line, unread + 1, Len(Line)) \o InHand \o SubSeq(Line, 1, unread)

OutBar == Plain(out)

Abstract == INSTANCE LateQueue
              WITH queue <- QueueBar, out <- OutBar, Nothing <- Plain(Blank)

\* MsgQueue does what DelayQueue says: bounded, first due message first, no
\* message lost or served twice, every tick counted (os_msg_receive,
\* queue_push and os_msgQ_tick against docMessages.h).
ImplementsDelayQueue == Abstract!Spec

\* And it does so with DelayQueue's progress: a due message is delivered.
ImplementsFairDelayQueue == Abstract!FairSpec

\* And wherever the ticks land it does what LateQueue says: bounded, nothing
\* lost or served twice, nothing with a delay of one byte served early (the
\* port's os_disable_interrupts() is empty).
ImplementsLateQueue == Abstract!LateSpec

\* The messages a receive in progress has not put back.
Unread == Len(Line) - NumPutBack

Examining == rpc \in {"copy", "put"}

\* The loop of os_msg_receive, which has no bound of its own, ends: whatever ticks
\* interrupt it, it takes its next message from those it has not put back yet,
\* and every turn leaves one fewer of these.
ScanEnds ==
  [][/\ Examining => Unread > 0
     /\ Examining /\ Examining' =>
          Unread' = IF rpc = "copy" /\ rpc' = "put" THEN Unread - 1 ELSE Unread]_vars
=============================================================================
