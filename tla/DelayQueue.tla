----------------------------- MODULE DelayQueue -----------------------------
(***************************************************************************)
(* What a cocoOS message queue promises its users (docMessages.h), without *)
(* rings, copies or interrupts: a bounded line of messages.  A message is  *)
(* due once its delay has been ticked away; a receive takes the first one  *)
(* that is due, moves the delayed ones it passed to the back of the line,  *)
(* in their order, and a periodic message joins the line again behind them.*)
(***************************************************************************)
EXTENDS Integers, Sequences

CONSTANTS
  Poster,    \* who may post
  Delays,    \* the delays a post may ask for
  Periods,   \* the periods a post may ask for
  Capacity,  \* how many messages fit
  Nothing    \* what the receiver holds between two receives

VARIABLES
  queue,     \* the messages in line
  out        \* the message the receiver is being given

vars == <<queue, out>>

\* A message: the delay it asked for, and what is left of it.
Message(p, d, r) == [from |-> p, asked |-> d, delay |-> d, reload |-> r]

Init == queue = <<>> /\ out = Nothing

Post(m) ==
  /\ Len(queue) < Capacity
  /\ queue' = Append(queue, m)
  /\ UNCHANGED out

\* Message k leaves the line: those before it move to the back, and it joins them
\* if it is periodic.
Take(k) ==
  LET m == queue[k]
  IN  /\ out' = m
      /\ queue' = SubSeq(queue, k + 1, Len(queue)) \o SubSeq(queue, 1, k - 1)
                  \o IF m.reload > 0 THEN <<[m EXCEPT !.delay = m.reload]>>
                                     ELSE <<>>

\* The first due message leaves the line.
Deliver ==
  /\ out = Nothing
  /\ \E k \in 1 .. Len(queue) :
       /\ queue[k].delay = 0
       /\ \A j \in 1 .. k - 1 : queue[j].delay > 0
       /\ Take(k)

Return ==
  /\ out # Nothing
  /\ out' = Nothing
  /\ UNCHANGED queue

\* One tick of the clock counts for every message in line.
Tick ==
  /\ queue' = [k \in 1 .. Len(queue) |->
       [queue[k] EXCEPT !.delay = IF @ > 0 THEN @ - 1 ELSE 0]]
  /\ UNCHANGED out

Next ==
  \/ \E p \in Poster, d \in Delays : Post(Message(p, d, 0))
  \/ \E p \in Poster, r \in Periods : Post(Message(p, r, r))
  \/ Deliver
  \/ Return
  \/ Tick

\* A due message is delivered, a delivery ends, and the clock ticks.
Spec == Init /\ [][Next]_vars
FairSpec == Spec /\ WF_vars(Deliver) /\ WF_vars(Return) /\ WF_vars(Tick)
=============================================================================
