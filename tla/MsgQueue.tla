------------------------------ MODULE MsgQueue ------------------------------
(***************************************************************************)
(* One cocoOS message queue (os_msgqueue.c) with the task that owns it and *)
(* receives from it, the tasks that post to it (OS_MSG_Q_POST and          *)
(* OS_MSG_Q_RECEIVE of os_msgqueue.h) and the clock interrupt that counts  *)
(* its delayed messages down (os_msgQ_tick).                               *)
(*                                                                         *)
(* Tasks are cooperative: between two scheduling points a task is          *)
(* interrupted only by an interrupt handler.  A post is one step, because  *)
(* a tick that lands inside queue_push sees the old head and is the same   *)
(* as a tick before the post.  A receive is several steps, because a tick  *)
(* that lands between them is not: the port's os_disable_interrupts() is   *)
(* empty and os_msg_receive does not call it.  Even the copy of one delay  *)
(* is several steps: it is read byte by byte, from a slot the tick counts  *)
(* down.  What stays one step is what no tick can tell apart: the walk of  *)
(* MsgQAllDelayed (a due message stays due), the copies into the slot at   *)
(* head (the tick stops before it) and the tick itself (a handler).        *)
(***************************************************************************)
EXTENDS Integers

CONSTANTS
  Size,      \* nMessages of os_msgQ_create: the slots of the ring
  Poster,    \* the tasks that post to the queue
  NoTask,    \* the sender named in a slot that was never written
  Delays,    \* the delays posted with: 0 for msg_post, others for msg_post_in
  Periods,   \* the periods posted with, by msg_post_every
  Byte,      \* the values one access of os_msg_receive's copy loop reads: 256
             \* for its uint8_t, more if the compiler merges the accesses
  Word,      \* the values of a delay: 2^32
  Preempt    \* may a tick land between the steps of one receive?

\* A ring of one slot has no empty state: task_create callers give at least 2
\* (uart.h says of the pool size "Hangs if <2").
ASSUME SizeAssumption == Size \in Nat /\ Size >= 2 /\ Size < 256
ASSUME ByteAssumption == Byte \in Nat /\ Byte >= 2 /\ Word \in Nat
ASSUME DelayAssumption ==
  Delays \subseteq 0 .. Word - 1 /\ Periods \subseteq 1 .. Word - 1
ASSUME PosterAssumption == NoTask \notin Poster
ASSUME PreemptAssumption == Preempt \in BOOLEAN

VARIABLES
  list,      \* the slots; a slot keeps its bytes until it is written again
  head,      \* q.head: the next slot to write
  tail,      \* q.tail: the slot before the oldest message
  rpc,       \* where the receiving task is
  rtail,     \* os_msg_receive's local tail
  reg,       \* *msg, the receiver's copy of the message being examined
  place,     \* the weight of the delay byte to be copied next
  part,      \* what the delay bytes copied so far amount to
  out,       \* the message this os_msg_receive has found
  ppc,       \* where each posting task is
  pmsg       \* the message of a poster that found the queue full

vars == <<list, head, tail, rpc, rtail, reg, place, part, out, ppc, pmsg>>

Slot == 0 .. Size - 1

\* Msg_t: its sender stands for the payload.  Two fields are not in the code:
\* "asked" is the delay asked for, "due" the number of ticks that must still
\* elapse before the message is due.
Message == [from : Poster \cup {NoTask}, asked : Nat, delay : Nat, reload : Nat,
            due : Nat]

Blank == [from |-> NoTask, asked |-> 0, delay |-> 0, reload |-> 0, due |-> 0]

\* What os_msg_post stamps into a message: msg_post_every passes its period as
\* the first delay too.
NewMessages(p) ==
  {[from |-> p, asked |-> d, delay |-> d, reload |-> 0, due |-> d] : d \in Delays} \cup
  {[from |-> p, asked |-> r, delay |-> r, reload |-> r, due |-> r] : r \in Periods}

SuccNoWrap(i) == i + 1

Succ(i) == (i + 1) % Size

\* The slots a walk from t + 1 up to (not including) h meets.  With t = h it
\* is every slot but t: that is a full ring.
Window(t, h) ==
  {i \in Slot : IF t < h THEN t < i /\ i < h ELSE t < i \/ i < h}

\* The task is inside os_msg_receive, past the emptiness test.
Scanning == rpc \in {"copy", "put", "reload", "commit"}

\* The slot before the oldest message not yet examined: a receive in progress
\* moves its local copy and stores it at the end.
Cursor == IF Scanning THEN rtail ELSE tail

\* The slots that hold messages which are still to be delivered.
Live == Window(Cursor, head)

Capacity == Size - 1

\* The task is running in OS_MSG_Q_RECEIVE: no other task runs.
Receiving == Scanning \/ rpc = "towait"

\* Two tests of queue_push and os_msg_receive: the ring of Size slots keeps
\* one of them free to tell a full ring (head meets tail) from an empty one.
NeverFull == FALSE

Full == head = tail

Empty == Succ(tail) = head

\* The slots os_msgQ_tick and MsgQAllDelayed walk: the stored tail and head.
TickedButFirst == Window(Succ(tail), head)

Ticked == Window(tail, head)

NoneDelayed == FALSE

MsgQAllDelayed == \A i \in Window(tail, head) : list[i].delay > 0

\* os_msg_receive's messageTimedOut and messagePeriodic.
TimedOutEarly(m) == m.delay <= 1

TimedOut(m) == m.delay = 0

Periodic(m) == m.reload > 0

\* os_signal_event(change): every task waiting for the event becomes ready and
\* makes a new try when it runs.
NobodyWoken(pc) == pc

Woken(pc) == [p \in Poster |-> IF pc[p] = "waiting" THEN "retry" ELSE pc[p]]

ReceiverNotWoken(pc) == pc

WokenReceiver(pc) == IF pc = "waiting" THEN "retry" ELSE pc

-----------------------------------------------------------------------------
Init ==
  /\ list = [i \in Slot |-> Blank]
  /\ head = 1
  /\ tail = 0
  /\ rpc = "idle"
  /\ rtail = 0
  /\ reg = Blank
  /\ place = 1
  /\ part = 0
  /\ out = Blank
  /\ ppc = [p \in Poster |-> "idle"]
  /\ pmsg = [p \in Poster |-> Blank]

\* queue_push, then the signal that tells the receiver of the change.
Push(m) ==
  /\ list' = [list EXCEPT ![head] = m]
  /\ head' = Succ(head)
  /\ rpc' = WokenReceiver(rpc)
  /\ UNCHANGED <<tail, rtail, reg, place, part, out>>

\* OS_MSG_Q_POST by a task that is not yet posting: queue_push refuses the
\* message when head meets tail.
\* A refused msg_post waits for the change event, msg_post_async gives up.
Post(p, m) ==
  /\ ~Receiving
  /\ ppc[p] = "idle"
  /\ \/ /\ ~Full
        /\ Push(m)
        /\ ppc' = Woken(ppc)
        /\ UNCHANGED pmsg
     \/ /\ Full
        /\ ppc' = [ppc EXCEPT ![p] = "waiting"]
        /\ pmsg' = [pmsg EXCEPT ![p] = m]
        /\ UNCHANGED <<list, head, tail, rpc, rtail, reg, place, part, out>>

PostAsyncRefused(p) ==
  /\ ~Receiving
  /\ ppc[p] = "idle"
  /\ Full
  /\ UNCHANGED vars

\* The do-while of OS_MSG_Q_POST: a woken poster tries again.
Retry(p) ==
  /\ ~Receiving
  /\ ppc[p] = "retry"
  /\ \/ /\ ~Full
        /\ Push(pmsg[p])
        /\ ppc' = [Woken(ppc) EXCEPT ![p] = "idle"]
        /\ pmsg' = [pmsg EXCEPT ![p] = Blank]
     \/ /\ Full
        /\ ppc' = [ppc EXCEPT ![p] = "waiting"]
        /\ UNCHANGED <<list, head, tail, rpc, rtail, reg, place, part, out, pmsg>>

-----------------------------------------------------------------------------
\* The head of os_msg_receive: an empty ring and a ring whose messages are all
\* delayed are both MSG_QUEUE_EMPTY.  A blocking receive will wait; an
\* asynchronous one returns NO_MSG_ID.
Receive ==
  /\ rpc \in {"idle", "retry"}
  /\ \/ /\ ~Empty
        /\ ~MsgQAllDelayed
        /\ rpc' = "copy"
        /\ rtail' = tail
     \/ /\ Empty \/ MsgQAllDelayed
        /\ rpc' = "towait"
        /\ UNCHANGED rtail
  /\ UNCHANGED <<list, head, tail, reg, place, part, out, ppc, pmsg>>

ReceiveAsyncEmpty ==
  /\ rpc = "idle"
  /\ Empty \/ MsgQAllDelayed
  /\ UNCHANGED vars

\* event_wait(change) takes effect, after the emptiness test.
EnterWait ==
  /\ rpc = "towait"
  /\ rpc' = "waiting"
  /\ UNCHANGED <<list, head, tail, rtail, reg, place, part, out, ppc, pmsg>>

\* The local tail moves on, and is what the queue's tail becomes at the end.
NextTail == Succ(rtail)

TailStays == tail

StoredTail == rtail

\* What one byte of a delay amounts to, lowest byte first.
Digit(d) == ((d \div place) % Byte) * place

\* One byte of the next slot's delay is copied: a tick may come before the next
\* byte and count the slot down meanwhile.
CopyByte ==
  /\ rpc = "copy"
  /\ place * Byte < Word
  /\ part' = part + Digit(list[NextTail].delay)
  /\ place' = place * Byte
  /\ UNCHANGED <<list, head, tail, rpc, rtail, reg, out, ppc, pmsg>>

\* One turn of the while loop, from the last byte of the delay to the decision:
\* a message whose copied delay is 0 is the one, and is reloaded if periodic.
CopyOut ==
  /\ rpc = "copy"
  /\ place * Byte >= Word
  /\ rtail' = NextTail
  /\ LET m == [list[NextTail] EXCEPT !.delay = part + Digit(list[NextTail].delay)]
     IN  \/ /\ TimedOut(m) /\ ~Periodic(m)
            /\ rpc' = "commit"
            /\ reg' = m
            /\ out' = m
         \/ /\ TimedOut(m) /\ Periodic(m)
            /\ rpc' = "reload"
            /\ reg' = [m EXCEPT !.delay = m.reload, !.due = m.reload]
            /\ out' = m
         \/ /\ ~TimedOut(m)
            /\ rpc' = "put"
            /\ reg' = m
            /\ UNCHANGED out
  /\ place' = 1
  /\ part' = 0
  /\ UNCHANGED <<list, head, tail, ppc, pmsg>>

\* The other half of the turn: a delayed message and a periodic one go back in
\* at the head.  The loop goes on unless this was the message found.
PutBack ==
  /\ rpc \in {"put", "reload"}
  /\ list' = [list EXCEPT ![head] = reg]
  /\ head' = Succ(head)
  /\ rpc' = IF rpc = "put" THEN "copy" ELSE "commit"
  /\ UNCHANGED <<tail, rtail, reg, place, part, out, ppc, pmsg>>

\* os_msg_receive stores the new tail and returns; the macro signals change.
\* The receive's own variables are dead from here on.
Commit ==
  /\ rpc = "commit"
  /\ tail' = StoredTail
  /\ rpc' = "idle"
  /\ ppc' = Woken(ppc)
  /\ rtail' = 0
  /\ reg' = Blank
  /\ out' = Blank
  /\ UNCHANGED <<list, head, place, part, pmsg>>

-----------------------------------------------------------------------------
Dec(n) == IF n > 0 THEN n - 1 ELSE 0

\* os_msgQ_tick, from the clock interrupt: it walks the stored tail and head.
\* A message that becomes due signals the change event.
Tick ==
  /\ Preempt \/ ~Receiving
  /\ list' = [i \in Slot |->
       [list[i] EXCEPT
          !.delay = IF i \in Ticked THEN Dec(@) ELSE @,
          !.due = IF i \in Live THEN Dec(@) ELSE @]]
  /\ reg' = [reg EXCEPT !.due = IF rpc \in {"put", "reload"} THEN Dec(@) ELSE @]
  /\ IF \E i \in Ticked : list[i].delay = 1
     THEN /\ ppc' = Woken(ppc)
          /\ rpc' = WokenReceiver(rpc)
     ELSE UNCHANGED <<ppc, rpc>>
  /\ UNCHANGED <<head, tail, rtail, place, part, out, pmsg>>

ReceiverStep == Receive \/ EnterWait \/ CopyByte \/ CopyOut \/ PutBack \/ Commit

Next ==
  \/ \E p \in Poster : \/ \E m \in NewMessages(p) : Post(p, m)
                       \/ PostAsyncRefused(p)
                       \/ Retry(p)
  \/ ReceiverStep
  \/ ReceiveAsyncEmpty
  \/ Tick

Spec == Init /\ [][Next]_vars

\* The receiving task runs whenever it can (it is an endless loop around
\* msg_receive) and woken posters are scheduled.  The clock ticks whatever the
\* tasks do; strongly fair, because without Preempt a receive disables Tick.
Fairness ==
  /\ WF_vars(ReceiverStep)
  /\ \A p \in Poster : WF_vars(Retry(p))
  /\ SF_vars(Tick)

FairSpec == Spec /\ Fairness

-----------------------------------------------------------------------------
\* The type invariant.
TypeOK ==
  /\ list \in [Slot -> Message]
  /\ head \in Slot
  /\ tail \in Slot
  /\ rtail \in Slot
  /\ rpc \in {"idle", "retry", "towait", "waiting",
              "copy", "put", "reload", "commit"}
  /\ reg \in Message
  /\ place \in Nat \ {0}
  /\ part \in Nat
  /\ out \in Message
  /\ ppc \in [Poster -> {"idle", "waiting", "retry"}]
  /\ pmsg \in [Poster -> Message]

\* The while loop of os_msg_receive has no bound of its own: it ends only
\* because a message that is due lies ahead of the cursor, however many
\* messages it has put back behind it and whatever a tick did meanwhile; if it
\* is the one being copied, the bytes read so far are 0.
ScanWillFind ==
  rpc \in {"copy", "put"} =>
    \E i \in Live : list[i].delay = 0 /\ (rpc = "copy" /\ i = NextTail => part = 0)

\* A put-back writes the slot at head without the test queue_push makes for
\* it: the ring must not be full when the receiver holds a message to store.
PutBackHasRoom == rpc \in {"put", "reload"} => head # rtail

\* A message handed to the receiver had waited out its delay, or it had asked for
\* a delay of more than one byte and a tick came in the middle of a receive.
NeverEarly ==
  rpc \in {"reload", "commit"} =>
    out.from \in Poster /\ (out.due = 0 \/ (Preempt /\ out.asked >= Byte))

\* What makes NeverEarly inductive: wherever a message is, a poster sent it, and
\* the delay field of one that asked for at most a byte has never held more,
\* nor less than what is still to elapse.  Without ticks inside a receive no
\* delay has held less.
Narrow(m) == m.asked < Byte

Patient(m) ==
  /\ m.from \in Poster
  /\ m.reload <= m.asked
  /\ (Narrow(m) \/ ~Preempt) => m.due <= m.delay
  /\ Narrow(m) => m.delay <= m.asked
  /\ ~Preempt => m.asked < Word /\ m.delay < Word

MessagesPatient ==
  /\ \A i \in Live : Patient(list[i])
  /\ rpc \in {"put", "reload"} => Patient(reg)
  /\ \A p \in Poster : ppc[p] # "idle" => Patient(pmsg[p]) /\ pmsg[p].from = p

\* The bytes copied so far of the delay being copied: all of it, if it fits in one
\* byte, and its low bytes as they still are, if no tick can come between.
CopySound ==
  /\ place = 1 => part = 0
  /\ place = 1 \/ place >= Byte
  /\ rpc # "copy" => place = 1
  /\ rpc = "copy" =>
       LET m == list[NextTail]
       IN  /\ Narrow(m) /\ place > 1 => m.due <= part /\ part <= m.asked
           /\ ~Preempt => part = m.delay % place

\* The inductive invariant.
IndInv ==
  TypeOK /\ ScanWillFind /\ PutBackHasRoom /\ NeverEarly /\ MessagesPatient
    /\ CopySound

\* The delay field counts the ticks: what it holds is what is left to wait.
DelayCountsTicks == \A i \in Live : list[i].delay = list[i].due

\* A receiver that waits has nothing to receive, but for messages that were
\* delayed where a tick may come between its test and its wait.
NoLostWakeUp ==
  rpc = "waiting" =>
    \A i \in Live : list[i].delay > 0 \/ (Preempt /\ list[i].asked > 0)

Same(m, n) == m.from = n.from /\ m.asked = n.asked /\ m.reload = n.reload

\* No step loses, duplicates or mixes up a message: each live message stays in
\* its slot unless the receiver takes it out from just past the cursor, the
\* one it holds to put back is held until it is stored, and the only slot that
\* becomes live is the head, with a poster's message or the one held.
Conserved ==
  /\ \A i \in Live :
       \/ i \in Live' /\ Same(list'[i], list[i])
       \/ i = Succ(Cursor) /\ rpc = "copy" /\ Same(reg', list[i])
            /\ rpc' = "commit" => Same(out', list[i]) /\ list[i].reload = 0
  /\ rpc \in {"put", "reload"} =>
       \/ rpc' = rpc /\ Same(reg', reg)
       \/ head \in Live' /\ Same(list'[head], reg)
  /\ \A i \in Live' \ Live :
       /\ i = head
       /\ \/ rpc \in {"put", "reload"} /\ rpc' # rpc
          \/ \E p \in Poster : list'[i].from = p /\ ppc[p] # "waiting"
               /\ ppc'[p] # "waiting"

NothingLost == [][Conserved]_vars

\* The queue's liveness: while a task has messages of a kind (one-shot, or of a
\* period) in the queue, one of its messages of that kind is received in the
\* end, whatever other messages go round in front of it.  (In the shipped port
\* this needs that no tick lands within a receive, or that no message is
\* delayed: NoLostWakeUp is what goes wrong otherwise.)
QueuedIsReceived ==
  \A p \in Poster, r \in Periods \cup {0} :
    (\E i \in Live : list[i].from = p /\ list[i].reload = r)
      ~> (rpc \in {"reload", "commit"} /\ out.from = p /\ out.reload = r)

\* Posters that found the queue full are not all left waiting for good: the
\* removal they wait for comes, wakes them, and one of them, or a poster that
\* was quicker, gets its message in (where nothing is delayed or periodic, only
\* a post moves the head).  Which one is not promised: a woken post that finds
\* the queue full again waits again, for ever if others are always quicker.
BlockedPosts ==
  \A p \in Poster, h \in Slot : (ppc[p] = "waiting" /\ head = h) ~> head # h

=============================================================================
