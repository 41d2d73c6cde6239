---------------------------- MODULE SpiSimulator ----------------------------
(***************************************************************************)
(* The sensor tasks (sensor.cpp) that share an SPI port, with the SPI      *)
(* command simulator (simulator.cpp) between them and SpiPort.             *)
(*                                                                         *)
(* A sensor with a legacy driver is polled once for real while its         *)
(* commands are captured in a trail; from then on its task replays the     *)
(* trail, waiting for a semaphore and not for the port, and polls the      *)
(* driver with the answers of the replay.  An event sensor has no          *)
(* simulator: it starts a transceive and waits for the semaphore itself.   *)
(*                                                                         *)
(* A command is one transceive, of one byte each way for a legacy driver   *)
(* (SPIInterface::transfer).  A poll is a sequence of commands.  A packet   *)
(* that was received is told by the command it answers; one that is not of *)
(* the last replay counts as no answer.  "clean" is not in the code.       *)
(***************************************************************************)
EXTENDS SpiPort, Sequences

CONSTANTS
  Nobody,
  Command,
  NoCommand,
  Event,        \* the event sensors
  Polls,        \* for each sensor, the polls its driver may make
  Longer,       \* commands with more bytes to receive than to send
  Merge,        \* sensors whose simulator has merge_enabled
  TrailSize,    \* MAX_TRAIL_SIZE, in bytes
  MergedSize    \* MAX_MERGED_SIZE, in bytes

\* A record of the trail: two sizes and two packets of one byte.
RecordSize == 4

ASSUME SimulatorAssumption ==
  /\ Nobody \notin Sensor /\ NoCommand \notin Command
  /\ Event \subseteq Sensor /\ Merge \subseteq Sensor /\ Longer \subseteq Command
  /\ Polls \in [Sensor -> SUBSET Seq(Command)]
  /\ \A s \in Event : \A p \in Polls[s] : Len(p) = 1
  /\ \A s \in Sensor \ Event : \A p \in Polls[s] : \A i \in DOMAIN p : p[i] \notin Longer
  /\ TrailSize \in Nat /\ TrailSize % RecordSize = 0 /\ MergedSize \in Nat

VARIABLES
  holder,   \* the task that has taken the port semaphore
  pc,       \* where each task stands
  todo,     \* the commands its driver has still to make
  mode,     \* Simulator_Mode of its simulator
  index,    \* records of the trail already processed
  trail,    \* the trail up to its length
  merged,   \* merged_tx and merged_rx up to merged_length
  burst,    \* replayed_merge
  clean     \* did every transceive of its last replay succeed?

simVars == <<holder, pc, todo, mode, index, trail, merged, burst, clean>>
vars == <<portVars, simVars>>

Record == [tx : Command, rx : Command \cup {NoCommand}]
Mode == {"capture", "replay", "simulate", "mismatch", "disabled"}

\* simulator_configure.
Init ==
  /\ PortInit
  /\ holder = Nobody
  /\ pc = [s \in Sensor |-> "waiting"]
  /\ todo = [s \in Sensor |-> <<>>]
  /\ mode = [s \in Sensor |-> IF s \in Event THEN "disabled" ELSE "capture"]
  /\ index = [s \in Sensor |-> 0]
  /\ trail = [s \in Sensor |-> <<>>]
  /\ merged = [s \in Sensor |-> <<>>]
  /\ burst = [s \in Sensor |-> FALSE]
  /\ clean = [s \in Sensor |-> FALSE]

\* simulator_should_replay_merged_trail.
ReplaysMerged(s) == s \in Merge /\ merged[s] # <<>>

Goto(s, place) == pc' = [pc EXCEPT ![s] = place]

-----------------------------------------------------------------------------
(* The sensor task takes the port. *)

\* sem_wait, simulator_open, and the port is opened: by simulator_open for a
\* replay, by the driver's beginTransaction or the event sensor's poll_sensor.
Begin(s) ==
  /\ Quiet
  /\ pc[s] = "waiting" /\ holder = Nobody
  /\ holder' = s
  /\ SpiOpen
  /\ \/ /\ mode[s] # "replay"
        /\ \E poll \in Polls[s] : todo' = [todo EXCEPT ![s] = poll]
        /\ Goto(s, IF s \in Event THEN "send" ELSE "poll")
        /\ UNCHANGED clean
     \/ /\ mode[s] = "replay"
        /\ Goto(s, "replay")
        /\ clean' = [clean EXCEPT ![s] = TRUE]
        /\ UNCHANGED todo
  /\ UNCHANGED <<mode, index, trail, merged, burst>>

NeverSimulates(s) ==
  CASE mode[s] = "capture" -> "replay"
    [] mode[s] = "replay" -> "capture"
    [] OTHER -> mode[s]

\* The mode that follows in simulator_close, and what a mismatch leaves.
NextMode(s) ==
  CASE mode[s] = "capture" -> IF trail[s] # <<>> THEN "replay" ELSE "mismatch"
    [] mode[s] = "replay" -> "simulate"
    [] mode[s] = "simulate" -> "replay"
    [] mode[s] = "mismatch" -> "capture"
    [] OTHER -> mode[s]

\* A record with the bytes received in answer to command c.
With(record, c) == [tx |-> record.tx, rx |-> c]

Unanswered(seq) == [i \in DOMAIN seq |-> With(seq[i], NoCommand)]

TrailAfter(s) == IF mode[s] = "mismatch" THEN <<>> ELSE trail[s]

\* simulator_close leaves merged_length alone.
MergedAfter(s) == Unanswered(merged[s])

\* The task gives the port back and waits its poll interval.  What is set anew
\* by simulator_open is dead until then.
Release(s) ==
  /\ holder' = Nobody
  /\ Goto(s, "waiting")
  /\ mode' = [mode EXCEPT ![s] = NextMode(s)]
  /\ merged' = [merged EXCEPT ![s] = MergedAfter(s)]
  /\ index' = [index EXCEPT ![s] = 0]
  /\ burst' = [burst EXCEPT ![s] = FALSE]

-----------------------------------------------------------------------------
(* A legacy driver polls its sensor. *)

\* The next record of the trail is for command c.
Matches(s, c) == index[s] < Len(trail[s]) /\ trail[s][index[s] + 1].tx = c

\* spi_simulate: the answer is that of the trail, and the status is set.
Simulated(s) ==
  /\ Quiet
  /\ pc[s] = "poll" /\ todo[s] # <<>> /\ mode[s] = "simulate"
  /\ Matches(s, Head(todo[s]))
  /\ index' = [index EXCEPT ![s] = @ + 1]
  /\ todo' = [todo EXCEPT ![s] = Tail(@)]
  /\ status' = "rx complete"
  /\ UNCHANGED <<rxSem, remainder, tx, rx, irq, token>>
  /\ UNCHANGED <<holder, pc, mode, trail, merged, burst, clean>>

\* spi_transceive_wait, up to spi_wait.  A command that is not the recorded one
\* is carried out, and the rest of the poll with it.
Transceive(s) ==
  /\ Quiet
  /\ pc[s] = "poll" /\ todo[s] # <<>>
  /\ \/ mode[s] # "simulate" /\ UNCHANGED mode
     \/ /\ mode[s] = "simulate" /\ ~Matches(s, Head(todo[s]))
        /\ mode' = [mode EXCEPT ![s] = "mismatch"]
  /\ SpiTransceive(FALSE, NoSem)
  /\ Goto(s, "busy")
  /\ UNCHANGED <<holder, todo, index, trail, merged, burst, clean>>

TrailFits(s) == (index[s] + 1) * RecordSize <= TrailSize

MergedFits(s) == Len(merged[s]) + 1 <= MergedSize

\* simulator_capture_size and _packet, twice, and simulator_merge_packet: an
\* overflow switches to mismatch, after which nothing more is recorded.  The
\* captured answer is never read, the replay overwrites it.
Capture(s, c) ==
  LET record == [tx |-> c, rx |-> NoCommand]
  IN  \/ /\ mode[s] = "capture" /\ TrailFits(s)
         /\ trail' = [trail EXCEPT ![s] = Append(SubSeq(@, 1, index[s]), record)]
         /\ index' = [index EXCEPT ![s] = @ + 1]
         /\ \/ /\ MergedFits(s)
               /\ merged' = [merged EXCEPT ![s] = Append(@, record)]
               /\ UNCHANGED mode
            \/ /\ ~MergedFits(s)
               /\ mode' = [mode EXCEPT ![s] = "mismatch"]
               /\ UNCHANGED merged
      \/ /\ mode[s] = "capture" /\ ~TrailFits(s)
         /\ mode' = [mode EXCEPT ![s] = "mismatch"]
         /\ UNCHANGED <<trail, index, merged>>
      \/ /\ mode[s] # "capture"
         /\ UNCHANGED <<mode, trail, index, merged>>

\* spi_wait ends, in time or not: its result is not looked at.
Transceived(s) ==
  /\ Quiet
  /\ pc[s] = "busy"
  /\ \/ Complete /\ UNCHANGED portVars
     \/ SpiTimeout
  /\ Capture(s, Head(todo[s]))
  /\ todo' = [todo EXCEPT ![s] = Tail(@)]
  /\ Goto(s, "poll")
  /\ UNCHANGED <<holder, burst, clean>>

\* A driver may end its transaction in the middle of a poll and begin another:
\* to the port that is an opening anew.
Reopen(s) ==
  /\ Quiet
  /\ pc[s] = "poll" /\ todo[s] # <<>>
  /\ SpiOpen
  /\ UNCHANGED simVars

\* endTransaction and the end of the poll.
PollEnds(s) ==
  /\ Quiet
  /\ pc[s] = "poll" /\ todo[s] = <<>>
  /\ SpiClose
  /\ trail' = [trail EXCEPT ![s] = Unanswered(TrailAfter(s))]
  /\ Release(s)
  /\ clean' = [clean EXCEPT ![s] = FALSE]
  /\ UNCHANGED todo

-----------------------------------------------------------------------------
(* The task replays the trail. *)

LastIsNotReplayed(s) ==
  IF ReplaysMerged(s) THEN burst[s] ELSE index[s] + 1 >= Len(trail[s])

BurstIsRepeated(s) == ~ReplaysMerged(s) /\ index[s] >= Len(trail[s])

ReplayIsOver(s) == IF ReplaysMerged(s) THEN burst[s] ELSE index[s] >= Len(trail[s])

\* simulator_replay sends the next packet, or the merged trail in one burst.
Replay(s) ==
  /\ Quiet
  /\ pc[s] = "replay" /\ ~ReplayIsOver(s)
  /\ SpiTransceive(FALSE, s)
  /\ \/ /\ ReplaysMerged(s)
        /\ burst' = [burst EXCEPT ![s] = TRUE]
        /\ UNCHANGED index
     \/ /\ ~ReplaysMerged(s)
        /\ index' = [index EXCEPT ![s] = @ + 1]
        /\ UNCHANGED burst
  /\ Goto(s, "wait")
  /\ UNCHANGED <<holder, todo, mode, trail, merged, clean>>

\* The bytes received are in the buffers of the request: the driver's byte,
\* the packet of the trail or the merged trail.
Answered(seq) == [i \in DOMAIN seq |-> With(seq[i], seq[i].tx)]

AnsweredAt(seq, k) == [i \in DOMAIN seq |-> IF i = k THEN With(seq[i], seq[i].tx) ELSE seq[i]]

Replaying(s) == pc[s] = "wait" /\ mode[s] = "replay"

Received ==
  /\ RxDone
  /\ \/ \E s \in Sensor :
          /\ Replaying(s) /\ ReplaysMerged(s)
          /\ merged' = [merged EXCEPT ![s] = Answered(@)]
          /\ UNCHANGED trail
     \/ \E s \in Sensor :
          /\ Replaying(s) /\ ~ReplaysMerged(s)
          /\ trail' = [trail EXCEPT ![s] = AnsweredAt(@, index[s])]
          /\ UNCHANGED merged
     \/ /\ \A s \in Sensor : ~Replaying(s)
        /\ UNCHANGED <<trail, merged>>
  /\ UNCHANGED <<holder, pc, todo, mode, index, burst, clean>>

\* sem_wait ends.  The status is not looked at.
Woken(s) ==
  /\ Quiet
  /\ pc[s] = "wait" /\ token[s] = 1
  /\ token' = [token EXCEPT ![s] = 0]
  /\ Goto(s, IF s \in Event THEN "resume" ELSE "replay")
  /\ clean' = [clean EXCEPT ![s] = @ /\ status = "rx complete"]
  /\ UNCHANGED <<status, rxSem, remainder, tx, rx, irq>>
  /\ UNCHANGED <<holder, todo, mode, index, trail, merged, burst>>

\* spi_split_trail: the merged answers go to the records of the trail, in order,
\* from the first of each.
Split(s) ==
  [i \in DOMAIN trail[s] |->
     IF i \in DOMAIN merged[s]
     THEN With(trail[s][i], merged[s][i].rx) ELSE trail[s][i]]

ReplayEnds(s) ==
  /\ Quiet
  /\ pc[s] = "replay" /\ ReplayIsOver(s)
  /\ SpiClose
  /\ trail' = [trail EXCEPT ![s] = IF ReplaysMerged(s) THEN Split(s) ELSE @]
  /\ Release(s)
  /\ UNCHANGED <<todo, clean>>

-----------------------------------------------------------------------------
(* An event sensor. *)

\* poll_sensor sends its command and is not ready.
EventTransceive(s) ==
  /\ Quiet
  /\ pc[s] = "send"
  /\ SpiTransceive(Head(todo[s]) \in Longer, s)
  /\ Goto(s, "wait")
  /\ UNCHANGED <<holder, todo, mode, index, trail, merged, burst, clean>>

\* resume_sensor: a request that is not complete is waited for once more.
EventResume(s) ==
  /\ Quiet
  /\ pc[s] = "resume"
  /\ \/ /\ Complete
        /\ SpiClose
        /\ Release(s)
        /\ todo' = [todo EXCEPT ![s] = <<>>]
     \/ /\ ~Complete
        /\ Goto(s, "wait")
        /\ UNCHANGED <<portVars, holder, mode, index, todo, merged, burst>>
  /\ UNCHANGED <<trail, clean>>

-----------------------------------------------------------------------------
TaskStep(s) ==
  \/ Simulated(s) \/ Transceive(s) \/ Transceived(s) \/ Reopen(s) \/ PollEnds(s)
  \/ Replay(s) \/ Woken(s) \/ ReplayEnds(s)
  \/ EventTransceive(s) \/ EventResume(s)

PortStep ==
  \/ (Hardware \/ Interrupt) /\ UNCHANGED simVars
  \/ Received

Next ==
  \/ \E s \in Sensor : Begin(s) \/ TaskStep(s)
  \/ PortStep

Spec == Init /\ [][Next]_vars

\* Tasks, DMA and interrupts go on.  The port semaphore is handed to a task that
\* waits for it, and the task that gave it back waits its poll interval first:
\* every task gets its turn.
Fairness ==
  /\ \A s \in Sensor : WF_vars(TaskStep(s)) /\ SF_vars(Begin(s))
  /\ WF_vars(TxDone /\ UNCHANGED simVars)
  /\ WF_vars(Received)
  /\ WF_vars(Interrupt /\ UNCHANGED simVars)

FairSpec == Spec /\ Fairness

-----------------------------------------------------------------------------
\* The type invariant.
TypeOK ==
  /\ PortTypeOK
  /\ holder \in Sensor \cup {Nobody}
  /\ pc \in [Sensor -> {"waiting", "poll", "busy", "replay", "wait", "send", "resume"}]
  /\ todo \in [Sensor -> Seq(Command)]
  /\ mode \in [Sensor -> Mode]
  /\ index \in [Sensor -> Nat]
  /\ trail \in [Sensor -> Seq(Record)]
  /\ merged \in [Sensor -> Seq(Record)]
  /\ burst \in [Sensor -> BOOLEAN]
  /\ clean \in [Sensor -> BOOLEAN]

\* The reception will end, and an interrupt handler will see it.
WillEnd ==
  /\ irq
  /\ \/ Flagged(rx)
     \/ rx = "on" /\ \/ tx = "on" \/ Flagged(tx)
                     \/ tx = "done" /\ ~remainder

\* The wait for a completion has no timeout (sensor.cpp:81): a task in it has
\* its token, or the port still knows the semaphore and a handler will run that
\* signals it, whatever fails and whoever opened or closed the port before.
WaitIsAnswered ==
  \A s \in Sensor : pc[s] = "wait" => token[s] = 1 \/ (rxSem = s /\ WillEnd)

\* A token is for the wait in progress and comes once: none is left over from a
\* transfer of before that would end the next wait at once.
NoStaleToken ==
  \A s \in Sensor : token[s] = 1 => pc[s] = "wait" /\ rxSem # s

\* A task that is woken finds its request complete, in whatever order the two
\* completions came: an event sensor would wait again for a second signal.
WokenMeansComplete ==
  \A s \in Sensor : pc[s] = "wait" /\ token[s] = 1 /\ Quiet => Complete

\* A completion counts for the transfer it belongs to: after a timeout the old
\* transfer's completions do not complete the next.
CompleteMeansBoth ==
  (\E s \in Sensor : pc[s] \in {"busy", "wait"}) /\ status = "rx complete"
    => tx = "done" /\ rx = "done"

\* "The Simulator injects the received SPI packets from Replay Mode"
\* (simulator.h:6): before a simulated poll every record of the trail holds the
\* answer to its own command, received in the last replay.
InjectsReplayed ==
  \A s \in Sensor : mode[s] = "simulate" /\ clean[s] =>
    \A i \in DOMAIN trail[s] : trail[s][i].rx = trail[s][i].tx

\* What a task has still to do with the port: twice the commands or records that
\* are left, and how far it is with the next of them.
RecordsLeft(s) ==
  IF ~ReplaysMerged(s) THEN Len(trail[s]) - index[s] ELSE IF burst[s] THEN 0 ELSE 1

WorkLeft(s) ==
  CASE pc[s] = "waiting" -> 0
    [] pc[s] = "poll"    -> 2 * Len(todo[s]) + 1
    [] pc[s] = "busy"    -> 2 * Len(todo[s])
    [] pc[s] = "replay"  -> 2 * RecordsLeft(s) + 1
    [] pc[s] = "send"    -> 3
    [] pc[s] = "wait"    -> IF s \in Event THEN 2 ELSE 2 * RecordsLeft(s) + 2
    [] pc[s] = "resume"  -> 1

\* A task that has the port works towards giving it back: no capture, mismatch,
\* timeout or interrupt adds to what is left, every step of the task but a new
\* opening of the port takes from it, and an event sensor waits only once
\* (sensor.cpp:75-90, simulator.cpp:105-123).
SessionShrinks ==
  [][\A s \in Sensor : pc[s] # "waiting" =>
       /\ WorkLeft(s) \in Nat
       /\ \/ WorkLeft(s)' < WorkLeft(s)
          \/ WorkLeft(s)' = WorkLeft(s) /\ UNCHANGED <<pc[s], todo[s], index[s], burst[s]>>]_vars

\* A task that has the port gives it back: the polls and waits of every mode end.
PortComesBack == []<>(holder = Nobody)

\* "Capture -> Replay -> Simulate -> Replay -> Simulate ..." (simulator.h:10):
\* a sensor whose driver makes one and the same poll each time, which fits into
\* both trails, is simulated again and again, whatever the other sensors on the
\* port do and however its transfers fail.  Polls that vary are not promised
\* this, merging or not: merged_length is never reset (simulator.cpp:253) and
\* simulator_merge_packet does not look at merge_enabled, so that they fill the
\* merged trail for good.
KeepsSimulating ==
  \A s \in Sensor \ Event : \A p \in Polls[s] :
    Polls[s] = {p} /\ p # <<>> /\ Len(p) * RecordSize <= TrailSize /\ Len(p) <= MergedSize
      => []<>(mode[s] = "simulate")

=============================================================================
