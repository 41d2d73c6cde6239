---------------------- MODULE SpiSimulatorReplay_proofs ----------------------
(***************************************************************************)
(* What a simulated poll is given, for any sensors, faults and trail       *)
(* sizes: the answers that the last replay received to the same commands.  *)
(* A simulator that merges must have a driver that makes one and the same  *)
(* poll each time: run spi_mismatch shows what happens otherwise.          *)
(***************************************************************************)
EXTENDS SpiSimulator_proofs

\* The poll of a driver that makes only one.
Poll(s) == CHOOSE p \in Polls[s] : TRUE

\* Every simulator that merges has such a driver, and its poll can be recorded.
SteadyPolls ==
  \A s \in Merge \ Event :
    /\ Polls[s] = {Poll(s)}
    /\ Len(Poll(s)) > 0
    /\ Len(Poll(s)) * RecordSize <= TrailSize /\ Len(Poll(s)) <= MergedSize

AllAnswered(q) == \A i \in DOMAIN q : q[i].rx = q[i].tx

\* q has records of the first n commands of p.
Records(q, p, n) == Len(q) = n /\ \A i \in 1 .. n : q[i].tx = p[i]

\* q is what is left of p after n commands.
Remaining(q, p, n) == Len(q) = Len(p) - n /\ \A i \in 1 .. Len(q) : q[i] = p[n + i]

\* Where the task can be in each mode.
PlaceInv(s) ==
  /\ s \in Event => mode[s] = "disabled"
  /\ mode[s] = "replay" => pc[s] \in {"waiting", "replay", "wait"}
  /\ s \notin Event /\ mode[s] # "replay" => pc[s] \in {"waiting", "poll", "busy"}
  /\ mode[s] = "simulate" => pc[s] \in {"waiting", "poll"}
  /\ pc[s] = "waiting" => index[s] = 0 /\ ~burst[s]

\* What has been captured: trail and merged trail have the same commands.
TrailInv(s) ==
  s \in Merge \ Event =>
    /\ mode[s] \in {"capture", "replay", "simulate"}
    /\ index[s] <= Len(Poll(s))
    /\ mode[s] = "capture" =>
         Records(trail[s], Poll(s), index[s]) /\ Records(merged[s], Poll(s), index[s])
    /\ mode[s] # "capture" =>
         Records(trail[s], Poll(s), Len(Poll(s))) /\ Records(merged[s], Poll(s), Len(Poll(s)))
    /\ pc[s] \in {"poll", "busy"} => Remaining(todo[s], Poll(s), index[s])

\* What has been replayed has its answers: all of it, all but the packet under
\* way, and this one.
Arrived(s) ==
  IF s \in Merge THEN burst[s] => AllAnswered(merged[s])
  ELSE \A i \in 1 .. index[s] : trail[s][i].rx = trail[s][i].tx

ArrivedBefore(s) == s \in Merge \/ \A i \in 1 .. index[s] - 1 : trail[s][i].rx = trail[s][i].tx

LastArrived(s) ==
  IF s \in Merge THEN AllAnswered(merged[s])
  ELSE trail[s][index[s]].rx = trail[s][index[s]].tx

ReplayInv(s) ==
  /\ mode[s] = "simulate" /\ clean[s] => AllAnswered(trail[s])
  /\ mode[s] = "replay" =>
       /\ pc[s] = "wait" => IF s \in Merge THEN burst[s] ELSE index[s] > 0
       /\ pc[s] = "replay" /\ clean[s] => Arrived(s)
       /\ pc[s] = "wait" /\ clean[s] => ArrivedBefore(s)
       /\ pc[s] = "wait" /\ rx \in {"complete", "done"} => LastArrived(s)

SensorInv(s) == PlaceInv(s) /\ TrailInv(s) /\ ReplayInv(s)

Injected == \A s \in Sensor : SensorInv(s)

-----------------------------------------------------------------------------
(* Sequences of records and of commands. *)

LEMMA PollIsSteady ==
  ASSUME SteadyPolls, NEW s \in Merge \ Event
  PROVE  /\ Poll(s) \in Seq(Command) /\ Polls[s] = {Poll(s)}
         /\ Len(Poll(s)) \in Nat \ {0}
         /\ Len(Poll(s)) * RecordSize <= TrailSize /\ Len(Poll(s)) <= MergedSize
<1>1. s \in Sensor /\ Polls[s] \subseteq Seq(Command)
  BY SimulatorAssumption
<1>2. Polls[s] = {Poll(s)} /\ Len(Poll(s)) > 0
  BY DEF SteadyPolls
<1>3. Poll(s) \in Seq(Command)
  BY <1>1, <1>2
<1>4. Len(Poll(s)) \in Nat
  BY <1>3
<1> QED
  BY <1>2, <1>3, <1>4 DEF SteadyPolls

LEMMA RecordsGrow ==
  ASSUME NEW q \in Seq(Record), NEW p \in Seq(Command), NEW n \in Nat, n < Len(p),
         Records(q, p, n), NEW r \in Record, r.tx = p[n + 1]
  PROVE  Records(Append(q, r), p, n + 1)
<1>1. Len(q) = n /\ \A i \in 1 .. n : q[i].tx = p[i]
  BY DEF Records
<1>2. /\ Len(Append(q, r)) = n + 1
      /\ \A i \in 1 .. n : Append(q, r)[i] = q[i]
      /\ Append(q, r)[n + 1] = r
  BY <1>1
<1>3. \A i \in 1 .. n + 1 : i \in 1 .. n \/ i = n + 1
  OBVIOUS
<1>4. \A i \in 1 .. n + 1 : Append(q, r)[i].tx = p[i]
  BY <1>1, <1>2, <1>3
<1> QED
  BY <1>2, <1>4 DEF Records

LEMMA NextCommand ==
  ASSUME NEW p \in Seq(Command), NEW q \in Seq(Command), NEW n \in Nat,
         Remaining(q, p, n), q # <<>>
  PROVE  /\ n < Len(p) /\ Head(q) = p[n + 1] /\ Head(q) \in Command
         /\ Remaining(Tail(q), p, n + 1)
<1>1. Len(q) = Len(p) - n /\ \A i \in 1 .. Len(q) : q[i] = p[n + i]
  BY DEF Remaining
<1>2. Len(q) \in Nat /\ Len(q) > 0 /\ Len(p) \in Nat
  OBVIOUS
<1>3. Head(q) = q[1] /\ Head(q) \in Command
  OBVIOUS
<1>4. Len(Tail(q)) = Len(q) - 1 /\ \A i \in 1 .. Len(q) - 1 : Tail(q)[i] = q[i + 1]
  OBVIOUS
<1>5. \A i \in 1 .. Len(q) - 1 : i + 1 \in 1 .. Len(q) /\ n + (i + 1) = (n + 1) + i
  BY <1>2
<1>6. \A i \in 1 .. Len(q) - 1 : Tail(q)[i] = p[(n + 1) + i]
  BY <1>1, <1>4, <1>5
<1>7. Remaining(Tail(q), p, n + 1)
  BY <1>1, <1>2, <1>4, <1>6 DEF Remaining
<1> QED
  BY <1>1, <1>2, <1>3, <1>7

LEMMA WholePollRemains ==
  ASSUME NEW p \in Seq(Command)
  PROVE  Remaining(p, p, 0)
BY DEF Remaining

\* New answers leave the commands of the records.
LEMMA SameCommands ==
  ASSUME NEW q \in Seq(Record), NEW p \in Seq(Command), NEW n \in Nat, Records(q, p, n)
  PROVE  Records(Unanswered(q), p, n) /\ Records(Answered(q), p, n)
<1>1. Len(q) = n /\ DOMAIN q = 1 .. n /\ \A i \in 1 .. n : q[i].tx = p[i]
  BY DEF Records
<1>2. Len(Unanswered(q)) = n /\ Len(Answered(q)) = n
  BY <1>1, UnansweredIsTrail, AnsweredIsTrail
<1>3. \A i \in 1 .. n : Unanswered(q)[i].tx = q[i].tx /\ Answered(q)[i].tx = q[i].tx
  BY <1>1 DEF Unanswered, Answered, With
<1> QED
  BY <1>1, <1>2, <1>3 DEF Records

LEMMA AnsweredIsAll ==
  ASSUME NEW q \in Seq(Record)
  PROVE  AllAnswered(Answered(q))
BY DEF AllAnswered, Answered, With

LEMMA AnswerArrives ==
  ASSUME NEW q \in Seq(Record), NEW k \in 1 .. Len(q)
  PROVE  /\ AnsweredAt(q, k)[k].rx = AnsweredAt(q, k)[k].tx
         /\ \A i \in 1 .. k - 1 : AnsweredAt(q, k)[i] = q[i]
<1>1. Len(q) \in Nat /\ DOMAIN q = 1 .. Len(q)
  OBVIOUS
<1>2. AnsweredAt(q, k)[k] = With(q[k], q[k].tx)
  BY <1>1 DEF AnsweredAt
<1>3. \A i \in 1 .. k - 1 : AnsweredAt(q, k)[i] = q[i]
  BY <1>1 DEF AnsweredAt
<1> QED
  BY <1>2, <1>3 DEF With

\* spi_split_trail gives each record the answer to its own command.
LEMMA SplitIsAnswered ==
  ASSUME TypeOK, NEW s \in Sensor, NEW p \in Seq(Command), NEW n \in Nat,
         Records(trail[s], p, n), Records(merged[s], p, n)
  PROVE  Records(Split(s), p, n) /\ (AllAnswered(merged[s]) => AllAnswered(Split(s)))
<1> DEFINE q == trail[s]
<1> DEFINE m == merged[s]
<1>1. q \in Seq(Record) /\ m \in Seq(Record)
  BY DEF TypeOK
<1>2. Len(q) = n /\ Len(m) = n /\ \A i \in 1 .. n : q[i].tx = p[i] /\ m[i].tx = p[i]
  BY DEF Records
<1>3. Len(Split(s)) = n
  BY <1>2, SplitIsTrail
<1> HIDE DEF q, m
<1>4. DOMAIN q = 1 .. n /\ DOMAIN m = 1 .. n
  BY <1>1, <1>2
<1>5. Split(s) = [i \in DOMAIN q |-> IF i \in DOMAIN m THEN With(q[i], m[i].rx) ELSE q[i]]
  BY DEF Split, q, m
<1>6. DOMAIN Split(s) = 1 .. n /\ \A i \in 1 .. n : Split(s)[i] = With(q[i], m[i].rx)
  BY <1>4, <1>5
<1>7. \A i \in 1 .. n : Split(s)[i].tx = p[i] /\ Split(s)[i].rx = m[i].rx
  BY <1>2, <1>6 DEF With
<1>8. AllAnswered(m) => AllAnswered(Split(s))
  BY <1>2, <1>4, <1>6, <1>7 DEF AllAnswered
<1> QED
  BY <1>3, <1>7, <1>8 DEF Records, m
-----------------------------------------------------------------------------
(* The steps. *)

\* What belongs to a task is left alone.
Untouched(s) ==
  /\ pc'[s] = pc[s] /\ todo'[s] = todo[s] /\ mode'[s] = mode[s] /\ index'[s] = index[s]
  /\ trail'[s] = trail[s] /\ merged'[s] = merged[s]
  /\ burst'[s] = burst[s] /\ clean'[s] = clean[s]

LEMMA UntouchedKeeps ==
  ASSUME NEW s \in Sensor, SensorInv(s), Untouched(s),
         pc[s] = "wait" => (rx' \in {"complete", "done"} => rx \in {"complete", "done"})
  PROVE  SensorInv(s)'
<1>1. PlaceInv(s)'
  BY DEF SensorInv, Untouched, PlaceInv
<1>2. TrailInv(s)'
  BY DEF SensorInv, Untouched, TrailInv
<1>3. ReplayInv(s)'
  BY DEF SensorInv, Untouched, ReplayInv, Arrived, ArrivedBefore, LastArrived, AllAnswered
<1> QED
  BY <1>1, <1>2, <1>3 DEF SensorInv

LEMMA OtherStays ==
  ASSUME TypeInv, TransferInv, NEW t \in Sensor, NEW s \in Sensor \ {t}, SensorInv(s),
         Begin(t) \/ TaskStep(t)
  PROVE  SensorInv(s)'
<1>t. /\ \A f \in {pc, todo, mode, index, trail, merged, burst, clean} : DOMAIN f = Sensor
  BY DEF TypeInv, TypeOK
<1>1. pc[s] = "waiting"
  <2>1. CASE holder = Nobody
    BY <2>1, SimulatorAssumption DEF TransferInv, HolderHasPort
  <2>2. CASE pc[t] # "waiting"
    BY <2>2, OthersWait DEF TransferInv
  <2> QED
    BY <2>1, <2>2 DEF Begin, TaskStep, Simulated, Transceive, Transceived, Reopen, PollEnds, Replay,
                      Woken, ReplayEnds, EventTransceive, EventResume
<1>2. Untouched(s)
  <2>1. CASE Begin(t)
    BY <1>t, <2>1 DEF Begin, Goto, Untouched
  <2>2. CASE Simulated(t)
    BY <1>t, <2>2 DEF Simulated, Untouched
  <2>3. CASE Transceive(t)
    BY <1>t, <2>3 DEF Transceive, Goto, Untouched
  <2>4. CASE Transceived(t)
    BY <1>t, <2>4 DEF Transceived, Capture, Goto, Untouched
  <2>5. CASE Reopen(t)
    BY <2>5 DEF Reopen, simVars, Untouched
  <2>6. CASE PollEnds(t)
    BY <1>t, <2>6 DEF PollEnds, Release, Goto, Untouched
  <2>7. CASE Replay(t)
    BY <1>t, <2>7 DEF Replay, Goto, Untouched
  <2>8. CASE Woken(t)
    BY <1>t, <2>8 DEF Woken, Goto, Untouched
  <2>9. CASE ReplayEnds(t)
    BY <1>t, <2>9 DEF ReplayEnds, Release, Goto, Untouched
  <2>10. CASE EventTransceive(t)
    BY <1>t, <2>10 DEF EventTransceive, Goto, Untouched
  <2>11. CASE EventResume(t)
    BY <1>t, <2>11 DEF EventResume, Release, Goto, Untouched
  <2> QED
    BY <2>1, <2>2, <2>3, <2>4, <2>5, <2>6, <2>7, <2>8, <2>9, <2>10, <2>11 DEF TaskStep
<1> QED
  BY <1>1, <1>2, UntouchedKeeps

\* An event sensor has nothing to replay.
LEMMA EventSensorStays ==
  ASSUME TypeInv, NEW s \in Event, SensorInv(s), Begin(s) \/ TaskStep(s)
  PROVE  SensorInv(s)'
<1>t. /\ s \in Sensor
      /\ \A f \in {pc, mode, index, burst} : DOMAIN f = Sensor
  BY SimulatorAssumption DEF TypeInv, TypeOK
<1>1. mode[s] = "disabled"
  BY DEF SensorInv, PlaceInv
<1>2. mode'[s] = "disabled"
  BY <1>1, <1>t DEF Begin, TaskStep, Simulated, Transceive, Transceived, Capture, Reopen, simVars,
     PollEnds, Replay, Woken, ReplayEnds, EventTransceive, EventResume, Release, NextMode
<1>3. pc'[s] = "waiting" => index'[s] = 0 /\ ~burst'[s]
  <2>1. CASE Release(s)
    BY <1>t, <2>1 DEF Release
  <2>2. CASE ~Release(s)
    BY <1>t, <2>2 DEF Begin, TaskStep, Simulated, Transceive, Transceived, Reopen, simVars,
       PollEnds, Replay, Woken, ReplayEnds, EventTransceive, EventResume, Goto
  <2> QED
    BY <2>1, <2>2
<1> QED
  BY <1>2, <1>3 DEF SensorInv, PlaceInv, TrailInv, ReplayInv
LEMMA BeginKeeps ==
  ASSUME TypeInv, SteadyPolls, NEW s \in Sensor \ Event, SensorInv(s), Begin(s)
  PROVE  SensorInv(s)'
<1>t. /\ pc \in [Sensor -> {"waiting", "poll", "busy", "replay", "wait", "send", "resume"}]
      /\ DOMAIN todo = Sensor /\ DOMAIN clean = Sensor
  BY DEF TypeInv, TypeOK
<1>i. PlaceInv(s) /\ TrailInv(s) /\ ReplayInv(s) /\ index[s] = 0 /\ ~burst[s]
  BY DEF SensorInv, PlaceInv, Begin
<1>u. UNCHANGED <<mode, index, trail, merged, burst>>
  BY DEF Begin
<1>1. CASE mode[s] # "replay"
  <2>1. pc'[s] = "poll" /\ todo'[s] \in Polls[s] /\ clean' = clean
    BY <1>t, <1>1 DEF Begin, Goto
  <2>2. PlaceInv(s)'
    BY <1>i, <1>u, <1>1, <2>1 DEF PlaceInv
  <2>3. TrailInv(s)'
    <3> SUFFICES ASSUME s \in Merge PROVE TrailInv(s)'
      BY DEF TrailInv
    <3>1. todo'[s] = Poll(s) /\ Poll(s) \in Seq(Command)
      BY <2>1, PollIsSteady
    <3>2. Remaining(todo'[s], Poll(s), 0)
      BY <3>1, WholePollRemains
    <3> QED
      BY <1>i, <1>u, <3>2 DEF TrailInv
  <2>4. ReplayInv(s)'
    BY <1>i, <1>u, <1>1, <2>1 DEF ReplayInv
  <2> QED
    BY <2>2, <2>3, <2>4 DEF SensorInv
<1>2. CASE mode[s] = "replay"
  <2>1. pc'[s] = "replay" /\ clean'[s] /\ todo' = todo
    BY <1>t, <1>2 DEF Begin, Goto
  <2>2. PlaceInv(s)'
    BY <1>i, <1>u, <1>2, <2>1 DEF PlaceInv
  <2>3. TrailInv(s)'
    BY <1>i, <1>u, <2>1 DEF TrailInv
  <2>4. Arrived(s)'
    BY <1>i, <1>u DEF Arrived
  <2>5. ReplayInv(s)'
    BY <1>u, <1>2, <2>1, <2>4 DEF ReplayInv
  <2> QED
    BY <2>2, <2>3, <2>5 DEF SensorInv
<1> QED
  BY <1>1, <1>2

LEMMA SimulatedKeeps ==
  ASSUME TypeInv, SteadyPolls, NEW s \in Sensor \ Event, SensorInv(s), Simulated(s)
  PROVE  SensorInv(s)'
<1>t. /\ DOMAIN todo = Sensor /\ DOMAIN index = Sensor
      /\ todo[s] \in Seq(Command) /\ index[s] \in Nat
  BY DEF TypeInv, TypeOK
<1>i. PlaceInv(s) /\ TrailInv(s) /\ ReplayInv(s)
  BY DEF SensorInv
<1>1. /\ pc[s] = "poll" /\ mode[s] = "simulate" /\ todo[s] # <<>>
      /\ todo'[s] = Tail(todo[s]) /\ index'[s] = index[s] + 1
      /\ UNCHANGED <<pc, mode, trail, merged, burst, clean>>
  BY <1>t DEF Simulated
<1>2. PlaceInv(s)'
  BY <1>i, <1>1 DEF PlaceInv
<1>3. TrailInv(s)'
  <2> SUFFICES ASSUME s \in Merge PROVE TrailInv(s)'
    BY DEF TrailInv
  <2>1. Poll(s) \in Seq(Command) /\ Remaining(todo[s], Poll(s), index[s])
    BY <1>i, <1>1, PollIsSteady DEF TrailInv
  <2>2. index[s] < Len(Poll(s)) /\ Remaining(Tail(todo[s]), Poll(s), index[s] + 1)
    BY <1>t, <1>1, <2>1, NextCommand
  <2>3. index'[s] <= Len(Poll(s))
    BY <1>t, <1>1, <2>1, <2>2
  <2>4. Remaining(todo'[s], Poll(s), index'[s])
    BY <1>1, <2>2
  <2> QED
    BY <1>i, <1>1, <2>3, <2>4 DEF TrailInv
<1>4. ReplayInv(s)'
  BY <1>i, <1>1 DEF ReplayInv
<1> QED
  BY <1>2, <1>3, <1>4 DEF SensorInv

LEMMA TransceiveKeeps ==
  ASSUME TypeInv, SteadyPolls, NEW s \in Sensor \ Event, SensorInv(s), Transceive(s)
  PROVE  SensorInv(s)'
<1>t. /\ DOMAIN pc = Sensor /\ DOMAIN mode = Sensor
      /\ todo[s] \in Seq(Command) /\ index[s] \in Nat
  BY DEF TypeInv, TypeOK
<1>i. PlaceInv(s) /\ TrailInv(s) /\ ReplayInv(s)
  BY DEF SensorInv
<1>1. /\ pc[s] = "poll" /\ pc'[s] = "busy" /\ todo[s] # <<>>
      /\ UNCHANGED <<todo, index, trail, merged, burst, clean>>
      /\ \/ mode[s] # "simulate" /\ mode' = mode
         \/ mode[s] = "simulate" /\ ~Matches(s, Head(todo[s])) /\ mode'[s] = "mismatch"
  BY <1>t DEF Transceive, Goto
<1>2. PlaceInv(s)'
  BY <1>i, <1>1 DEF PlaceInv
<1>3. ASSUME s \in Merge
      PROVE  mode[s] # "simulate"
  <2> SUFFICES ASSUME mode[s] = "simulate" PROVE Matches(s, Head(todo[s]))
    BY <1>1
  <2>1. /\ Poll(s) \in Seq(Command) /\ Remaining(todo[s], Poll(s), index[s])
        /\ Records(trail[s], Poll(s), Len(Poll(s)))
    BY <1>i, <1>1, <1>3, PollIsSteady DEF TrailInv
  <2>2. index[s] < Len(Poll(s)) /\ Head(todo[s]) = Poll(s)[index[s] + 1]
    BY <1>t, <1>1, <2>1, NextCommand
  <2>3. index[s] + 1 \in 1 .. Len(Poll(s))
    BY <1>t, <2>1, <2>2
  <2> QED
    BY <2>1, <2>2, <2>3 DEF Matches, Records
<1>4. TrailInv(s)'
  BY <1>i, <1>1, <1>3 DEF TrailInv
<1>5. ReplayInv(s)'
  BY <1>i, <1>1, <1>2 DEF ReplayInv, PlaceInv
<1> QED
  BY <1>2, <1>4, <1>5 DEF SensorInv

\* A poll that can be recorded is recorded.
LEMMA CaptureKeeps ==
  ASSUME TypeInv, SteadyPolls, NEW s \in Merge \ Event, TrailInv(s),
         mode[s] = "capture", NEW c \in Command, Capture(s, c),
         index[s] < Len(Poll(s)), c = Poll(s)[index[s] + 1]
  PROVE  /\ mode'[s] = "capture" /\ index'[s] = index[s] + 1
         /\ Records(trail'[s], Poll(s), index'[s]) /\ Records(merged'[s], Poll(s), index'[s])
<1> DEFINE record == [tx |-> c, rx |-> NoCommand]
<1>t. /\ DOMAIN mode = Sensor /\ DOMAIN index = Sensor /\ DOMAIN trail = Sensor
      /\ DOMAIN merged = Sensor /\ s \in Sensor
      /\ trail[s] \in Seq(Record) /\ merged[s] \in Seq(Record) /\ index[s] \in Nat
  BY SimulatorAssumption DEF TypeInv, TypeOK
<1>1. /\ Poll(s) \in Seq(Command) /\ Len(Poll(s)) \in Nat
      /\ Len(Poll(s)) * RecordSize <= TrailSize /\ Len(Poll(s)) <= MergedSize
  BY PollIsSteady
<1>2. Records(trail[s], Poll(s), index[s]) /\ Records(merged[s], Poll(s), index[s])
  BY DEF TrailInv
<1>3. Len(trail[s]) = index[s] /\ Len(merged[s]) = index[s]
  BY <1>2 DEF Records
<1>4. TrailFits(s) /\ MergedFits(s)
  <2>1. TrailSize \in Nat /\ MergedSize \in Nat
    BY SimulatorAssumption
  <2>2. /\ index[s] + 1 <= Len(Poll(s))
        /\ Len(Poll(s)) * 4 <= TrailSize /\ Len(Poll(s)) <= MergedSize
    BY <1>t, <1>1 DEF RecordSize
  <2>3. (index[s] + 1) * 4 <= TrailSize
    BY <1>t, <1>1, <2>1, <2>2
  <2>4. index[s] + 1 <= MergedSize
    BY <1>t, <1>1, <2>1, <2>2
  <2> QED
    BY <1>3, <2>3, <2>4 DEF TrailFits, MergedFits, RecordSize
<1>5. record \in Record /\ record.tx = c
  BY RecordFields
<1> HIDE DEF record
<1>6. SubSeq(trail[s], 1, index[s]) = trail[s]
  BY <1>t, <1>3
<1>7. /\ mode'[s] = "capture" /\ index'[s] = index[s] + 1
      /\ trail'[s] = Append(SubSeq(trail[s], 1, index[s]), record)
      /\ merged'[s] = Append(merged[s], record)
  BY <1>t, <1>4 DEF Capture, record
<1>8. /\ Records(Append(trail[s], record), Poll(s), index[s] + 1)
      /\ Records(Append(merged[s], record), Poll(s), index[s] + 1)
  BY <1>t, <1>1, <1>2, <1>5, RecordsGrow
<1> QED
  BY <1>6, <1>7, <1>8
LEMMA TransceivedKeeps ==
  ASSUME TypeInv, SteadyPolls, NEW s \in Sensor \ Event, SensorInv(s), Transceived(s)
  PROVE  SensorInv(s)'
<1>t. /\ DOMAIN pc = Sensor /\ DOMAIN todo = Sensor /\ DOMAIN mode = Sensor
      /\ todo[s] \in Seq(Command) /\ index[s] \in Nat
  BY DEF TypeInv, TypeOK
<1>i. PlaceInv(s) /\ TrailInv(s) /\ ReplayInv(s)
  BY DEF SensorInv
<1>1. /\ pc[s] = "busy" /\ pc'[s] = "poll" /\ todo[s] # <<>> /\ todo'[s] = Tail(todo[s])
      /\ Capture(s, Head(todo[s]))
  BY <1>t DEF Transceived, Goto, TypeInv, BusyHasCommand
<1>2. mode[s] \notin {"replay", "simulate"} /\ mode'[s] \notin {"replay", "simulate"}
  <2>1. mode'[s] \in {mode[s], "mismatch"}
    BY <1>t, <1>1 DEF Capture
  <2> QED
    BY <1>i, <1>1, <2>1 DEF PlaceInv
<1>3. PlaceInv(s)'
  BY <1>1, <1>2 DEF PlaceInv
<1>4. TrailInv(s)'
  <2> SUFFICES ASSUME s \in Merge PROVE TrailInv(s)'
    BY DEF TrailInv
  <2>1. mode[s] = "capture" /\ Remaining(todo[s], Poll(s), index[s])
    BY <1>i, <1>1, <1>2 DEF TrailInv
  <2>2. Poll(s) \in Seq(Command) /\ Len(Poll(s)) \in Nat
    BY PollIsSteady
  <2>3. /\ index[s] < Len(Poll(s)) /\ Head(todo[s]) = Poll(s)[index[s] + 1]
        /\ Head(todo[s]) \in Command /\ Remaining(Tail(todo[s]), Poll(s), index[s] + 1)
    BY <1>t, <1>1, <2>1, <2>2, NextCommand
  <2>4. /\ mode'[s] = "capture" /\ index'[s] = index[s] + 1
        /\ Records(trail'[s], Poll(s), index'[s]) /\ Records(merged'[s], Poll(s), index'[s])
    BY <1>i, <1>1, <2>1, <2>3, CaptureKeeps
  <2>5. index'[s] <= Len(Poll(s)) /\ Remaining(todo'[s], Poll(s), index'[s])
    BY <1>t, <1>1, <2>2, <2>3, <2>4
  <2> QED
    BY <2>4, <2>5 DEF TrailInv
<1>5. ReplayInv(s)'
  BY <1>2 DEF ReplayInv
<1> QED
  BY <1>3, <1>4, <1>5 DEF SensorInv

\* A poll that ends has been recorded to its end.
LEMMA PollEndsKeeps ==
  ASSUME TypeInv, SteadyPolls, NEW s \in Sensor \ Event, SensorInv(s), PollEnds(s)
  PROVE  SensorInv(s)'
<1>t. /\ DOMAIN pc = Sensor /\ DOMAIN mode = Sensor /\ DOMAIN index = Sensor
      /\ DOMAIN trail = Sensor /\ DOMAIN merged = Sensor
      /\ DOMAIN burst = Sensor /\ DOMAIN clean = Sensor
      /\ trail[s] \in Seq(Record) /\ merged[s] \in Seq(Record) /\ index[s] \in Nat
  BY DEF TypeInv, TypeOK
<1>i. PlaceInv(s) /\ TrailInv(s) /\ ReplayInv(s)
  BY DEF SensorInv
<1>1. /\ pc[s] = "poll" /\ pc'[s] = "waiting" /\ todo[s] = <<>> /\ todo' = todo
      /\ mode'[s] = NextMode(s) /\ index'[s] = 0 /\ ~burst'[s] /\ ~clean'[s]
      /\ trail'[s] = Unanswered(TrailAfter(s)) /\ merged'[s] = Unanswered(merged[s])
  BY <1>t DEF PollEnds, Release, Goto, MergedAfter
<1>2. PlaceInv(s)'
  BY <1>1 DEF PlaceInv
<1>3. TrailInv(s)'
  <2> SUFFICES ASSUME s \in Merge PROVE TrailInv(s)'
    BY DEF TrailInv
  <2>1. Poll(s) \in Seq(Command) /\ Len(Poll(s)) \in Nat \ {0}
    BY PollIsSteady
  <2>2. mode[s] \in {"capture", "simulate"}
    BY <1>i, <1>1 DEF TrailInv, PlaceInv
  <2>3. Remaining(<<>>, Poll(s), index[s])
    BY <1>i, <1>1 DEF TrailInv
  <2>4. index[s] = Len(Poll(s))
    BY <1>t, <2>1, <2>3 DEF Remaining
  <2>5. Records(trail[s], Poll(s), Len(Poll(s))) /\ Records(merged[s], Poll(s), Len(Poll(s)))
    BY <1>i, <2>2, <2>4 DEF TrailInv
  <2>6. trail[s] # <<>> /\ TrailAfter(s) = trail[s]
    BY <2>1, <2>2, <2>5 DEF Records, TrailAfter
  <2>7. mode'[s] = "replay"
    BY <1>1, <2>2, <2>6 DEF NextMode
  <2>8. Records(trail'[s], Poll(s), Len(Poll(s))) /\ Records(merged'[s], Poll(s), Len(Poll(s)))
    BY <1>t, <1>1, <2>1, <2>5, <2>6, SameCommands
  <2> QED
    BY <1>1, <2>1, <2>7, <2>8 DEF TrailInv
<1>4. ReplayInv(s)'
  BY <1>1 DEF ReplayInv
<1> QED
  BY <1>2, <1>3, <1>4 DEF SensorInv

\* A simulator that merges and replays has a merged trail.
LEMMA MergedIsReplayed ==
  ASSUME TypeInv, SteadyPolls, NEW s \in Sensor \ Event, TrailInv(s), mode[s] = "replay"
  PROVE  ReplaysMerged(s) <=> s \in Merge
<1>1. ASSUME s \in Merge PROVE merged[s] # <<>>
  <2>1. Len(Poll(s)) \in Nat \ {0} /\ Records(merged[s], Poll(s), Len(Poll(s)))
    BY <1>1, PollIsSteady DEF TrailInv
  <2> QED
    BY <2>1 DEF Records
<1> QED
  BY <1>1 DEF ReplaysMerged

LEMMA ReplayKeeps ==
  ASSUME TypeInv, SteadyPolls, NEW s \in Sensor \ Event, SensorInv(s), Replay(s)
  PROVE  SensorInv(s)'
<1>t. /\ DOMAIN pc = Sensor /\ DOMAIN index = Sensor /\ DOMAIN burst = Sensor
      /\ index[s] \in Nat
  BY DEF TypeInv, TypeOK
<1>i. PlaceInv(s) /\ TrailInv(s) /\ ReplayInv(s)
  BY DEF SensorInv
<1>1. /\ pc[s] = "replay" /\ pc'[s] = "wait" /\ rx' = "on" /\ ~ReplayIsOver(s)
      /\ UNCHANGED <<todo, mode, trail, merged, clean>>
  BY <1>t DEF Replay, Goto, SpiTransceive, Started, Reset
<1>2. mode[s] = "replay" /\ (ReplaysMerged(s) <=> s \in Merge)
  BY <1>i, <1>1, MergedIsReplayed DEF PlaceInv
<1>3. \/ s \in Merge /\ burst'[s] /\ index' = index
      \/ s \notin Merge /\ index'[s] = index[s] + 1 /\ burst' = burst
  BY <1>t, <1>2 DEF Replay
<1>4. PlaceInv(s)'
  BY <1>1, <1>2 DEF PlaceInv
<1>5. TrailInv(s)'
  BY <1>i, <1>1, <1>2, <1>3 DEF TrailInv
<1>6. clean[s] => ArrivedBefore(s)'
  BY <1>t, <1>i, <1>1, <1>2, <1>3 DEF ReplayInv, Arrived, ArrivedBefore
<1>7. ReplayInv(s)'
  BY <1>t, <1>1, <1>2, <1>3, <1>6 DEF ReplayInv
<1> QED
  BY <1>4, <1>5, <1>7 DEF SensorInv

\* The task is woken by the end of the reception, or by a failure.
LEMMA WokenKeeps ==
  ASSUME TypeInv, TransferInv, NEW s \in Sensor \ Event, SensorInv(s), Woken(s)
  PROVE  SensorInv(s)'
<1>t. DOMAIN pc = Sensor /\ clean \in [Sensor -> BOOLEAN] /\ index[s] \in Nat
  BY DEF TypeInv, TypeOK
<1>i. PlaceInv(s) /\ TrailInv(s) /\ ReplayInv(s)
  BY DEF SensorInv
<1>1. /\ pc[s] = "wait" /\ pc'[s] = "replay"
      /\ clean'[s] = (clean[s] /\ status = "rx complete")
      /\ UNCHANGED <<rx, todo, mode, index, trail, merged, burst>>
  BY <1>t DEF Woken, Goto
<1>2. mode[s] = "replay"
  BY <1>i, <1>1 DEF PlaceInv
<1>3. status = "rx complete" => rx = "done"
  BY <1>1 DEF TransferInv, Progress
<1>4. ASSUME clean'[s] PROVE Arrived(s)'
  <2>1. LastArrived(s) /\ ArrivedBefore(s)
    BY <1>i, <1>1, <1>2, <1>3, <1>4 DEF ReplayInv
  <2>2. CASE s \in Merge
    BY <1>1, <2>1, <2>2 DEF LastArrived, Arrived
  <2>3. CASE s \notin Merge
    <3>1. \A i \in 1 .. index[s] : i \in 1 .. index[s] - 1 \/ i = index[s]
      BY <1>t
    <3>2. \A i \in 1 .. index[s] : trail[s][i].rx = trail[s][i].tx
      BY <2>1, <2>3, <3>1 DEF LastArrived, ArrivedBefore
    <3> QED
      BY <1>1, <2>3, <3>2 DEF Arrived
  <2> QED
    BY <2>2, <2>3
<1>5. PlaceInv(s)'
  BY <1>1, <1>2 DEF PlaceInv
<1>6. TrailInv(s)'
  BY <1>i, <1>1 DEF TrailInv
<1>7. ReplayInv(s)'
  BY <1>1, <1>2, <1>4 DEF ReplayInv
<1> QED
  BY <1>5, <1>6, <1>7 DEF SensorInv
\* Each record of the trail gets its answer when all have been replayed.
LEMMA ReplayEndsKeeps ==
  ASSUME TypeInv, SteadyPolls, NEW s \in Sensor \ Event, SensorInv(s), ReplayEnds(s)
  PROVE  SensorInv(s)'
<1>t. /\ DOMAIN pc = Sensor /\ DOMAIN mode = Sensor /\ DOMAIN index = Sensor
      /\ DOMAIN trail = Sensor /\ DOMAIN merged = Sensor /\ DOMAIN burst = Sensor
      /\ trail[s] \in Seq(Record) /\ merged[s] \in Seq(Record)
      /\ index[s] \in Nat /\ index[s] <= Len(trail[s])
  BY DEF TypeInv, TypeOK, IndexInTrail
<1>i. PlaceInv(s) /\ TrailInv(s) /\ ReplayInv(s)
  BY DEF SensorInv
<1>1. /\ pc[s] = "replay" /\ pc'[s] = "waiting" /\ ReplayIsOver(s)
      /\ mode'[s] = NextMode(s) /\ index'[s] = 0 /\ ~burst'[s] /\ clean' = clean
      /\ trail'[s] = (IF ReplaysMerged(s) THEN Split(s) ELSE trail[s])
      /\ merged'[s] = Unanswered(merged[s])
  BY <1>t DEF ReplayEnds, Release, Goto, MergedAfter
<1>2. mode[s] = "replay" /\ mode'[s] = "simulate" /\ (ReplaysMerged(s) <=> s \in Merge)
  BY <1>i, <1>1, MergedIsReplayed DEF PlaceInv, NextMode
<1>3. PlaceInv(s)'
  BY <1>1, <1>2 DEF PlaceInv
<1>4. ASSUME s \in Merge
      PROVE  /\ Records(trail'[s], Poll(s), Len(Poll(s)))
             /\ Records(merged'[s], Poll(s), Len(Poll(s)))
             /\ AllAnswered(merged[s]) => AllAnswered(trail'[s])
  <2>1. Poll(s) \in Seq(Command) /\ Len(Poll(s)) \in Nat
    BY <1>4, PollIsSteady
  <2>2. Records(trail[s], Poll(s), Len(Poll(s))) /\ Records(merged[s], Poll(s), Len(Poll(s)))
    BY <1>i, <1>2, <1>4 DEF TrailInv
  <2>3. trail'[s] = Split(s)
    BY <1>1, <1>2, <1>4
  <2>4. Records(Split(s), Poll(s), Len(Poll(s))) /\ (AllAnswered(merged[s]) => AllAnswered(Split(s)))
    BY <2>1, <2>2, SplitIsAnswered DEF TypeInv
  <2>5. Records(Unanswered(merged[s]), Poll(s), Len(Poll(s)))
    BY <1>t, <2>1, <2>2, SameCommands
  <2> QED
    BY <1>1, <2>3, <2>4, <2>5
<1>5. TrailInv(s)'
  <2> SUFFICES ASSUME s \in Merge PROVE TrailInv(s)'
    BY DEF TrailInv
  <2>1. Len(Poll(s)) \in Nat
    BY PollIsSteady
  <2> QED
    BY <1>1, <1>2, <1>4, <2>1 DEF TrailInv
<1>6. ASSUME clean[s] PROVE AllAnswered(trail'[s])
  <2>1. Arrived(s)
    BY <1>i, <1>1, <1>2, <1>6 DEF ReplayInv
  <2>2. CASE s \in Merge
    BY <1>1, <1>2, <1>4, <2>1, <2>2 DEF Arrived, ReplayIsOver
  <2>3. CASE s \notin Merge
    <3>1. trail'[s] = trail[s] /\ index[s] >= Len(trail[s])
      BY <1>1, <1>2, <2>3 DEF ReplayIsOver
    <3>2. DOMAIN trail[s] = 1 .. index[s]
      <4>1. Len(trail[s]) \in Nat /\ DOMAIN trail[s] = 1 .. Len(trail[s])
        BY <1>t
      <4> QED
        BY <1>t, <3>1, <4>1
    <3> QED
      BY <2>1, <2>3, <3>1, <3>2 DEF Arrived, AllAnswered
  <2> QED
    BY <2>2, <2>3
<1>7. ReplayInv(s)'
  BY <1>1, <1>2, <1>6 DEF ReplayInv
<1> QED
  BY <1>3, <1>5, <1>7 DEF SensorInv

LEMMA TaskKeeps ==
  ASSUME TypeInv, TransferInv, SteadyPolls, Injected,
         NEW t \in Sensor, Begin(t) \/ TaskStep(t)
  PROVE  Injected'
<1>1. ASSUME NEW s \in Sensor \ {t}
      PROVE  SensorInv(s)'
  BY <1>1, OtherStays DEF Injected
<1>2. SensorInv(t)'
  <2>i. SensorInv(t)
    BY DEF Injected
  <2>1. CASE t \in Event
    BY <2>i, <2>1, EventSensorStays
  <2>2. CASE t \notin Event
    <3>1. CASE Begin(t)
      BY <2>i, <2>2, <3>1, BeginKeeps
    <3>2. CASE Simulated(t)
      BY <2>i, <2>2, <3>2, SimulatedKeeps
    <3>3. CASE Transceive(t)
      BY <2>i, <2>2, <3>3, TransceiveKeeps
    <3>4. CASE Transceived(t)
      BY <2>i, <2>2, <3>4, TransceivedKeeps
    <3>5. CASE Reopen(t)
      <4>1. Untouched(t) /\ pc[t] = "poll"
        BY <3>5 DEF Reopen, simVars, Untouched
      <4> QED
        BY <2>i, <4>1, UntouchedKeeps
    <3>6. CASE PollEnds(t)
      BY <2>i, <2>2, <3>6, PollEndsKeeps
    <3>7. CASE Replay(t)
      BY <2>i, <2>2, <3>7, ReplayKeeps
    <3>8. CASE Woken(t)
      BY <2>i, <2>2, <3>8, WokenKeeps
    <3>9. CASE ReplayEnds(t)
      BY <2>i, <2>2, <3>9, ReplayEndsKeeps
    <3>10. ~EventTransceive(t) /\ ~EventResume(t)
      <4>1. pc[t] \in {"waiting", "poll", "busy", "replay", "wait"}
        BY <2>i, <2>2 DEF SensorInv, PlaceInv
      <4> QED
        BY <4>1 DEF EventTransceive, EventResume
    <3> QED
      BY <3>1, <3>2, <3>3, <3>4, <3>5, <3>6, <3>7, <3>8, <3>9, <3>10 DEF TaskStep
  <2> QED
    BY <2>1, <2>2
<1> QED
  BY <1>1, <1>2 DEF Injected

\* The bytes received are the answer to what the task has sent last.
LEMMA ReceivedKeeps ==
  ASSUME TypeInv, TransferInv, SteadyPolls, Injected, Received, NEW s \in Sensor
  PROVE  SensorInv(s)'
<1>t. /\ DOMAIN trail = Sensor /\ DOMAIN merged = Sensor
      /\ trail[s] \in Seq(Record) /\ merged[s] \in Seq(Record)
      /\ index[s] \in Nat /\ index[s] <= Len(trail[s])
  BY DEF TypeInv, TypeOK, IndexInTrail
<1>i. PlaceInv(s) /\ TrailInv(s) /\ ReplayInv(s) /\ SensorInv(s)
  BY DEF Injected, SensorInv
<1>u. UNCHANGED <<pc, todo, mode, index, burst, clean>>
  BY DEF Received
<1>1. CASE ~Replaying(s)
  <2>1. trail'[s] = trail[s] /\ merged'[s] = merged[s]
    BY <1>t, <1>1 DEF Received
  <2>2. Untouched(s)
    BY <1>u, <2>1 DEF Untouched
  <2>3. pc[s] = "wait" => mode[s] = "disabled"
    BY <1>i, <1>1 DEF PlaceInv, Replaying
  <2>4. PlaceInv(s)' /\ TrailInv(s)'
    BY <1>i, <1>u, <2>1 DEF PlaceInv, TrailInv
  <2>5. ReplayInv(s)'
    BY <1>i, <1>u, <2>1, <2>3 DEF ReplayInv, Arrived, AllAnswered
  <2> QED
    BY <2>4, <2>5 DEF SensorInv
<1>2. CASE Replaying(s)
  <2>p. pc[s] = "wait" /\ mode[s] = "replay" /\ s \notin Event
    BY <1>i, <1>2 DEF Replaying, PlaceInv
  <2>o. \A t \in Sensor : Replaying(t) => t = s
    BY <2>p, OthersWait DEF TransferInv, Replaying
  <2>m. ReplaysMerged(s) <=> s \in Merge
    BY <1>i, <2>p, MergedIsReplayed
  <2>pl. PlaceInv(s)'
    BY <1>i, <1>u DEF PlaceInv
  <2>1. CASE s \in Merge
    <3>1. merged'[s] = Answered(merged[s]) /\ trail' = trail
      BY <1>t, <1>2, <2>o, <2>m, <2>1 DEF Received
    <3>2. AllAnswered(merged'[s])
      BY <1>t, <3>1, AnsweredIsAll
    <3>3. TrailInv(s)'
      <4>1. Poll(s) \in Seq(Command) /\ Len(Poll(s)) \in Nat
        BY <2>1, <2>p, PollIsSteady
      <4>2. Records(merged[s], Poll(s), Len(Poll(s)))
        BY <1>i, <2>p, <2>1 DEF TrailInv
      <4>3. Records(merged'[s], Poll(s), Len(Poll(s)))
        BY <1>t, <3>1, <4>1, <4>2, SameCommands
      <4> QED
        BY <1>i, <1>u, <2>p, <3>1, <4>3 DEF TrailInv
    <3>4. ReplayInv(s)'
      BY <1>i, <1>u, <2>p, <2>1, <3>2 DEF ReplayInv, ArrivedBefore, LastArrived
    <3> QED
      BY <2>pl, <3>3, <3>4 DEF SensorInv
  <2>2. CASE s \notin Merge
    <3>1. trail'[s] = AnsweredAt(trail[s], index[s]) /\ merged' = merged
      BY <1>t, <1>2, <2>o, <2>m, <2>2 DEF Received
    <3>2. index[s] \in 1 .. Len(trail[s])
      BY <1>t, <1>i, <2>p, <2>2 DEF ReplayInv
    <3>3. /\ trail'[s][index[s]].rx = trail'[s][index[s]].tx
          /\ \A i \in 1 .. index[s] - 1 : trail'[s][i] = trail[s][i]
      BY <1>t, <3>1, <3>2, AnswerArrives
    <3>4. LastArrived(s)' /\ (ArrivedBefore(s) => ArrivedBefore(s)')
      BY <1>u, <2>2, <3>3 DEF LastArrived, ArrivedBefore
    <3>5. ReplayInv(s)'
      BY <1>i, <1>u, <2>p, <2>2, <3>4 DEF ReplayInv
    <3>6. TrailInv(s)'
      BY <2>2 DEF TrailInv
    <3> QED
      BY <2>pl, <3>5, <3>6 DEF SensorInv
  <2> QED
    BY <2>1, <2>2
<1> QED
  BY <1>1, <1>2

LEMMA PortKeeps ==
  ASSUME TypeInv, TransferInv, SteadyPolls, Injected, PortStep
  PROVE  Injected'
<1>1. CASE (Hardware \/ Interrupt) /\ UNCHANGED simVars
  <2>1. rx' \in {"complete", "done"} => rx \in {"complete", "done"}
    BY <1>1 DEF Hardware, TxDone, TxFault, RxFault, Interrupt, TxCompleteInterrupt,
                TxErrorInterrupt, RxCompleteInterrupt, RxErrorInterrupt
  <2>2. \A s \in Sensor : Untouched(s)
    BY <1>1 DEF simVars, Untouched
  <2> QED
    BY <2>1, <2>2, UntouchedKeeps DEF Injected
<1>2. CASE Received
  BY <1>2, ReceivedKeeps DEF Injected
<1> QED
  BY <1>1, <1>2 DEF PortStep

LEMMA InjectedInit ==
  ASSUME SteadyPolls, Init
  PROVE  Injected
<1> SUFFICES ASSUME NEW s \in Sensor PROVE SensorInv(s)
  BY DEF Injected
<1>1. /\ pc[s] = "waiting" /\ mode[s] = (IF s \in Event THEN "disabled" ELSE "capture")
      /\ index[s] = 0 /\ trail[s] = <<>> /\ merged[s] = <<>> /\ ~burst[s] /\ ~clean[s]
  BY DEF Init
<1>2. PlaceInv(s) /\ ReplayInv(s)
  BY <1>1 DEF PlaceInv, ReplayInv
<1>3. TrailInv(s)
  BY <1>1, PollIsSteady DEF TrailInv, Records
<1> QED
  BY <1>2, <1>3 DEF SensorInv

LEMMA InjectedStep ==
  ASSUME TypeInv, TransferInv, SteadyPolls, Injected, [Next]_vars
  PROVE  Injected'
<1>1. CASE UNCHANGED vars
  <2>1. \A s \in Sensor : Untouched(s) /\ rx' = rx
    BY <1>1 DEF vars, portVars, simVars, Untouched
  <2> QED
    BY <2>1, UntouchedKeeps DEF Injected
<1>2. CASE Next
  BY <1>2, TaskKeeps, PortKeeps DEF Next
<1> QED
  BY <1>1, <1>2

\* "The Simulator injects the received SPI packets from Replay Mode"
\* (simulator.h:6): whatever has timed out or failed before, and whoever had the
\* port in between, a simulated poll is given the answers to its own commands,
\* if the last replay went well.
THEOREM InjectsTheReplayed ==
  ASSUME SteadyPolls
  PROVE  Spec => []InjectsReplayed
<1>1. Init => Injected
  BY InjectedInit
<1>2. TypeInv /\ TransferInv /\ Injected /\ [Next]_vars => Injected'
  BY InjectedStep
<1>3. Injected => InjectsReplayed
  BY DEF Injected, SensorInv, ReplayInv, AllAnswered, InjectsReplayed
<1> QED
  BY <1>1, <1>2, <1>3, Transfers, PTL DEF Spec

=============================================================================
