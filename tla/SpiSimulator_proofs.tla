------------------------- MODULE SpiSimulator_proofs -------------------------
(***************************************************************************)
(* Proofs about SpiSimulator and its port, for any sensors, polls, faults  *)
(* and trail sizes.  The invariant says who has the port and how far the   *)
(* transfer under way has got.                                             *)
(***************************************************************************)
EXTENDS SpiSimulator, SequenceTheorems, TLAPS

\* What has been processed of a trail is in it.
IndexInTrail == \A s \in Sensor : index[s] <= Len(trail[s])

\* A driver waits for the end of one of its commands.
BusyHasCommand == \A s \in Sensor : pc[s] = "busy" => todo[s] # <<>>

TypeInv == TypeOK /\ IndexInTrail /\ BusyHasCommand

-----------------------------------------------------------------------------
(* Sequences of records. *)

LEMMA RecordFields ==
  /\ \A c \in Command : [tx |-> c, rx |-> NoCommand] \in Record
  /\ \A r \in Record : r.tx \in Command /\ r.rx \in Command \cup {NoCommand}
  /\ \A r \in Record : \A a \in Command \cup {NoCommand} : With(r, a) \in Record
BY DEF Record, With

LEMMA UnansweredIsTrail ==
  ASSUME NEW q \in Seq(Record)
  PROVE  Unanswered(q) \in Seq(Record) /\ Len(Unanswered(q)) = Len(q)
<1>1. Len(q) \in Nat /\ DOMAIN q = 1 .. Len(q) /\ \A i \in 1 .. Len(q) : q[i] \in Record
  OBVIOUS
<1>2. DOMAIN Unanswered(q) = 1 .. Len(q) /\ \A i \in 1 .. Len(q) : Unanswered(q)[i] \in Record
  BY <1>1, RecordFields DEF Unanswered
<1> QED
  BY <1>1, <1>2 DEF Unanswered

LEMMA AnsweredIsTrail ==
  ASSUME NEW q \in Seq(Record)
  PROVE  Answered(q) \in Seq(Record) /\ Len(Answered(q)) = Len(q)
<1>1. Len(q) \in Nat /\ DOMAIN q = 1 .. Len(q) /\ \A i \in 1 .. Len(q) : q[i] \in Record
  OBVIOUS
<1>2. DOMAIN Answered(q) = 1 .. Len(q) /\ \A i \in 1 .. Len(q) : Answered(q)[i] \in Record
  BY <1>1, RecordFields DEF Answered
<1> QED
  BY <1>1, <1>2 DEF Answered

LEMMA AnsweredAtIsTrail ==
  ASSUME NEW q \in Seq(Record), NEW k \in Nat
  PROVE  AnsweredAt(q, k) \in Seq(Record) /\ Len(AnsweredAt(q, k)) = Len(q)
<1>1. Len(q) \in Nat /\ DOMAIN q = 1 .. Len(q) /\ \A i \in 1 .. Len(q) : q[i] \in Record
  OBVIOUS
<1>2. /\ DOMAIN AnsweredAt(q, k) = 1 .. Len(q)
      /\ \A i \in 1 .. Len(q) : AnsweredAt(q, k)[i] \in Record
  BY <1>1, RecordFields DEF AnsweredAt
<1> QED
  BY <1>1, <1>2 DEF AnsweredAt

LEMMA SplitIsTrail ==
  ASSUME TypeOK, NEW s \in Sensor
  PROVE  Split(s) \in Seq(Record) /\ Len(Split(s)) = Len(trail[s])
<1> DEFINE q == trail[s]
<1> DEFINE m == merged[s]
<1>1. q \in Seq(Record) /\ m \in Seq(Record)
  BY DEF TypeOK
<1>2. /\ Len(q) \in Nat /\ DOMAIN q = 1 .. Len(q) /\ \A i \in DOMAIN q : q[i] \in Record
      /\ \A i \in DOMAIN m : m[i] \in Record
  BY <1>1
<1> HIDE DEF q, m
<1>3. Split(s) = [i \in DOMAIN q |-> IF i \in DOMAIN m THEN With(q[i], m[i].rx) ELSE q[i]]
  BY DEF Split, q, m
<1>4. DOMAIN Split(s) = 1 .. Len(q) /\ \A i \in 1 .. Len(q) : Split(s)[i] \in Record
  BY <1>2, <1>3, RecordFields
<1>5. Split(s) = [i \in 1 .. Len(q) |-> Split(s)[i]]
  BY <1>2, <1>3, <1>4
<1>6. Split(s) \in Seq(Record) /\ Len(Split(s)) = Len(q)
  BY <1>2, <1>4, <1>5
<1> QED
  BY <1>6 DEF q

-----------------------------------------------------------------------------
(* Types. *)

LEMMA PortTypes ==
  ASSUME PortTypeOK,
         \/ SpiOpen \/ SpiClose \/ SpiTimeout \/ RxDone \/ Hardware \/ Interrupt
         \/ \E longer \in BOOLEAN, sem \in Sensor \cup {NoSem} : SpiTransceive(longer, sem)
  PROVE  PortTypeOK'
<1> USE DEF PortTypeOK, Status, Channel
<1>1. CASE SpiOpen
  BY <1>1 DEF SpiOpen, Unclocked
<1>2. CASE SpiClose
  BY <1>2 DEF SpiClose
<1>3. CASE SpiTimeout
  BY <1>3 DEF SpiTimeout
<1>4. CASE RxDone \/ Hardware
  BY <1>4 DEF RxDone, Hardware, TxDone, TxFault, RxFault
<1>5. CASE Interrupt
  <2>1. \A x \in Sensor \cup {NoSem} : Signalled(x) \in [Sensor -> {0, 1}]
    BY DEF Signalled
  <2>2. \A x \in Status : NextStatus(x) \in Status
    BY DEF NextStatus
  <2>3. CASE TxCompleteInterrupt
    BY <2>2, <2>3 DEF TxCompleteInterrupt
  <2>4. CASE TxErrorInterrupt
    BY <2>1, <2>4 DEF TxErrorInterrupt, EndReception, Erased
  <2>5. CASE RxCompleteInterrupt
    BY <2>1, <2>2, <2>5 DEF RxCompleteInterrupt, EndReception, Erased
  <2>6. CASE RxErrorInterrupt
    BY <2>1, <2>6 DEF RxErrorInterrupt, EndReception, Erased
  <2> QED
    BY <1>5, <2>3, <2>4, <2>5, <2>6 DEF Interrupt
<1>6. ASSUME NEW longer \in BOOLEAN, NEW sem \in Sensor \cup {NoSem}, SpiTransceive(longer, sem)
      PROVE  PortTypeOK'
  BY <1>6 DEF SpiTransceive, Started, Reset
<1> QED
  BY <1>1, <1>2, <1>3, <1>4, <1>5, <1>6

\* What a task leaves when it gives the port back.
LEMMA ReleaseTypes ==
  ASSUME TypeOK, NEW s \in Sensor, Release(s)
  PROVE  /\ holder' = Nobody
         /\ pc' \in [Sensor -> {"waiting", "poll", "busy", "replay", "wait", "send", "resume"}]
         /\ mode' \in [Sensor -> Mode] /\ index' \in [Sensor -> Nat]
         /\ merged' \in [Sensor -> Seq(Record)] /\ burst' \in [Sensor -> BOOLEAN]
<1>1. NextMode(s) \in Mode
  BY DEF TypeOK, NextMode, Mode
<1>2. MergedAfter(s) \in Seq(Record)
  BY UnansweredIsTrail DEF TypeOK, MergedAfter
<1> QED
  BY <1>1, <1>2 DEF TypeOK, Release, Goto

LEMMA TypeInit ==
  Init => TypeInv
<1> SUFFICES ASSUME Init PROVE TypeInv
  OBVIOUS
<1>1. PortTypeOK
  BY DEF Init, PortInit, PortTypeOK, Status, Channel
<1>2. TypeOK
  BY <1>1 DEF Init, TypeOK, Mode
<1>3. IndexInTrail /\ BusyHasCommand
  BY DEF Init, IndexInTrail, BusyHasCommand
<1> QED
  BY <1>2, <1>3 DEF TypeInv

LEMMA CaptureTypes ==
  ASSUME TypeInv, NEW s \in Sensor, NEW c \in Command, Capture(s, c)
  PROVE  /\ mode' \in [Sensor -> Mode] /\ index' \in [Sensor -> Nat]
         /\ trail' \in [Sensor -> Seq(Record)] /\ merged' \in [Sensor -> Seq(Record)]
         /\ IndexInTrail'
<1> DEFINE record == [tx |-> c, rx |-> NoCommand]
<1> DEFINE longer == Append(SubSeq(trail[s], 1, index[s]), record)
<1>1. record \in Record
  BY RecordFields
<1>2. trail[s] \in Seq(Record) /\ merged[s] \in Seq(Record) /\ index[s] \in 0 .. Len(trail[s])
  BY DEF TypeInv, TypeOK, IndexInTrail
<1> HIDE DEF record
<1>3. longer \in Seq(Record) /\ Len(longer) = index[s] + 1 /\ Append(merged[s], record) \in Seq(Record)
  BY <1>1, <1>2
<1> HIDE DEF longer
<1>4. CASE mode[s] = "capture" /\ TrailFits(s)
  <2>1. trail' = [trail EXCEPT ![s] = longer] /\ index' = [index EXCEPT ![s] = @ + 1]
    BY <1>4 DEF Capture, record, longer
  <2>2. \/ merged' = [merged EXCEPT ![s] = Append(@, record)] /\ mode' = mode
        \/ merged' = merged /\ mode' = [mode EXCEPT ![s] = "mismatch"]
    BY <1>4 DEF Capture, record
  <2>3. trail' \in [Sensor -> Seq(Record)] /\ index' \in [Sensor -> Nat] /\ IndexInTrail'
    BY <1>2, <1>3, <2>1 DEF TypeInv, TypeOK, IndexInTrail
  <2>4. merged' \in [Sensor -> Seq(Record)] /\ mode' \in [Sensor -> Mode]
    BY <1>3, <2>2 DEF TypeInv, TypeOK, Mode
  <2> QED
    BY <2>3, <2>4
<1>5. CASE ~(mode[s] = "capture" /\ TrailFits(s))
  BY <1>5 DEF Capture, TypeInv, TypeOK, Mode, IndexInTrail
<1> QED
  BY <1>4, <1>5

\* Steps that leave the trails alone.
LEMMA SameTrails ==
  ASSUME TypeInv, UNCHANGED <<index, trail>>
  PROVE  IndexInTrail'
BY DEF TypeInv, IndexInTrail

LEMMA TypeTask ==
  ASSUME TypeInv, NEW s \in Sensor, Begin(s) \/ TaskStep(s)
  PROVE  TypeInv'
<1> USE SensorAssumption, SimulatorAssumption
<1>t. TypeOK /\ PortTypeOK /\ IndexInTrail /\ BusyHasCommand
  BY DEF TypeInv, TypeOK
<1>1. CASE Begin(s)
  <2>1. PortTypeOK'
    BY <1>t, <1>1, PortTypes DEF Begin
  <2>2. todo' \in [Sensor -> Seq(Command)]
    <3>1. \A poll \in Polls[s] : poll \in Seq(Command)
      OBVIOUS
    <3> QED
      BY <1>t, <1>1, <3>1 DEF Begin, TypeOK
  <2>3. TypeOK'
    <3>1. \E place \in {"replay", "send", "poll"} : pc' = [pc EXCEPT ![s] = place]
      BY <1>1 DEF Begin, Goto
    <3>2. pc' \in [Sensor -> {"waiting", "poll", "busy", "replay", "wait", "send", "resume"}]
      BY <1>t, <3>1 DEF TypeOK
    <3>3. clean' \in [Sensor -> BOOLEAN]
      BY <1>t, <1>1 DEF Begin, TypeOK
    <3> QED
      BY <1>t, <1>1, <2>1, <2>2, <3>2, <3>3 DEF Begin, TypeOK
  <2>4. BusyHasCommand'
    BY <1>t, <1>1 DEF Begin, Goto, TypeOK, BusyHasCommand
  <2> QED
    BY <1>1, <2>3, <2>4, SameTrails DEF Begin, TypeInv
<1>2. CASE Simulated(s)
  <2>1. PortTypeOK'
    BY <1>t, <1>2 DEF Simulated, PortTypeOK, Status
  <2>2. todo[s] \in Seq(Command) /\ todo[s] # <<>> /\ pc[s] = "poll" /\ index[s] < Len(trail[s])
    BY <1>t, <1>2 DEF Simulated, Matches, TypeOK
  <2>3. Tail(todo[s]) \in Seq(Command)
    BY <2>2
  <2>4. /\ todo' = [todo EXCEPT ![s] = Tail(@)] /\ index' = [index EXCEPT ![s] = @ + 1]
        /\ UNCHANGED <<holder, pc, mode, trail, merged, burst, clean>>
    BY <1>2 DEF Simulated
  <2>5. todo' \in [Sensor -> Seq(Command)] /\ index' \in [Sensor -> Nat]
    BY <1>t, <2>3, <2>4 DEF TypeOK
  <2>6. TypeOK'
    BY <1>t, <2>1, <2>4, <2>5 DEF TypeOK
  <2>7. BusyHasCommand'
    BY <1>t, <2>2, <2>4 DEF TypeOK, BusyHasCommand
  <2>8. IndexInTrail'
    BY <1>t, <2>2, <2>4 DEF TypeOK, IndexInTrail
  <2> QED
    BY <2>6, <2>7, <2>8 DEF TypeInv
<1>3. CASE Transceive(s)
  <2>1. PortTypeOK'
    BY <1>t, <1>3, PortTypes DEF Transceive
  <2>2. TypeOK'
    <3>1. pc' \in [Sensor -> {"waiting", "poll", "busy", "replay", "wait", "send", "resume"}]
      BY <1>t, <1>3 DEF Transceive, Goto, TypeOK
    <3>2. mode' \in [Sensor -> Mode]
      BY <1>t, <1>3 DEF Transceive, TypeOK, Mode
    <3> QED
      BY <1>t, <1>3, <2>1, <3>1, <3>2 DEF Transceive, TypeOK
  <2>3. BusyHasCommand'
    BY <1>t, <1>3 DEF Transceive, Goto, TypeOK, BusyHasCommand
  <2> QED
    BY <1>3, <2>2, <2>3, SameTrails DEF Transceive, TypeInv
<1>4. CASE Transceived(s)
  <2>1. PortTypeOK'
    <3>1. CASE UNCHANGED portVars
      BY <1>t, <3>1 DEF PortTypeOK, portVars
    <3>2. CASE SpiTimeout
      BY <1>t, <3>2, PortTypes
    <3> QED
      BY <1>4, <3>1, <3>2 DEF Transceived
  <2>2. todo[s] \in Seq(Command) /\ todo[s] # <<>>
    BY <1>t, <1>4 DEF Transceived, BusyHasCommand, TypeOK
  <2>3. Head(todo[s]) \in Command /\ Tail(todo[s]) \in Seq(Command)
    BY <2>2
  <2>4. Capture(s, Head(todo[s])) /\ todo' = [todo EXCEPT ![s] = Tail(@)]
    BY <1>4 DEF Transceived
  <2>5. /\ mode' \in [Sensor -> Mode] /\ index' \in [Sensor -> Nat]
        /\ trail' \in [Sensor -> Seq(Record)] /\ merged' \in [Sensor -> Seq(Record)]
        /\ IndexInTrail'
    BY <2>3, <2>4, CaptureTypes
  <2>6. todo' \in [Sensor -> Seq(Command)]
    BY <1>t, <2>3, <2>4 DEF TypeOK
  <2>7. TypeOK' /\ BusyHasCommand'
    BY <1>t, <1>4, <2>1, <2>4, <2>5, <2>6 DEF Transceived, Goto, TypeOK, BusyHasCommand
  <2> QED
    BY <2>5, <2>7 DEF TypeInv
<1>5. CASE Reopen(s)
  <2>1. PortTypeOK'
    BY <1>t, <1>5, PortTypes DEF Reopen
  <2>2. TypeOK' /\ BusyHasCommand'
    BY <1>t, <1>5, <2>1 DEF Reopen, simVars, TypeOK, BusyHasCommand
  <2> QED
    BY <1>5, <2>2, SameTrails DEF Reopen, simVars, TypeInv
<1>6. CASE PollEnds(s)
  <2>1. PortTypeOK'
    BY <1>t, <1>6, PortTypes DEF PollEnds
  <2>2. Unanswered(TrailAfter(s)) \in Seq(Record)
    <3>1. TrailAfter(s) \in Seq(Record)
      BY <1>t DEF TrailAfter, TypeOK
    <3> QED
      BY <3>1, UnansweredIsTrail
  <2>3. trail' \in [Sensor -> Seq(Record)]
    BY <1>t, <1>6, <2>2 DEF PollEnds, TypeOK
  <2>4. TypeOK'
    BY <1>t, <1>6, <2>1, <2>3, ReleaseTypes DEF PollEnds, TypeOK
  <2>5. index' = [index EXCEPT ![s] = 0] /\ trail' = [trail EXCEPT ![s] = Unanswered(TrailAfter(s))]
    BY <1>6 DEF PollEnds, Release
  <2>6. IndexInTrail'
    BY <1>t, <2>2, <2>5 DEF IndexInTrail, TypeOK
  <2>7. BusyHasCommand'
    BY <1>t, <1>6 DEF PollEnds, Release, Goto, BusyHasCommand, TypeOK
  <2> QED
    BY <2>4, <2>6, <2>7 DEF TypeInv
<1>7. CASE Replay(s)
  <2>1. PortTypeOK'
    BY <1>t, <1>7, PortTypes DEF Replay
  <2>2. /\ UNCHANGED <<holder, todo, mode, trail, merged, clean>>
        /\ pc' = [pc EXCEPT ![s] = "wait"]
        /\ \/ burst' = [burst EXCEPT ![s] = TRUE] /\ index' = index
           \/ /\ index' = [index EXCEPT ![s] = @ + 1] /\ burst' = burst
              /\ ~(index[s] >= Len(trail[s]))
    BY <1>7 DEF Replay, ReplayIsOver, Goto
  <2>3. /\ index' \in [Sensor -> Nat] /\ burst' \in [Sensor -> BOOLEAN]
        /\ IndexInTrail'
    <3>1. index \in [Sensor -> Nat] /\ burst \in [Sensor -> BOOLEAN] /\ UNCHANGED trail
      BY <1>t, <2>2 DEF TypeOK
    <3>2. \A t \in Sensor : Len(trail[t]) \in Nat
      BY <1>t DEF TypeOK
    <3>3. CASE burst' = [burst EXCEPT ![s] = TRUE] /\ index' = index
      BY <1>t, <3>1, <3>3 DEF IndexInTrail
    <3>4. CASE /\ index' = [index EXCEPT ![s] = @ + 1] /\ burst' = burst
               /\ ~(index[s] >= Len(trail[s]))
      BY <1>t, <3>1, <3>2, <3>4 DEF IndexInTrail
    <3> QED
      BY <2>2, <3>3, <3>4
  <2>4. pc' \in [Sensor -> {"waiting", "poll", "busy", "replay", "wait", "send", "resume"}]
    BY <1>t, <2>2 DEF TypeOK
  <2>5. TypeOK' /\ BusyHasCommand'
    BY <1>t, <2>1, <2>2, <2>3, <2>4 DEF TypeOK, BusyHasCommand
  <2> QED
    BY <2>3, <2>5 DEF TypeInv
<1>8. CASE Woken(s)
  <2>1. PortTypeOK'
    BY <1>t, <1>8 DEF Woken, PortTypeOK
  <2>2. TypeOK'
    <3>1. pc' \in [Sensor -> {"waiting", "poll", "busy", "replay", "wait", "send", "resume"}]
      BY <1>t, <1>8 DEF Woken, Goto, TypeOK
    <3>2. clean' \in [Sensor -> BOOLEAN]
      BY <1>t, <1>8 DEF Woken, TypeOK
    <3> QED
      BY <1>t, <1>8, <2>1, <3>1, <3>2 DEF Woken, TypeOK
  <2>3. BusyHasCommand'
    BY <1>t, <1>8 DEF Woken, Goto, TypeOK, BusyHasCommand
  <2> QED
    BY <1>8, <2>2, <2>3, SameTrails DEF Woken, TypeInv
<1>9. CASE ReplayEnds(s)
  <2>1. PortTypeOK'
    BY <1>t, <1>9, PortTypes DEF ReplayEnds
  <2>2. /\ trail' \in [Sensor -> Seq(Record)]
        /\ \A t \in Sensor : Len(trail'[t]) = Len(trail[t])
    <3>1. Split(s) \in Seq(Record) /\ Len(Split(s)) = Len(trail[s])
      BY <1>t, SplitIsTrail
    <3> QED
      BY <1>t, <1>9, <3>1 DEF ReplayEnds, TypeOK
  <2>3. TypeOK'
    BY <1>t, <1>9, <2>1, <2>2, ReleaseTypes DEF ReplayEnds, TypeOK
  <2>4. index' = [index EXCEPT ![s] = 0]
    BY <1>9 DEF ReplayEnds, Release
  <2>5. IndexInTrail'
    BY <1>t, <2>2, <2>4 DEF IndexInTrail, TypeOK
  <2>6. BusyHasCommand'
    BY <1>t, <1>9 DEF ReplayEnds, Release, Goto, BusyHasCommand, TypeOK
  <2> QED
    BY <2>3, <2>5, <2>6 DEF TypeInv
<1>10. CASE EventTransceive(s)
  <2>1. PortTypeOK'
    <3>1. CASE Head(todo[s]) \in Longer
      <4>1. (Head(todo[s]) \in Longer) = TRUE
        BY <3>1
      <4>2. SpiTransceive(TRUE, s)
        BY <1>10, <4>1, Zenon DEF EventTransceive
      <4> QED
        BY <1>t, <4>2, PortTypes
    <3>2. CASE Head(todo[s]) \notin Longer
      <4>1. (Head(todo[s]) \in Longer) = FALSE
        BY <3>2
      <4>2. SpiTransceive(FALSE, s)
        BY <1>10, <4>1, Zenon DEF EventTransceive
      <4> QED
        BY <1>t, <4>2, PortTypes
    <3> QED
      BY <3>1, <3>2
  <2>2. TypeOK' /\ BusyHasCommand'
    BY <1>t, <1>10, <2>1 DEF EventTransceive, Goto, TypeOK, BusyHasCommand
  <2> QED
    BY <1>10, <2>2, SameTrails DEF EventTransceive, TypeInv
<1>11. CASE EventResume(s)
  <2>1. CASE Complete /\ SpiClose
    <3>1. PortTypeOK'
      BY <1>t, <2>1, PortTypes
    <3>2. Release(s) /\ todo' = [todo EXCEPT ![s] = <<>>] /\ UNCHANGED <<trail, clean>>
      BY <1>11, <2>1 DEF EventResume
    <3>3. /\ holder' = Nobody
          /\ pc' \in [Sensor -> {"waiting", "poll", "busy", "replay", "wait", "send", "resume"}]
          /\ mode' \in [Sensor -> Mode] /\ index' \in [Sensor -> Nat]
          /\ merged' \in [Sensor -> Seq(Record)] /\ burst' \in [Sensor -> BOOLEAN]
      BY <1>t, <3>2, ReleaseTypes
    <3>4. todo' \in [Sensor -> Seq(Command)]
      BY <1>t, <3>2 DEF TypeOK
    <3>5. TypeOK'
      BY <1>t, <3>1, <3>2, <3>3, <3>4 DEF TypeOK
    <3>6. \A t \in Sensor : Len(trail[t]) \in Nat
      BY <1>t DEF TypeOK
    <3>7. BusyHasCommand' /\ IndexInTrail'
      BY <1>t, <3>2, <3>6 DEF Release, Goto, BusyHasCommand, IndexInTrail, TypeOK
    <3> QED
      BY <3>5, <3>7 DEF TypeInv
  <2>2. CASE ~Complete
    <3>1. PortTypeOK'
      BY <1>t, <1>11, <2>2 DEF EventResume, portVars, PortTypeOK
    <3>2. pc' \in [Sensor -> {"waiting", "poll", "busy", "replay", "wait", "send", "resume"}]
      BY <1>t, <1>11, <2>2 DEF EventResume, Goto, TypeOK
    <3>3. TypeOK'
      BY <1>t, <1>11, <2>2, <3>1, <3>2 DEF EventResume, TypeOK
    <3>4. BusyHasCommand'
      BY <1>t, <1>11, <2>2 DEF EventResume, Goto, TypeOK, BusyHasCommand
    <3> QED
      BY <1>11, <2>2, <3>3, <3>4, SameTrails DEF EventResume, TypeInv
  <2> QED
    BY <1>11, <2>1, <2>2 DEF EventResume
<1> QED
  BY <1>1, <1>2, <1>3, <1>4, <1>5, <1>6, <1>7, <1>8, <1>9, <1>10, <1>11 DEF TaskStep

LEMMA TypePort ==
  ASSUME TypeInv, PortStep
  PROVE  TypeInv'
<1>t. TypeOK /\ PortTypeOK /\ IndexInTrail /\ BusyHasCommand
  BY DEF TypeInv, TypeOK
<1>1. CASE (Hardware \/ Interrupt) /\ UNCHANGED simVars
  <2>1. PortTypeOK'
    BY <1>t, <1>1, PortTypes
  <2> QED
    BY <1>t, <1>1, <2>1 DEF simVars, TypeInv, TypeOK, IndexInTrail, BusyHasCommand
<1>2. CASE Received
  <2>1. PortTypeOK'
    BY <1>t, <1>2, PortTypes DEF Received
  <2> DEFINE Kept == /\ trail' \in [Sensor -> Seq(Record)] /\ merged' \in [Sensor -> Seq(Record)]
                     /\ \A s \in Sensor : Len(trail'[s]) = Len(trail[s])
  <2>2. Kept
    <3>1. ASSUME NEW s \in Sensor, merged' = [merged EXCEPT ![s] = Answered(@)], UNCHANGED trail
          PROVE  Kept
      BY <1>t, <3>1, AnsweredIsTrail DEF TypeOK
    <3>2. ASSUME NEW s \in Sensor, trail' = [trail EXCEPT ![s] = AnsweredAt(@, index[s])], UNCHANGED merged
          PROVE  Kept
      <4>1. AnsweredAt(trail[s], index[s]) \in Seq(Record)
        BY <1>t, AnsweredAtIsTrail DEF TypeOK
      <4>2. Len(AnsweredAt(trail[s], index[s])) = Len(trail[s])
        BY <1>t, AnsweredAtIsTrail DEF TypeOK
      <4> QED
        BY <1>t, <3>2, <4>1, <4>2 DEF TypeOK
    <3> QED
      BY <1>t, <1>2, <3>1, <3>2 DEF Received, TypeOK
  <2> QED
    BY <1>t, <1>2, <2>1, <2>2 DEF Received, TypeInv, TypeOK, IndexInTrail, BusyHasCommand
<1> QED
  BY <1>1, <1>2 DEF PortStep

LEMMA TypeStep ==
  TypeInv /\ [Next]_vars => TypeInv'
<1> SUFFICES ASSUME TypeInv, [Next]_vars PROVE TypeInv'
  OBVIOUS
<1>1. CASE UNCHANGED vars
  BY <1>1 DEF vars, portVars, simVars, TypeInv, TypeOK, PortTypeOK, IndexInTrail, BusyHasCommand
<1>2. CASE Next
  BY <1>2, TypeTask, TypePort DEF Next
<1> QED
  BY <1>1, <1>2

\* The variables keep their types, whatever the tasks, the DMA and the
\* interrupts do in between.
THEOREM TypeCorrect == Spec => []TypeOK
<1>1. Spec => []TypeInv
  BY TypeInit, TypeStep, PTL DEF Spec
<1>2. TypeInv => TypeOK
  BY DEF TypeInv
<1> QED
  BY <1>1, <1>2, PTL

-----------------------------------------------------------------------------
(* The transfer under way. *)

\* How far it has got: the status counts the completions that were handled, a
\* reception ends after the last byte was fetched for sending.
Progress ==
  /\ tx # "off" /\ rx # "off"
  /\ rx \in {"complete", "done"} => tx \in {"complete", "done"} /\ ~remainder
  /\ tx = "done" => ~remainder
  /\ status = "none" => tx \notin {"done", "failed"} /\ rx \notin {"done", "failed"}
  /\ status = "tx complete" =>
       tx # "failed" /\ rx # "failed" /\ (tx = "done" <=> rx # "done")
  /\ status = "rx complete" => tx = "done" /\ rx = "done"

\* The task still waits for the signal, which the reception's end will bring.
Unsignalled(s) ==
  /\ token[s] = 0 /\ rxSem = s
  /\ status \in {"none", "tx complete"}
  /\ rx \notin {"done", "failed"}

\* It has been signalled, by the reception's end or a failure.
HasToken(s) ==
  /\ token[s] = 1 /\ rxSem = NoSem
  /\ status # "none"
  /\ status = "tx complete" => rx = "done"

HolderHasPort == \A s \in Sensor : pc[s] # "waiting" => holder = s /\ irq

TransferInv ==
  /\ HolderHasPort
  /\ \A s \in Sensor : pc[s] \in {"busy", "wait"} => Progress
  /\ \A s \in Sensor : pc[s] = "wait" => Unsignalled(s) \/ HasToken(s)
  /\ \A s \in Sensor : pc[s] # "wait" => token[s] = 0 /\ rxSem # s
  /\ \A s \in Sensor : pc[s] = "resume" => Complete

\* A task that has its token is no longer registered with the port.
LEMMA SignalledOnce ==
  ASSUME TransferInv, NEW s \in Sensor, token[s] = 1
  PROVE  pc[s] = "wait" /\ HasToken(s) /\ Progress
<1>1. token[s] # 0
  OBVIOUS
<1>2. pc[s] = "wait"
  BY <1>1 DEF TransferInv
<1>3. (Unsignalled(s) \/ HasToken(s)) /\ Progress
  BY <1>2 DEF TransferInv
<1>4. ~Unsignalled(s)
  BY <1>1 DEF Unsignalled
<1> QED
  BY <1>2, <1>3, <1>4

\* Only one task has the port.
LEMMA OthersWait ==
  ASSUME HolderHasPort, NEW s \in Sensor, pc[s] # "waiting"
  PROVE  irq /\ \A t \in Sensor \ {s} : pc[t] = "waiting"
BY DEF HolderHasPort

\* What is to be shown after a step of task s, which moves on to pc'[s].
LEMMA TaskMoves ==
  ASSUME TransferInv, NEW s \in Sensor,
         \A t \in Sensor \ {s} : pc[t] = "waiting" /\ pc'[t] = "waiting",
         \A t \in Sensor \ {s} : token'[t] = token[t] /\ rxSem' # t,
         pc'[s] # "waiting" => holder' = s /\ irq',
         pc'[s] \in {"busy", "wait"} => Progress',
         pc'[s] = "wait" => Unsignalled(s)' \/ HasToken(s)',
         pc'[s] # "wait" => token'[s] = 0 /\ rxSem' # s,
         pc'[s] = "resume" => Complete'
  PROVE  TransferInv'
BY DEF TransferInv, HolderHasPort, Unsignalled, HasToken

LEMMA TransferInit ==
  Init => TransferInv
BY SensorAssumption DEF Init, PortInit, TransferInv, HolderHasPort

LEMMA TransferTask ==
  ASSUME TypeInv, TransferInv, NEW s \in Sensor, Begin(s) \/ TaskStep(s)
  PROVE  TransferInv'
<1> USE SensorAssumption, SimulatorAssumption
<1>t. /\ pc \in [Sensor -> {"waiting", "poll", "busy", "replay", "wait", "send", "resume"}]
      /\ token \in [Sensor -> {0, 1}] /\ rxSem \in Sensor \cup {NoSem}
      /\ status \in Status
  BY DEF TypeInv, TypeOK, PortTypeOK
<1>h. HolderHasPort
  BY DEF TransferInv
<1>1. CASE Begin(s)
  <2>1. \A t \in Sensor : pc[t] = "waiting" /\ token[t] = 0
    BY <1>1, <1>h DEF Begin, HolderHasPort, TransferInv
  <2>2. holder' = s /\ irq' /\ rxSem' = NoSem /\ token' = token
    BY <1>1 DEF Begin, SpiOpen
  <2>3. /\ pc'[s] \in {"send", "poll", "replay"}
        /\ \A t \in Sensor \ {s} : pc'[t] = pc[t]
    BY <1>1, <1>t DEF Begin, Goto
  <2> QED
    BY <2>1, <2>2, <2>3, TaskMoves
<1>2. CASE Simulated(s)
  <2>1. irq /\ holder = s /\ \A t \in Sensor \ {s} : pc[t] = "waiting"
    BY <1>2, <1>h, OthersWait DEF Simulated, HolderHasPort
  <2>2. \A t \in Sensor : token[t] = 0 /\ rxSem # t
    BY <1>2, <2>1 DEF Simulated, TransferInv
  <2> QED
    BY <1>2, <2>1, <2>2, TaskMoves DEF Simulated
<1>3. CASE Transceive(s)
  <2>1. irq /\ holder = s /\ \A t \in Sensor \ {s} : pc[t] = "waiting"
    BY <1>3, <1>h, OthersWait DEF Transceive, HolderHasPort
  <2>2. \A t \in Sensor : token[t] = 0
    BY <1>3, <2>1 DEF Transceive, TransferInv
  <2>3. SpiTransceive(FALSE, NoSem) /\ pc' = [pc EXCEPT ![s] = "busy"] /\ holder' = holder
    BY <1>3 DEF Transceive, Goto
  <2>4. Progress'
    BY <2>3 DEF SpiTransceive, Started, Reset, Progress
  <2> QED
    BY <1>t, <2>1, <2>2, <2>3, <2>4, TaskMoves DEF SpiTransceive
<1>4. CASE Transceived(s)
  <2>1. irq /\ holder = s /\ \A t \in Sensor \ {s} : pc[t] = "waiting"
    BY <1>4, <1>h, OthersWait DEF Transceived, HolderHasPort
  <2>2. \A t \in Sensor : token[t] = 0 /\ rxSem # t
    BY <1>4, <2>1 DEF Transceived, TransferInv
  <2>3. token' = token /\ rxSem' = rxSem /\ irq' = irq
    BY <1>4 DEF Transceived, portVars, SpiTimeout
  <2>4. pc' = [pc EXCEPT ![s] = "poll"] /\ holder' = holder
    BY <1>4 DEF Transceived, Goto
  <2> QED
    BY <1>t, <2>1, <2>2, <2>3, <2>4, TaskMoves
<1>5. CASE Reopen(s)
  <2>1. irq /\ holder = s /\ \A t \in Sensor \ {s} : pc[t] = "waiting"
    BY <1>5, <1>h, OthersWait DEF Reopen, HolderHasPort
  <2>2. \A t \in Sensor : token[t] = 0
    BY <1>5, <2>1 DEF Reopen, TransferInv
  <2>3. pc' = pc /\ holder' = holder /\ pc[s] = "poll"
    BY <1>5 DEF Reopen, simVars
  <2>4. token' = token /\ rxSem' = NoSem /\ irq'
    BY <1>5 DEF Reopen, SpiOpen
  <2> QED
    BY <2>1, <2>2, <2>3, <2>4, TaskMoves
<1>6. CASE PollEnds(s) \/ ReplayEnds(s) \/ (EventResume(s) /\ SpiClose /\ Release(s))
  <2>1. pc[s] # "waiting" /\ pc[s] # "wait"
    BY <1>6 DEF PollEnds, ReplayEnds, EventResume
  <2>2. \A t \in Sensor \ {s} : pc[t] = "waiting"
    BY <2>1, <1>h, OthersWait
  <2>3. \A t \in Sensor : token[t] = 0
    BY <2>1, <2>2 DEF TransferInv
  <2>4. SpiClose /\ pc' = [pc EXCEPT ![s] = "waiting"]
    BY <1>6 DEF PollEnds, ReplayEnds, Release, Goto
  <2> QED
    BY <1>t, <2>2, <2>3, <2>4, TaskMoves DEF SpiClose
<1>7. CASE Replay(s) \/ EventTransceive(s)
  <2>1. pc[s] \in {"replay", "send"}
    BY <1>7 DEF Replay, EventTransceive
  <2>2. irq /\ holder = s /\ \A t \in Sensor \ {s} : pc[t] = "waiting"
    BY <2>1, <1>h, OthersWait DEF HolderHasPort
  <2>3. \A t \in Sensor : token[t] = 0
    BY <2>1, <2>2 DEF TransferInv
  <2>4. /\ status' = "none" /\ rxSem' = s /\ tx' = "on" /\ rx' = "on"
        /\ irq' = irq /\ token' = token
    BY <1>7 DEF Replay, EventTransceive, SpiTransceive, Started, Reset
  <2>5. pc' = [pc EXCEPT ![s] = "wait"] /\ holder' = holder
    BY <1>7 DEF Replay, EventTransceive, Goto
  <2>6. Progress'
    BY <2>4 DEF Progress
  <2>7. Unsignalled(s)'
    BY <2>3, <2>4 DEF Unsignalled
  <2> QED
    BY <1>t, <2>2, <2>3, <2>4, <2>5, <2>6, <2>7, TaskMoves
<1>8. CASE Woken(s)
  <2>1. irq /\ holder = s /\ \A t \in Sensor \ {s} : pc[t] = "waiting"
    BY <1>8, <1>h, OthersWait DEF Woken, HolderHasPort
  <2>2. HasToken(s) /\ Progress
    BY <1>8, SignalledOnce DEF Woken
  <2>3. Complete
    BY <1>8, <1>t, <2>1, <2>2 DEF Woken, Quiet, Flagged, HasToken, Progress, Complete, Status
  <2>4. \A t \in Sensor : token'[t] = 0 /\ rxSem' # t
    BY <1>8, <1>t, <2>1, <2>2 DEF Woken, HasToken, TransferInv
  <2>5. /\ pc'[s] \in {"resume", "replay"}
        /\ \A t \in Sensor \ {s} : pc'[t] = pc[t]
    BY <1>8, <1>t DEF Woken, Goto
  <2>6. UNCHANGED <<holder, irq, status>>
    BY <1>8 DEF Woken
  <2>7. Complete'
    BY <2>3, <2>6 DEF Complete
  <2>8. \A t \in Sensor \ {s} : token[t] = 0
    BY <2>1 DEF TransferInv
  <2> QED
    BY <2>1, <2>4, <2>5, <2>6, <2>7, <2>8, TaskMoves
<1>9. EventResume(s) => SpiClose /\ Release(s)
  BY DEF EventResume, TransferInv
<1> QED
  BY <1>1, <1>2, <1>3, <1>4, <1>5, <1>6, <1>7, <1>8, <1>9 DEF TaskStep

LEMMA TransferHardware ==
  ASSUME TypeInv, TransferInv, RxDone \/ Hardware, UNCHANGED <<pc, holder>>
  PROVE  TransferInv'
<1>1. UNCHANGED <<status, rxSem, remainder, irq, token>>
  BY DEF RxDone, Hardware, TxDone, TxFault, RxFault
<1>2. Progress => Progress'
  BY DEF Progress, RxDone, Hardware, TxDone, TxFault, RxFault
<1>3. \A s \in Sensor : (Unsignalled(s) => Unsignalled(s)') /\ (HasToken(s) => HasToken(s)')
  BY DEF Unsignalled, HasToken, RxDone, Hardware, TxDone, TxFault, RxFault
<1>4. Complete => Complete'
  BY <1>1 DEF Complete
<1> QED
  BY <1>1, <1>2, <1>3, <1>4 DEF TransferInv, HolderHasPort

LEMMA TransferInterrupt ==
  ASSUME TypeInv, TransferInv, Interrupt, UNCHANGED <<pc, holder>>
  PROVE  TransferInv'
<1>t. /\ token \in [Sensor -> {0, 1}] /\ rxSem \in Sensor \cup {NoSem}
      /\ status \in Status /\ tx \in Channel /\ rx \in Channel
  BY DEF TypeInv, TypeOK, PortTypeOK
<1>1. irq' = irq
  BY DEF Interrupt, TxCompleteInterrupt, TxErrorInterrupt, RxCompleteInterrupt, RxErrorInterrupt
<1>2. Complete => Complete'
  BY DEF Complete, Interrupt, TxCompleteInterrupt, TxErrorInterrupt, RxCompleteInterrupt,
         RxErrorInterrupt, NextStatus
<1>3. Progress => Progress'
  <2>1. CASE TxCompleteInterrupt
    BY <1>t, <2>1 DEF TxCompleteInterrupt, Progress, NextStatus, Status, Channel
  <2>2. CASE TxErrorInterrupt
    BY <1>t, <2>2 DEF TxErrorInterrupt, Progress, Status, Channel
  <2>3. CASE RxCompleteInterrupt
    BY <1>t, <2>3 DEF RxCompleteInterrupt, Progress, NextStatus, Status, Channel
  <2>4. CASE RxErrorInterrupt
    BY <1>t, <2>4 DEF RxErrorInterrupt, Progress, Status, Channel
  <2> QED
    BY <2>1, <2>2, <2>3, <2>4 DEF Interrupt
<1>4. ASSUME NEW s \in Sensor, pc[s] = "wait"
      PROVE  Unsignalled(s)' \/ HasToken(s)'
  <2>p. Progress /\ (Unsignalled(s) \/ HasToken(s))
    BY <1>4 DEF TransferInv
  <2>1. CASE TxCompleteInterrupt
    BY <1>t, <2>p, <2>1 DEF TxCompleteInterrupt, Unsignalled, HasToken, Progress, NextStatus, Status
  <2>2. CASE TxErrorInterrupt \/ RxErrorInterrupt
    <3>1. EndReception /\ status' \in {"tx error", "rx error"}
      BY <2>2 DEF TxErrorInterrupt, RxErrorInterrupt
    <3>2. rxSem' = NoSem /\ token'[s] = 1
      BY <1>t, <2>p, <3>1 DEF EndReception, Erased, Signalled, Unsignalled, HasToken
    <3> QED
      BY <3>1, <3>2 DEF HasToken
  <2>3. CASE RxCompleteInterrupt
    <3>1. EndReception /\ status' = NextStatus(status) /\ rx' = "done"
      BY <2>3 DEF RxCompleteInterrupt
    <3>2. rxSem' = NoSem /\ token'[s] = 1
      BY <1>t, <2>p, <3>1 DEF EndReception, Erased, Signalled, Unsignalled, HasToken
    <3>3. status' # "none"
      BY <1>t, <3>1 DEF NextStatus, Status
    <3> QED
      BY <3>1, <3>2, <3>3 DEF HasToken
  <2> QED
    BY <2>1, <2>2, <2>3 DEF Interrupt
<1>5. ASSUME NEW s \in Sensor, pc[s] # "wait"
      PROVE  token'[s] = 0 /\ rxSem' # s
  <2>p. token[s] = 0 /\ rxSem # s
    BY <1>5 DEF TransferInv
  <2>1. CASE EndReception
    BY <1>t, <2>p, <2>1, SensorAssumption DEF EndReception, Erased, Signalled
  <2>2. CASE UNCHANGED <<token, rxSem>>
    BY <2>p, <2>2
  <2> QED
    BY <2>1, <2>2 DEF Interrupt, TxCompleteInterrupt, TxErrorInterrupt, RxCompleteInterrupt,
                      RxErrorInterrupt
<1> QED
  BY <1>1, <1>2, <1>3, <1>4, <1>5 DEF TransferInv, HolderHasPort

LEMMA TransferStep ==
  TypeInv /\ TransferInv /\ [Next]_vars => TransferInv'
<1> SUFFICES ASSUME TypeInv, TransferInv, [Next]_vars PROVE TransferInv'
  OBVIOUS
<1>1. CASE UNCHANGED vars
  BY <1>1 DEF vars, portVars, simVars, TransferInv, HolderHasPort, Progress, Unsignalled, HasToken,
              Complete
<1>2. CASE \E s \in Sensor : Begin(s) \/ TaskStep(s)
  BY <1>2, TransferTask
<1>3. CASE PortStep
  BY <1>3, TransferHardware, TransferInterrupt DEF PortStep, Received, simVars
<1> QED
  BY <1>1, <1>2, <1>3 DEF Next

LEMMA Transfers == Spec => [](TypeInv /\ TransferInv)
BY TypeInit, TypeStep, TransferInit, TransferStep, PTL DEF Spec

\* No task waits for a signal that will not come: sensor.cpp:81 has no timeout.
THEOREM EveryWaitIsAnswered == Spec => []WaitIsAnswered
<1>1. TypeInv /\ TransferInv => WaitIsAnswered
  <2> SUFFICES ASSUME TypeInv, TransferInv, NEW s \in Sensor, pc[s] = "wait", token[s] # 1
               PROVE  rxSem = s /\ WillEnd
    BY DEF WaitIsAnswered
  <2>1. Unsignalled(s) /\ Progress /\ irq
    BY DEF TransferInv, HasToken, HolderHasPort
  <2>2. tx \in Channel /\ rx \in Channel
    BY DEF TypeInv, TypeOK, PortTypeOK
  <2> QED
    BY <2>1, <2>2 DEF Unsignalled, Progress, WillEnd, Flagged, Channel
<1> QED
  BY <1>1, Transfers, PTL

\* A signal is for the wait in progress.
THEOREM TokensAreFresh == Spec => []NoStaleToken
<1>1. TypeInv /\ TransferInv => NoStaleToken
  BY SensorAssumption, SignalledOnce DEF HasToken, NoStaleToken
<1> QED
  BY <1>1, Transfers, PTL

\* A woken task finds its request complete.
THEOREM WokenFindsComplete == Spec => []WokenMeansComplete
<1>1. TypeInv /\ TransferInv => WokenMeansComplete
  <2> SUFFICES ASSUME TypeInv, TransferInv, NEW s \in Sensor,
                      pc[s] = "wait", token[s] = 1, Quiet
               PROVE  Complete
    BY DEF WokenMeansComplete
  <2>1. HasToken(s) /\ Progress /\ irq
    BY SignalledOnce DEF TransferInv, HolderHasPort
  <2>2. status \in Status
    BY DEF TypeInv, TypeOK, PortTypeOK
  <2> QED
    BY <2>1, <2>2 DEF HasToken, Progress, Quiet, Flagged, Complete, Status
<1> QED
  BY <1>1, Transfers, PTL

\* Completions of a transfer that timed out do not count for the next.
THEOREM CompletionsBelong == Spec => []CompleteMeansBoth
<1>1. TypeInv /\ TransferInv => CompleteMeansBoth
  BY DEF TransferInv, Progress, CompleteMeansBoth
<1> QED
  BY <1>1, Transfers, PTL

-----------------------------------------------------------------------------
(* What is left of a task's work with the port. *)

LEMMA RecordsAreLeft ==
  ASSUME TypeInv, NEW s \in Sensor
  PROVE  RecordsLeft(s) \in Nat
<1>1. trail[s] \in Seq(Record) /\ index[s] \in Nat /\ index[s] <= Len(trail[s])
  BY DEF TypeInv, TypeOK, IndexInTrail
<1> QED
  BY <1>1 DEF RecordsLeft

LEMMA WorkIsLeft ==
  ASSUME TypeInv, NEW s \in Sensor
  PROVE  WorkLeft(s) \in Nat
<1>1. RecordsLeft(s) \in Nat /\ todo[s] \in Seq(Command)
  BY RecordsAreLeft DEF TypeInv, TypeOK
<1>2. Len(todo[s]) \in Nat
  BY <1>1
<1>3. pc[s] \in {"waiting", "poll", "busy", "replay", "wait", "send", "resume"}
  BY DEF TypeInv, TypeOK
<1> QED
  BY <1>1, <1>2, <1>3 DEF WorkLeft

\* A record is sent, or the whole merged trail.
LEMMA ReplayTakesRecord ==
  ASSUME TypeInv, NEW s \in Sensor, Replay(s)
  PROVE  RecordsLeft(s)' = RecordsLeft(s) - 1
<1>1. trail[s] \in Seq(Record) /\ index[s] \in Nat /\ index'[s] \in Nat
      /\ index \in [Sensor -> Nat] /\ burst \in [Sensor -> BOOLEAN]
  BY DEF TypeInv, TypeOK, Replay
<1>2. trail' = trail /\ merged' = merged /\ ReplaysMerged(s)' = ReplaysMerged(s)
  BY DEF Replay, ReplaysMerged
<1>3. CASE ReplaysMerged(s)
  <2>1. ~burst[s] /\ burst'[s]
    BY <1>1, <1>3 DEF Replay, ReplayIsOver
  <2> QED
    BY <1>2, <1>3, <2>1 DEF RecordsLeft
<1>4. CASE ~ReplaysMerged(s)
  <2>1. index'[s] = index[s] + 1
    BY <1>1, <1>4 DEF Replay
  <2>2. Len(trail[s]) \in Nat
    BY <1>1
  <2> QED
    BY <1>1, <1>2, <1>4, <2>1, <2>2 DEF RecordsLeft
<1> QED
  BY <1>3, <1>4

\* The answers of a replay change no length.
LEMMA AnswersAddNoWork ==
  ASSUME TypeInv, Received, NEW s \in Sensor
  PROVE  RecordsLeft(s)' = RecordsLeft(s)
<1>1. \A t \in Sensor : trail[t] \in Seq(Record) /\ merged[t] \in Seq(Record) /\ index[t] \in Nat
  BY DEF TypeInv, TypeOK
<1>2. /\ Len(trail'[s]) = Len(trail[s])
      /\ merged'[s] = <<>> <=> merged[s] = <<>>
  <2>1. CASE \E t \in Sensor : merged' = [merged EXCEPT ![t] = Answered(@)] /\ trail' = trail
    <3>1. PICK t \in Sensor : merged' = [merged EXCEPT ![t] = Answered(@)] /\ trail' = trail
      BY <2>1
    <3>2. merged'[s] = IF s = t THEN Answered(merged[s]) ELSE merged[s]
      BY <3>1 DEF TypeInv, TypeOK
    <3>3. Answered(merged[s]) \in Seq(Record) /\ Len(Answered(merged[s])) = Len(merged[s])
      BY <1>1, AnsweredIsTrail
    <3>4. \A q \in Seq(Record) : q = <<>> <=> Len(q) = 0
      OBVIOUS
    <3> QED
      BY <1>1, <3>1, <3>2, <3>3, <3>4
  <2>2. CASE \E t \in Sensor : trail' = [trail EXCEPT ![t] = AnsweredAt(@, index[t])]
                               /\ merged' = merged
    <3>1. PICK t \in Sensor : trail' = [trail EXCEPT ![t] = AnsweredAt(@, index[t])]
                              /\ merged' = merged
      BY <2>2
    <3>2. trail'[s] = IF s = t THEN AnsweredAt(trail[s], index[s]) ELSE trail[s]
      BY <3>1 DEF TypeInv, TypeOK
    <3>3. Len(AnsweredAt(trail[s], index[s])) = Len(trail[s])
      BY <1>1, AnsweredAtIsTrail
    <3> QED
      BY <3>1, <3>2, <3>3
  <2>3. CASE UNCHANGED <<trail, merged>>
    BY <2>3
  <2> QED
    BY <2>1, <2>2, <2>3 DEF Received
<1>3. index' = index /\ burst' = burst
  BY DEF Received
<1>4. ReplaysMerged(s)' = ReplaysMerged(s)
  BY <1>2 DEF ReplaysMerged
<1> QED
  BY <1>2, <1>3, <1>4 DEF RecordsLeft

\* An event sensor has no simulator; the others never wait for more than a replay.
EventInv ==
  /\ \A s \in Event : mode[s] = "disabled" /\ pc[s] \in {"waiting", "send", "wait", "resume"}
  /\ \A s \in Sensor \ Event : pc[s] \notin {"send", "resume"}

LEMMA EventTask ==
  ASSUME TypeInv, TransferInv, EventInv, NEW s \in Sensor, Begin(s) \/ TaskStep(s)
  PROVE  EventInv'
<1>t. /\ pc \in [Sensor -> {"waiting", "poll", "busy", "replay", "wait", "send", "resume"}]
      /\ mode \in [Sensor -> Mode] /\ Event \subseteq Sensor
  BY SimulatorAssumption DEF TypeInv, TypeOK
<1>1. \A t \in Sensor \ {s} : pc'[t] = pc[t] /\ mode'[t] = mode[t]
  BY <1>t DEF Begin, TaskStep, Simulated, Transceive, Transceived, Reopen, PollEnds, Replay,
              Woken, ReplayEnds, EventTransceive, EventResume, Capture, Release, Goto, simVars
<1>2. CASE s \in Event
  <2>1. mode[s] = "disabled" /\ pc[s] \in {"waiting", "send", "wait", "resume"}
    BY <1>2 DEF EventInv
  <2>2. CASE Begin(s)
    <3>1. mode' = mode /\ pc'[s] = "send"
      BY <1>2, <1>t, <2>1, <2>2 DEF Begin, Goto
    <3> QED
      BY <1>1, <1>2, <1>t, <2>1, <3>1 DEF EventInv
  <2>3. CASE TaskStep(s)
    <3>1. Woken(s) \/ EventTransceive(s) \/ EventResume(s)
      BY <2>1, <2>3 DEF TaskStep, Simulated, Transceive, Transceived, Reopen, PollEnds, Replay,
                        ReplayEnds
    <3>2. EventResume(s) => Release(s)
      BY DEF EventResume, TransferInv
    <3>3. NextMode(s) = "disabled"
      BY <2>1 DEF NextMode
    <3>4. mode'[s] = "disabled" /\ pc'[s] \in {"waiting", "wait", "resume"}
      BY <1>2, <1>t, <2>1, <3>1, <3>2, <3>3 DEF Woken, EventTransceive, Release, Goto
    <3> QED
      BY <1>1, <1>2, <1>t, <3>4 DEF EventInv
  <2> QED
    BY <2>2, <2>3
<1>3. CASE s \notin Event
  <2>1. pc[s] \notin {"send", "resume"}
    BY <1>3 DEF EventInv
  <2>2. pc'[s] \notin {"send", "resume"}
    BY <1>3, <1>t, <2>1
       DEF Begin, TaskStep, Simulated, Transceive, Transceived, Reopen, PollEnds, Replay,
           Woken, ReplayEnds, EventTransceive, EventResume, Release, Goto, simVars
  <2> QED
    BY <1>1, <1>3, <1>t, <2>2 DEF EventInv
<1> QED
  BY <1>2, <1>3

LEMMA EventInvHolds == Spec => []EventInv
<1>1. Init => EventInv
  BY SimulatorAssumption DEF Init, EventInv
<1>2. TypeInv /\ TransferInv /\ EventInv /\ [Next]_vars => EventInv'
  <2>1. UNCHANGED <<pc, mode>> /\ EventInv => EventInv'
    BY DEF EventInv
  <2>2. PortStep \/ UNCHANGED vars => UNCHANGED <<pc, mode>>
    BY DEF PortStep, Received, simVars, vars
  <2> QED
    BY <2>1, <2>2, EventTask DEF Next
<1> QED
  BY <1>1, <1>2, Transfers, PTL DEF Spec

\* A step of the task that has the port, or nothing new.
Shrinks(s) ==
  \/ WorkLeft(s)' < WorkLeft(s)
  \/ WorkLeft(s)' = WorkLeft(s) /\ UNCHANGED <<pc[s], todo[s], index[s], burst[s]>>

\* The next command of the driver is done with.
LEMMA CommandDone ==
  ASSUME TypeInv, NEW s \in Sensor, todo[s] # <<>>, todo' = [todo EXCEPT ![s] = Tail(@)]
  PROVE  Len(todo[s]) \in Nat /\ Len(todo'[s]) = Len(todo[s]) - 1
<1>1. todo \in [Sensor -> Seq(Command)] /\ todo[s] \in Seq(Command)
  BY DEF TypeInv, TypeOK
<1>2. todo'[s] = Tail(todo[s])
  BY <1>1
<1> QED
  BY <1>1, <1>2

LEMMA TaskShrinks ==
  ASSUME TypeInv, TransferInv, EventInv, NEW s \in Sensor, TaskStep(s)
  PROVE  pc[s] # "waiting" /\ Shrinks(s)
<1>t. pc \in [Sensor -> {"waiting", "poll", "busy", "replay", "wait", "send", "resume"}]
  BY DEF TypeInv, TypeOK
<1>r. RecordsLeft(s) \in Nat /\ Len(todo[s]) \in Nat
  <2>1. todo[s] \in Seq(Command)
    BY DEF TypeInv, TypeOK
  <2> QED
    BY <2>1, RecordsAreLeft
<1>1. CASE Simulated(s)
  <2>1. /\ pc[s] = "poll" /\ pc'[s] = "poll" /\ todo[s] # <<>>
        /\ todo' = [todo EXCEPT ![s] = Tail(@)]
    BY <1>1 DEF Simulated
  <2>2. Len(todo'[s]) = Len(todo[s]) - 1
    BY <2>1, CommandDone
  <2> QED
    BY <1>r, <2>1, <2>2 DEF Shrinks, WorkLeft
<1>2. CASE Transceive(s)
  <2>1. pc[s] = "poll" /\ pc'[s] = "busy" /\ todo' = todo
    BY <1>t, <1>2 DEF Transceive, Goto
  <2> QED
    BY <1>r, <2>1 DEF Shrinks, WorkLeft
<1>3. CASE Transceived(s)
  <2>1. /\ pc[s] = "busy" /\ pc'[s] = "poll" /\ todo[s] # <<>>
        /\ todo' = [todo EXCEPT ![s] = Tail(@)]
    BY <1>t, <1>3 DEF Transceived, Goto, TypeInv, BusyHasCommand
  <2>2. Len(todo'[s]) = Len(todo[s]) - 1
    BY <2>1, CommandDone
  <2> QED
    BY <1>r, <2>1, <2>2 DEF Shrinks, WorkLeft
<1>4. CASE Reopen(s)
  <2>1. pc[s] = "poll" /\ UNCHANGED <<pc, todo, index, burst>>
    BY <1>4 DEF Reopen, simVars
  <2> QED
    BY <2>1 DEF Shrinks, WorkLeft
<1>5. CASE PollEnds(s) \/ ReplayEnds(s) \/ (EventResume(s) /\ Release(s))
  <2>1. pc[s] \in {"poll", "replay", "resume"} /\ pc'[s] = "waiting"
    BY <1>t, <1>5 DEF PollEnds, ReplayEnds, EventResume, Release, Goto
  <2>2. WorkLeft(s) > 0 /\ WorkLeft(s)' = 0
    BY <1>r, <2>1 DEF WorkLeft
  <2> QED
    BY <2>1, <2>2 DEF Shrinks
<1>6. CASE Replay(s)
  <2>1. pc[s] = "replay" /\ pc'[s] = "wait"
    BY <1>t, <1>6 DEF Replay, Goto
  <2>2. RecordsLeft(s)' = RecordsLeft(s) - 1 /\ RecordsLeft(s)' \in Int
    BY <1>6, <1>r, ReplayTakesRecord
  <2>3. s \notin Event
    BY <2>1 DEF EventInv
  <2> QED
    BY <1>r, <2>1, <2>2, <2>3 DEF Shrinks, WorkLeft
<1>7. CASE Woken(s)
  <2>1. /\ pc[s] = "wait" /\ pc'[s] = IF s \in Event THEN "resume" ELSE "replay"
        /\ UNCHANGED <<trail, merged, index, burst>>
    BY <1>t, <1>7 DEF Woken, Goto
  <2>2. RecordsLeft(s)' = RecordsLeft(s)
    BY <2>1 DEF RecordsLeft, ReplaysMerged
  <2> QED
    BY <1>r, <2>1, <2>2 DEF Shrinks, WorkLeft
<1>8. CASE EventTransceive(s)
  <2>1. pc[s] = "send" /\ pc'[s] = "wait" /\ s \in Event
    BY <1>t, <1>8 DEF EventTransceive, Goto, EventInv
  <2> QED
    BY <2>1 DEF Shrinks, WorkLeft
<1>9. EventResume(s) => Release(s)
  BY DEF EventResume, TransferInv
<1> QED
  BY <1>1, <1>2, <1>3, <1>4, <1>5, <1>6, <1>7, <1>8, <1>9 DEF TaskStep

\* Whatever it finds, captures or replays, a task that has the port comes nearer to
\* giving it back with every step but a new opening of the port; no other task and
\* no interrupt moves it away from there (sensor.cpp:75-90, simulator.cpp:105-123).
THEOREM SessionsShrink == Spec => SessionShrinks
<1> DEFINE Step ==
      \A s \in Sensor : pc[s] # "waiting" =>
        /\ WorkLeft(s) \in Nat
        /\ Shrinks(s)
<1>1. TypeInv /\ TransferInv /\ EventInv /\ [Next]_vars => [Step]_vars
  <2> SUFFICES ASSUME TypeInv, TransferInv, EventInv, Next, NEW s \in Sensor, pc[s] # "waiting"
               PROVE  WorkLeft(s) \in Nat /\ Shrinks(s)
    OBVIOUS
  <2>n. WorkLeft(s) \in Nat
    BY WorkIsLeft
  <2>h. holder = s /\ \A t \in Sensor \ {s} : pc[t] = "waiting"
    BY OthersWait DEF TransferInv, HolderHasPort
  <2>1. \A t \in Sensor : ~Begin(t)
    BY <2>h, SimulatorAssumption DEF Begin
  <2>2. ASSUME NEW t \in Sensor, TaskStep(t) PROVE Shrinks(s)
    <3>1. pc[t] # "waiting" /\ Shrinks(t)
      BY <2>2, TaskShrinks
    <3> QED
      BY <2>h, <3>1
  <2>3. ASSUME PortStep PROVE Shrinks(s)
    <3>1. UNCHANGED <<pc, todo, index, burst>>
      BY <2>3 DEF PortStep, Received, simVars
    <3>2. RecordsLeft(s)' = RecordsLeft(s)
      BY <2>3, AnswersAddNoWork DEF PortStep, RecordsLeft, ReplaysMerged, simVars
    <3> QED
      BY <3>1, <3>2 DEF Shrinks, WorkLeft
  <2> QED
    BY <2>n, <2>1, <2>2, <2>3 DEF Next
<1> QED
  BY <1>1, Transfers, EventInvHolds, PTL DEF Spec, SessionShrinks, Shrinks

=============================================================================
