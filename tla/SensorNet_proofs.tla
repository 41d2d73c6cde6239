--------------------------- MODULE SensorNet_proofs ---------------------------
(***************************************************************************)
(* Proofs about SensorNet, for any sensors, priorities and delays.  The    *)
(* invariant follows a command from the network task to the UART task and  *)
(* its answer back, with the time of each stage.                           *)
(***************************************************************************)
EXTENDS SensorPort, SequenceTheorems, FiniteSetTheorems, WellFoundedInduction, TLAPS

\* The run ends before millis() wraps.
NoWrap ==
  Horizon + CommandTimeout + UplinkTimeout + DownlinkTimeout + 3 * SendInterval < Wrap

Sending == StartDelay + Chars * CharDelay

\* Sending a command takes less than SEND_INTERVAL: at most 200 ms and 10 ms a
\* character against 20 s.
SendingIsShort == Sending + 1 < SendInterval

\* When the UART task has sent a command, by what the network task expects.
SentAt(cmd) == net.lastSend - TimeoutOf(cmd) + Sending

\* The UART task has the command or will get it.
OnTheWay(cmd) ==
  \/ /\ pc[UART] = "idle" /\ uartQueue = <<cmd>>
     /\ now = net.lastSend - TimeoutOf(cmd)
  \/ /\ pc[UART] = "sending" /\ uartQueue = <<>> /\ uart.cmd = cmd
     /\ now + wait[UART] + uart.left * CharDelay = SentAt(cmd)
  \/ /\ pc[UART] = "listening" /\ uartQueue = <<>> /\ uart.cmd = cmd
     /\ now - uart.elapsed = SentAt(cmd)
     /\ uart.elapsed + wait[UART] <= TimeoutOf(cmd) + 1

NoResponse(q) == \A i \in DOMAIN q : q[i] # RES

OneResponse(q) ==
  \E i \in DOMAIN q : q[i] = RES /\ \A j \in DOMAIN q : q[j] = RES => j = i

AtRest == pc[UART] = "idle" /\ uartQueue = <<>>

\* Nothing is on the way and the network task expects nothing.
Preparing ==
  /\ ~net.pending /\ AtRest /\ NoResponse(netQueue)
  /\ pc[NET] # "waiting"
  /\ pc[NET] = "posting" =>
       uartData = net.process /\ now = net.lastSend - TimeoutOf(net.process)

\* The network task waits for an event.
Waiting ==
  /\ ~net.pending /\ NoResponse(netQueue)
  /\ pc[NET] = "waiting"
  /\ ~AnswersByMessage(net.process) /\ uartData = net.process
  /\ OnTheWay(net.process)

\* The network task receives sensor data while a payload is sent.
Expecting ==
  /\ net.pending /\ pc[NET] = "receive"
  /\ AnswersByMessage(net.process) /\ uartData = net.process
  /\ now <= net.lastSend + Sending + 1
  /\ \/ NoResponse(netQueue) /\ OnTheWay(net.process)
     \/ /\ NoResponse(netQueue) /\ pc[UART] = "posting" /\ uartQueue = <<>>
        /\ uart.cmd = net.process
     \/ AtRest /\ OneResponse(netQueue)

Conversation == Preparing \/ Waiting \/ Expecting

ClockInv ==
  /\ now <= Horizon
  /\ net.lastSend <= Horizon + CommandTimeout + UplinkTimeout + DownlinkTimeout + 2 * SendInterval

IndInv == TypeOK /\ ClockInv /\ Conversation

-----------------------------------------------------------------------------
(* Constants, time and queues. *)

\* The assumptions, one constant at a time.
LEMMA Constants ==
  /\ StartDelay \in Nat \ {0} /\ CharDelay \in Nat \ {0} /\ ReceiveDelay \in Nat \ {0}
  /\ Chars \in Nat \ {0} /\ PollInterval \in Nat \ {0}
  /\ CommandTimeout \in Nat \ {0} /\ UplinkTimeout \in Nat \ {0}
  /\ DownlinkTimeout \in Nat \ {0} /\ SendInterval \in Nat \ {0}
  /\ Wrap \in Nat \ {0} /\ Horizon \in Nat
BY TimeAssumption

\* The UART task, the network task and the sensors are different.
LEMMA Tasks ==
  /\ UART \in Task /\ NET \in Task /\ UART # NET
  /\ \A s \in Sensor : s \in Task /\ s # UART /\ s # NET /\ s # RES
  /\ Free \notin Task
BY TaskAssumption DEF Task, UART, NET, RES

\* The positions of the three kinds of task.
LEMMA PcKinds ==
  /\ Pc.uart = {"idle", "sending", "listening", "posting"}
  /\ Pc.network = {"begin", "receive", "next", "posting", "waiting", "answered"}
  /\ Pc.sensor = {"poll", "queued", "granted", "sensing", "sensed", "released"}
  /\ UNION {Pc.uart, Pc.network, Pc.sensor} = Pc.uart \cup Pc.network \cup Pc.sensor
BY DEF Pc

LEMMA NoRemainder == \A a, b \in Nat : a < b => a % b = a
OBVIOUS

LEMMA LaterType == \A t, d \in Nat : Later(t, d) \in 0 .. Wrap - 1
BY Constants DEF Later

LEMMA LaterIsSum ==
  ASSUME NoWrap, NEW t \in Nat, NEW d \in Nat,
         t + d <= Horizon + CommandTimeout + UplinkTimeout + DownlinkTimeout + 3 * SendInterval
  PROVE  Later(t, d) = t + d
<1>1. t + d \in Nat /\ Wrap \in Nat /\ t + d < Wrap
  BY Constants DEF NoWrap
<1> QED
  BY <1>1, NoRemainder DEF Later

\* Every timeout is positive and within the sum of the three.
LEMMA TimeoutType ==
  \A cmd : /\ TimeoutOf(cmd) \in Nat \ {0}
           /\ TimeoutOf(cmd) <= CommandTimeout + UplinkTimeout + DownlinkTimeout
BY Constants DEF TimeoutOf

\* What is left to send shrinks by a character delay per character.
LEMMA Product ==
  \A l, c \in Nat : l * c \in Nat /\ (l # 0 => (l - 1) * c + c = l * c) /\ 0 * c = 0
OBVIOUS

LEMMA SendingType == Sending \in Nat /\ Chars * CharDelay \in Nat
BY Constants, Product DEF Sending

\* Sensor data changes nothing about the responses in the queue.
LEMMA AppendData ==
  ASSUME NEW q \in Seq(Sensor \cup {RES}), NEW m \in Sensor
  PROVE  /\ NoResponse(q) => NoResponse(Append(q, m))
         /\ OneResponse(q) => OneResponse(Append(q, m))
<1>1. /\ Append(q, m) \in Seq(Sensor \cup {RES})
      /\ DOMAIN Append(q, m) = 1 .. Len(q) + 1 /\ DOMAIN q = 1 .. Len(q) /\ Len(q) \in Nat
      /\ \A i \in 1 .. Len(q) : Append(q, m)[i] = q[i]
      /\ Append(q, m)[Len(q) + 1] = m /\ m # RES
  BY AppendProperties, Tasks
<1>2. NoResponse(q) => NoResponse(Append(q, m))
  BY <1>1 DEF NoResponse
<1>3. ASSUME OneResponse(q)
      PROVE  OneResponse(Append(q, m))
  <2>1. PICK i \in DOMAIN q : q[i] = RES /\ \A j \in DOMAIN q : q[j] = RES => j = i
    BY <1>3 DEF OneResponse
  <2>2. i \in DOMAIN Append(q, m) /\ Append(q, m)[i] = RES
    BY <1>1, <2>1
  <2>3. \A j \in DOMAIN Append(q, m) : Append(q, m)[j] = RES => j = i
    BY <1>1, <2>1
  <2> QED
    BY <2>2, <2>3 DEF OneResponse
<1> QED
  BY <1>2, <1>3

\* The UART task's answer is the only response in the queue.
LEMMA AppendResponse ==
  ASSUME NEW q \in Seq(Sensor \cup {RES}), NoResponse(q)
  PROVE  OneResponse(Append(q, RES))
<1>1. /\ DOMAIN Append(q, RES) = 1 .. Len(q) + 1 /\ DOMAIN q = 1 .. Len(q) /\ Len(q) \in Nat
      /\ \A i \in 1 .. Len(q) : Append(q, RES)[i] = q[i]
      /\ Append(q, RES)[Len(q) + 1] = RES
  BY AppendProperties
<1>2. \A j \in DOMAIN Append(q, RES) : Append(q, RES)[j] = RES => j = Len(q) + 1
  BY <1>1 DEF NoResponse
<1> QED
  BY <1>1, <1>2 DEF OneResponse

\* What receiving a message leaves of the responses in the queue.
LEMMA TailOfQueue ==
  ASSUME NEW q \in Seq(Sensor \cup {RES}), q # <<>>
  PROVE  /\ NoResponse(q) => NoResponse(Tail(q)) /\ Head(q) # RES
         /\ OneResponse(q) /\ Head(q) # RES => OneResponse(Tail(q))
         /\ OneResponse(q) /\ Head(q) = RES => NoResponse(Tail(q))
<1>1. /\ DOMAIN Tail(q) = 1 .. Len(q) - 1
      /\ \A i \in 1 .. Len(q) - 1 : Tail(q)[i] = q[i + 1]
      /\ Head(q) = q[1] /\ DOMAIN q = 1 .. Len(q) /\ Len(q) \in Nat \ {0}
  OBVIOUS
<1>2. NoResponse(q) => NoResponse(Tail(q)) /\ Head(q) # RES
  BY <1>1 DEF NoResponse
<1>3. ASSUME OneResponse(q), Head(q) # RES
      PROVE  OneResponse(Tail(q))
  <2>1. PICK i \in DOMAIN q : q[i] = RES /\ \A j \in DOMAIN q : q[j] = RES => j = i
    BY <1>3 DEF OneResponse
  <2>2. i - 1 \in DOMAIN Tail(q) /\ Tail(q)[i - 1] = RES
    BY <1>1, <1>3, <2>1
  <2>3. \A j \in DOMAIN Tail(q) : Tail(q)[j] = RES => j = i - 1
    BY <1>1, <2>1
  <2> QED
    BY <2>2, <2>3 DEF OneResponse
<1>4. ASSUME OneResponse(q), Head(q) = RES
      PROVE  NoResponse(Tail(q))
  BY <1>1, <1>4 DEF OneResponse, NoResponse
<1> QED
  BY <1>2, <1>3, <1>4

-----------------------------------------------------------------------------
(* The types. *)

\* The sets TypeOK is built from, by name: the provers need not look inside.
Lists == Seq(Cmd)
Indices == Nat \ {0}
Millis == 0 .. Wrap - 1
Lefts == 0 .. Chars
Pcs == UNION {Pc.uart, Pc.network, Pc.sensor}
NetRecords == [list : Lists, index : Indices, pending : BOOLEAN,
               process : Cmd, lastSend : Millis]
UartRecords == [cmd : Cmd, left : Lefts, elapsed : Nat]
NetQueues == {q \in Seq(Sensor \cup {RES}) : Len(q) <= NetQueueSize}
UartQueues == {q \in Seq(Cmd) : Len(q) <= UartQueueSize}

Types ==
  /\ running \in Task \cup {Free}
  /\ pc \in [Task -> Pcs] /\ pc[UART] \in Pc.uart /\ pc[NET] \in Pc.network
  /\ \A s \in Sensor : pc[s] \in Pc.sensor
  /\ wait \in [Task -> Nat]
  /\ now \in Millis
  /\ port \in {0, 1}
  /\ netQueue \in NetQueues
  /\ uartQueue \in UartQueues
  /\ uartData \in Cmd
  /\ uart \in UartRecords
  /\ answer \in [good : BOOLEAN, text : Text]
  /\ net \in NetRecords

LEMMA TypeParts == TypeOK <=> Types
BY DEF TypeOK, Types, Lists, Indices, Millis, Lefts, Pcs, NetRecords, UartRecords,
       NetQueues, UartQueues

LEMMA TypePartsNext == TypeOK' <=> Types'
BY DEF TypeOK, Types, Lists, Indices, Millis, Lefts, Pcs, NetRecords, UartRecords,
       NetQueues, UartQueues

LEMMA Millies ==
  /\ Millis \subseteq Nat /\ Indices \subseteq Nat /\ Lefts \subseteq Nat
  /\ \A t, d \in Nat : Later(t, d) \in Millis
  /\ 1 \in Indices /\ \A i \in Indices : i + 1 \in Indices
  /\ 0 \in Lefts /\ Chars \in Lefts /\ \A l \in Lefts : l > 0 => l - 1 \in Lefts
  /\ 0 \in Millis
BY LaterType, Constants DEF Millis, Indices, Lefts

\* Command lists are lists of commands.
LEMMA ListTypes == BeginList \in Lists /\ SendList \in Lists /\ <<>> \in Lists
<1>1. /\ "emulator" \in Cmd /\ "id" \in Cmd /\ "pac" \in Cmd /\ "power" \in Cmd
      /\ "message" \in Cmd /\ "channel" \in Cmd /\ "reset" \in Cmd
  BY DEF Cmd
<1>2. <<"power", "message">> \in Seq(Cmd) /\ <<"channel", "reset", "message">> \in Seq(Cmd)
  BY <1>1
<1>3. BeginList \in Seq(Cmd)
  BY <1>1 DEF BeginList
<1> QED
  BY <1>2, <1>3 DEF SendList, Lists

LEMMA InitType == Init => TypeOK
<1> SUFFICES ASSUME Init PROVE Types
  BY TypeParts
<1>1. net \in NetRecords
  <2>1. Later(now, 2 * SendInterval) \in Millis /\ "none" \in Cmd
    BY Millies, Constants DEF Init, Cmd
  <2> QED
    BY <2>1, Millies, ListTypes DEF Init, NetRecords
<1>2. /\ pc \in [Task -> Pcs] /\ pc[UART] \in Pc.uart /\ pc[NET] \in Pc.network
      /\ \A s \in Sensor : pc[s] \in Pc.sensor
  BY Tasks, PcKinds DEF Init, Pcs
<1>3. uart \in UartRecords
  BY Millies DEF Init, Cmd, UartRecords
<1>4. netQueue \in NetQueues /\ uartQueue \in UartQueues
  BY DEF Init, NetQueueSize, UartQueueSize, NetQueues, UartQueues
<1>5. wait \in [Task -> Nat] /\ now \in Millis
  BY Millies DEF Init
<1> QED
  BY <1>1, <1>2, <1>3, <1>4, <1>5 DEF Init, Types, Cmd, Text

\* A post to a queue with room, and a receive, keep the queue's type.
LEMMA QueueTypes ==
  /\ \A q \in NetQueues : q # <<>> => Tail(q) \in NetQueues /\ Head(q) \in Sensor \cup {RES}
  /\ \A q \in NetQueues, m \in Sensor \cup {RES} :
       Len(q) < NetQueueSize => Append(q, m) \in NetQueues
  /\ \A q \in UartQueues : q # <<>> => Tail(q) \in UartQueues /\ Head(q) \in Cmd
  /\ \A q \in UartQueues, m \in Cmd :
       Len(q) < UartQueueSize => Append(q, m) \in UartQueues
<1>1. /\ NetQueueSize \in Nat /\ UartQueueSize \in Nat
      /\ \A S : \A q \in Seq(S) : Len(q) \in Nat
  BY DEF NetQueueSize, UartQueueSize
<1>2. ASSUME NEW q \in NetQueues, q # <<>>
      PROVE  Tail(q) \in NetQueues /\ Head(q) \in Sensor \cup {RES}
  BY <1>1, <1>2, HeadTailProperties DEF NetQueues
<1>3. ASSUME NEW q \in NetQueues, NEW m \in Sensor \cup {RES}, Len(q) < NetQueueSize
      PROVE  Append(q, m) \in NetQueues
  BY <1>1, <1>3, AppendProperties DEF NetQueues
<1>4. ASSUME NEW q \in UartQueues, q # <<>>
      PROVE  Tail(q) \in UartQueues /\ Head(q) \in Cmd
  BY <1>1, <1>4, HeadTailProperties DEF UartQueues
<1>5. ASSUME NEW q \in UartQueues, NEW m \in Cmd, Len(q) < UartQueueSize
      PROVE  Append(q, m) \in UartQueues
  BY <1>1, <1>5, AppendProperties DEF UartQueues
<1> QED
  BY <1>2, <1>3, <1>4, <1>5

\* What lets each task go on.
LEMMA Guards ==
  /\ Runs(UART) => /\ pc[UART] = "idle" => uartQueue # <<>>
                   /\ pc[UART] \in {"sending", "listening"} => wait[UART] = 0
                   /\ pc[UART] = "posting" => Len(netQueue) < NetQueueSize
  /\ Runs(NET) => /\ pc[NET] = "receive" => netQueue # <<>>
                  /\ pc[NET] = "posting" => Len(uartQueue) < UartQueueSize
BY Tasks DEF Runs, CanGoOn, UART, NET

LEMMA UartType ==
  ASSUME TypeOK, UartStep
  PROVE  TypeOK'
<1> SUFFICES Types'
  BY TypePartsNext
<1>t. Types
  BY TypeParts
<1>p. /\ Pc.uart \subseteq Pcs /\ {"idle", "sending", "listening", "posting"} \subseteq Pc.uart
      /\ Pc.network \subseteq Pcs /\ "answered" \in Pc.network
  BY PcKinds DEF Pcs
<1>c. ASSUME NEW x \in Pc.uart, pc' = [pc EXCEPT ![UART] = x]
      PROVE  /\ pc' \in [Task -> Pcs] /\ pc'[UART] \in Pc.uart /\ pc'[NET] \in Pc.network
             /\ \A s \in Sensor : pc'[s] \in Pc.sensor
  BY <1>t, <1>p, <1>c, Tasks DEF Types
<1>1. CASE UartReceive
  <2>1. Tail(uartQueue) \in UartQueues /\ Head(uartQueue) \in Cmd
    BY <1>1, <1>t, Guards, QueueTypes DEF UartReceive, Types
  <2>2. uart' \in UartRecords
    BY <1>1, <2>1, Millies DEF UartReceive, UartRecords
  <2>3. /\ pc' \in [Task -> Pcs] /\ pc'[UART] \in Pc.uart /\ pc'[NET] \in Pc.network
        /\ \A s \in Sensor : pc'[s] \in Pc.sensor
    BY <1>1, <1>c, <1>p DEF UartReceive
  <2>4. wait' \in [Task -> Nat]
    BY <1>1, <1>t, Constants DEF UartReceive, Types
  <2>5. answer' \in [good : BOOLEAN, text : Text]
    BY <1>1 DEF UartReceive, Text
  <2> QED
    BY <1>1, <1>t, <2>1, <2>2, <2>3, <2>4, <2>5, Tasks DEF UartReceive, Types
<1>2. CASE UartSendChar
  <2>1. uart.left \in Lefts /\ uart.left - 1 \in Lefts
    BY <1>2, <1>t, Millies DEF UartSendChar, Types, UartRecords
  <2>2. uart' \in UartRecords
    BY <1>2, <1>t, <2>1 DEF UartSendChar, Types, UartRecords
  <2>3. wait' \in [Task -> Nat]
    BY <1>2, <1>t, Constants DEF UartSendChar, Types
  <2> QED
    BY <1>2, <1>t, <2>2, <2>3, Tasks DEF UartSendChar, Types
<1>3. CASE UartSent
  <2>1. uart' \in UartRecords
    BY <1>3, <1>t DEF UartSent, Types, UartRecords
  <2>2. /\ pc' \in [Task -> Pcs] /\ pc'[UART] \in Pc.uart /\ pc'[NET] \in Pc.network
        /\ \A s \in Sensor : pc'[s] \in Pc.sensor
    BY <1>3, <1>c, <1>p DEF UartSent
  <2> QED
    BY <1>3, <1>t, <2>1, <2>2, Tasks DEF UartSent, Types
<1>4. CASE UartWait
  <2>1. wait' \in [Task -> Nat]
    BY <1>4, <1>t, Constants DEF UartWait, Types
  <2> QED
    BY <1>4, <1>t, <2>1, Tasks DEF UartWait, Types
<1>5. ASSUME NEW good \in BOOLEAN, NEW text \in Text, Finish(good, text),
             UNCHANGED <<wait, now, port, netQueue, uartQueue, uartData, uart, net>>
      PROVE  Types'
  <2>1. /\ pc' \in [Task -> Pcs] /\ pc'[UART] \in Pc.uart /\ pc'[NET] \in Pc.network
        /\ \A s \in Sensor : pc'[s] \in Pc.sensor
    BY <1>5, <1>t, <1>p, Tasks DEF Finish, Types
  <2> QED
    BY <1>5, <1>t, <2>1, Tasks DEF Finish, Types
<1>6. CASE UartAnswered \/ UartTimeout
  BY <1>5, <1>6 DEF UartAnswered, UartTimeout
<1>7. CASE UartPost
  <2>1. netQueue' \in NetQueues
    BY <1>7, <1>t, Guards, QueueTypes DEF UartPost, Types
  <2>2. /\ pc' \in [Task -> Pcs] /\ pc'[UART] \in Pc.uart /\ pc'[NET] \in Pc.network
        /\ \A s \in Sensor : pc'[s] \in Pc.sensor
    BY <1>7, <1>c, <1>p DEF UartPost
  <2> QED
    BY <1>7, <1>t, <2>1, <2>2, Tasks DEF UartPost, Types
<1> QED
  BY <1>1, <1>2, <1>3, <1>4, <1>6, <1>7 DEF UartStep

LEMMA NetType ==
  ASSUME TypeOK, NetStep
  PROVE  TypeOK'
<1> SUFFICES Types'
  BY TypePartsNext
<1>t. Types
  BY TypeParts
<1>p. /\ Pc.network \subseteq Pcs
      /\ {"begin", "receive", "next", "posting", "waiting", "answered"} \subseteq Pc.network
  BY PcKinds DEF Pcs
<1>c. ASSUME NEW x \in Pc.network, pc' = [pc EXCEPT ![NET] = x] \/ pc' = pc
      PROVE  /\ pc' \in [Task -> Pcs] /\ pc'[UART] \in Pc.uart /\ pc'[NET] \in Pc.network
             /\ \A s \in Sensor : pc'[s] \in Pc.sensor
  BY <1>t, <1>p, <1>c, Tasks DEF Types
<1>n. now \in Nat /\ now \in Millis
  BY <1>t, Millies DEF Types
<1>s. ASSUME NEW list \in Lists, StartList(list)
      PROVE  net' \in NetRecords
  <2>1. Later(now, DownlinkTimeout) \in Millis
    BY <1>n, Millies, Constants
  <2> QED
    BY <1>s, <1>t, <2>1, Millies DEF StartList, Types, NetRecords
<1>d. ASSUME NEW n \in NetRecords
      PROVE  Done(n) \in NetRecords
  BY ListTypes, Millies DEF Done, NetRecords
<1>1. CASE NetBegin
  <2>1. net' \in NetRecords
    BY <1>1, <1>s, ListTypes DEF NetBegin
  <2> QED
    BY <1>1, <1>t, <1>c, <1>p, <2>1, Tasks DEF NetBegin, Types
<1>2. CASE NetData
  <2>1. net' \in NetRecords
    BY <1>2, <1>t, <1>s, ListTypes DEF NetData, Types
  <2>2. netQueue' \in NetQueues
    BY <1>2, <1>t, Guards, QueueTypes DEF NetData, Types
  <2>3. pc' = [pc EXCEPT ![NET] = "next"] \/ pc' = pc
    BY <1>2 DEF NetData
  <2> QED
    BY <1>2, <1>t, <1>c, <1>p, <2>1, <2>2, <2>3, Tasks DEF NetData, Types
<1>3. CASE NetResponse
  <2>1. net' \in NetRecords
    BY <1>3, <1>t, <1>n DEF NetResponse, Types, NetRecords
  <2>2. netQueue' \in NetQueues
    BY <1>3, <1>t, Guards, QueueTypes DEF NetResponse, Types
  <2> QED
    BY <1>3, <1>t, <2>1, <2>2, Tasks DEF NetResponse, Types
<1>4. CASE NetNext
  <2>1. CASE net.index > Len(net.list)
    <3>1. [net EXCEPT !.lastSend = now] \in NetRecords
      BY <1>t, <1>n DEF Types, NetRecords
    <3>2. net' \in NetRecords
      BY <1>4, <1>d, <2>1, <3>1 DEF NetNext
    <3> QED
      BY <1>4, <1>t, <1>c, <1>p, <2>1, <3>2, Tasks DEF NetNext, Types
  <2>2. CASE ~(net.index > Len(net.list))
    <3>1. net.list[net.index] \in Cmd
      BY <1>t, <2>2 DEF Types, NetRecords, Lists, Indices
    <3>2. ExpectedEnd(net.list[net.index]) \in Millis
      BY <1>n, TimeoutType, Millies DEF ExpectedEnd
    <3>3. net' \in NetRecords
      BY <1>4, <1>t, <2>2, <3>1, <3>2 DEF NetNext, Types, NetRecords
    <3> QED
      BY <1>4, <1>t, <1>c, <1>p, <2>2, <3>1, <3>3, Tasks DEF NetNext, Types
  <2> QED
    BY <2>1, <2>2
<1>5. CASE NetPost
  <2>1. uartQueue' \in UartQueues
    BY <1>5, <1>t, Guards, QueueTypes DEF NetPost, Types, NetRecords
  <2>2. [net EXCEPT !.pending = TRUE] \in NetRecords
    BY <1>t DEF Types, NetRecords
  <2>3. net' \in NetRecords
    BY <1>5, <1>t, <1>d, <2>2 DEF NetPost, Posted, Types
  <2> QED
    BY <1>5, <1>t, <1>c, <1>p, <2>1, <2>3, Tasks DEF NetPost, Types
<1>6. CASE NetAnswered
  <2>1. [net.list EXCEPT ![net.index + 1] = "none"] \in Seq(Cmd)
    <3>1. net.list \in Seq(Cmd) /\ net.list \in [1 .. Len(net.list) -> Cmd]
          /\ Len(net.list) \in Nat /\ "none" \in Cmd
      BY <1>t DEF Types, NetRecords, Lists, Cmd
    <3>2. CASE net.index + 1 \in 1 .. Len(net.list)
      BY <3>1, <3>2, ExceptSeq
    <3>3. CASE net.index + 1 \notin 1 .. Len(net.list)
      <4>1. [net.list EXCEPT ![net.index + 1] = "none"] = net.list
        BY <3>1, <3>3
      <4> QED
        BY <3>1, <4>1
    <3> QED
      BY <3>2, <3>3
  <2>2. NextList \in Lists
    BY <1>t, <2>1 DEF NextList, Types, NetRecords, Lists
  <2>3. net' \in NetRecords
    <3>1. net \in NetRecords
      BY <1>t DEF Types
    <3>2. CASE ProcessFails
      <4>1. net' = Done(net)
        BY <1>6, <3>2 DEF NetAnswered
      <4> QED
        BY <1>d, <3>1, <4>1
    <3>3. CASE ~ProcessFails
      <4>1. net' = [net EXCEPT !.list = NextList, !.index = @ + 1]
        BY <1>6, <3>3 DEF NetAnswered
      <4>2. net.index \in Indices /\ net.index + 1 \in Indices
        BY <3>1, Millies DEF NetRecords
      <4> QED
        BY <2>2, <3>1, <4>1, <4>2 DEF NetRecords
    <3> QED
      BY <3>2, <3>3
  <2> QED
    BY <1>6, <1>t, <1>c, <1>p, <2>3, Tasks DEF NetAnswered, Types
<1> QED
  BY <1>1, <1>2, <1>3, <1>4, <1>5, <1>6 DEF NetStep

LEMMA SensorType ==
  ASSUME TypeOK, NEW s \in Sensor, SensorStep(s) \/ SensorReady(s)
  PROVE  TypeOK'
<1> SUFFICES Types'
  BY TypePartsNext
<1>t. Types
  BY TypeParts
<1>p. /\ Pc.sensor \subseteq Pcs
      /\ {"poll", "queued", "granted", "sensing", "sensed", "released"} \subseteq Pc.sensor
  BY PcKinds DEF Pcs
<1>c. ASSUME NEW x \in Pc.sensor, pc' = [pc EXCEPT ![s] = x]
      PROVE  /\ pc' \in [Task -> Pcs] /\ pc'[UART] \in Pc.uart /\ pc'[NET] \in Pc.network
             /\ \A t \in Sensor : pc'[t] \in Pc.sensor
  BY <1>t, <1>p, <1>c, Tasks DEF Types
<1>1. CASE SensorStart(s)
  BY <1>1, <1>t, <1>c, <1>p, Tasks DEF SensorStart, Types
<1>2. CASE SensorNotReady(s)
  BY <1>2, <1>t, <1>c, <1>p, Tasks DEF SensorNotReady, Types
<1>3. CASE SensorReady(s)
  BY <1>3, <1>t, <1>c, <1>p, Tasks DEF SensorReady, Types
<1>4. CASE SensorRelease(s)
  <2>1. \A t \in Task : pc'[t] = pc[t] \/ (t \in Sensor /\ pc'[t] \in Pc.sensor)
    <3>1. FirstQueued \subseteq Sensor
      BY DEF FirstQueued, Queued
    <3>2. /\ "released" \in Pc.sensor /\ "granted" \in Pc.sensor
          /\ \A t \in Task : pc'[t] = IF t = s THEN "released"
                                     ELSE IF t \in FirstQueued THEN "granted" ELSE pc[t]
      BY <1>4, <1>p DEF SensorRelease
    <3> QED
      BY <3>1, <3>2
  <2>2. DOMAIN pc' = Task /\ pc' = [t \in Task |-> pc'[t]]
    BY <1>4 DEF SensorRelease
  <2>3. pc' \in [Task -> Pcs]
    BY <1>t, <1>p, <2>1, <2>2 DEF Types
  <2>4. /\ pc'[UART] \in Pc.uart /\ pc'[NET] \in Pc.network
        /\ \A t \in Sensor : pc'[t] \in Pc.sensor
    BY <1>t, <2>1, Tasks DEF Types
  <2> QED
    BY <1>4, <1>t, <2>3, <2>4, Tasks DEF SensorRelease, PortAfter, Types
<1>5. CASE SensorDone(s)
  <2>1. netQueue' \in NetQueues
    <3>1. netQueue \in NetQueues /\ s \in Sensor \cup {RES}
      BY <1>t DEF Types
    <3>2. \/ netQueue' = netQueue
          \/ Len(netQueue) < NetQueueSize /\ netQueue' = Append(netQueue, s)
      BY <1>5 DEF SensorDone, PostAsync
    <3>3. CASE Len(netQueue) < NetQueueSize /\ netQueue' = Append(netQueue, s)
      BY <3>1, <3>3, QueueTypes
    <3> QED
      BY <3>1, <3>2, <3>3
  <2>2. wait' \in [Task -> Nat]
    BY <1>5, <1>t, Constants DEF SensorDone, Types
  <2> QED
    BY <1>5, <1>t, <1>c, <1>p, <2>1, <2>2, Tasks DEF SensorDone, Types
<1> QED
  BY <1>1, <1>2, <1>3, <1>4, <1>5 DEF SensorStep

LEMMA TickType ==
  ASSUME TypeOK, Tick
  PROVE  TypeOK'
<1> SUFFICES Types'
  BY TypePartsNext
<1>t. Types
  BY TypeParts
<1>1. now' \in Millis
  BY <1>t, Millies DEF Tick, Types
<1>2. wait' \in [Task -> Nat]
  BY <1>t DEF Tick, Types
<1>3. uart' \in UartRecords
  BY <1>t DEF Tick, Types, UartRecords
<1>4. running' \in Task \cup {Free}
  BY Tasks DEF Tick
<1> QED
  BY <1>t, <1>1, <1>2, <1>3, <1>4 DEF Tick, Types

LEMMA TypeStep == TypeOK /\ [Next]_vars => TypeOK'
<1> SUFFICES ASSUME TypeOK, [Next]_vars PROVE TypeOK'
  OBVIOUS
<1>1. CASE \E t \in Task : Block(t)
  BY <1>1, TypeParts, TypePartsNext DEF Block, Types
<1>2. CASE UNCHANGED vars
  BY <1>2, TypeParts, TypePartsNext DEF vars, Types
<1> QED
  BY <1>1, <1>2, UartType, NetType, SensorType, TickType DEF Next

-----------------------------------------------------------------------------
(* Clock and conversation. *)

\* The facts of TypeOK the following proofs use.
LEMMA Values ==
  ASSUME TypeOK
  PROVE  /\ now \in Nat /\ net.lastSend \in Nat /\ uart.elapsed \in Nat
         /\ uart.left \in Nat /\ uart.left * CharDelay \in Nat
         /\ wait \in [Task -> Nat] /\ wait[UART] \in Nat /\ DOMAIN pc = Task
         /\ netQueue \in Seq(Sensor \cup {RES}) /\ uartQueue \in Seq(Cmd)
         /\ Len(uartQueue) <= 1
         /\ net \in NetRecords /\ uart \in UartRecords
         /\ net.pending \in BOOLEAN /\ net.process \in Cmd
         /\ pc[UART] \in {"idle", "sending", "listening", "posting"}
         /\ pc[NET] \in {"begin", "receive", "next", "posting", "waiting", "answered"}
         /\ \A s \in Sensor : pc[s] \in {"poll", "queued", "granted", "sensing", "sensed", "released"}
<1>t. Types
  BY TypeParts
<1>1. /\ net.lastSend \in Millis /\ uart.left \in Lefts /\ uart.elapsed \in Nat
      /\ net.pending \in BOOLEAN /\ net.process \in Cmd
  BY <1>t DEF Types, NetRecords, UartRecords
<1>2. /\ now \in Nat /\ net.lastSend \in Nat /\ uart.left \in Nat
      /\ uart.left * CharDelay \in Nat
  <2>1. now \in Nat /\ net.lastSend \in Nat /\ uart.left \in Nat
    BY <1>t, <1>1, Millies DEF Types
  <2> QED
    BY <2>1, Product, Constants
<1>3. wait \in [Task -> Nat] /\ wait[UART] \in Nat /\ DOMAIN pc = Task
  BY <1>t, Tasks DEF Types
<1>4. /\ netQueue \in Seq(Sensor \cup {RES}) /\ uartQueue \in Seq(Cmd) /\ Len(uartQueue) <= 1
  BY DEF TypeOK, UartQueueSize
<1>5. /\ pc[UART] \in {"idle", "sending", "listening", "posting"}
      /\ pc[NET] \in {"begin", "receive", "next", "posting", "waiting", "answered"}
      /\ \A s \in Sensor : pc[s] \in {"poll", "queued", "granted", "sensing", "sensed", "released"}
  BY <1>t, PcKinds DEF Types
<1> QED
  BY <1>t, <1>1, <1>2, <1>3, <1>4, <1>5 DEF Types

\* The invariant holds at the start.
LEMMA InitIndInv ==
  ASSUME NoWrap, Init
  PROVE  IndInv
<1>1. /\ now = 0 /\ net.lastSend = Later(0, 2 * SendInterval)
      /\ 2 * SendInterval \in Nat
  BY Constants DEF Init
<1>2. 0 + 2 * SendInterval <= Horizon + CommandTimeout + UplinkTimeout + DownlinkTimeout
                              + 3 * SendInterval
  BY Constants
<1>3. net.lastSend = 2 * SendInterval
  BY <1>1, <1>2, LaterIsSum
<1>4. ClockInv
  BY <1>1, <1>3, Constants DEF ClockInv
<1>5. Conversation
  BY Tasks DEF Init, Conversation, Preparing, AtRest, NoResponse
<1> QED
  BY <1>4, <1>5, InitType DEF IndInv

\* A step of the network task adds to the clock's value at most a timeout.
LEMMA ClockStep ==
  ASSUME NoWrap, TypeOK, ClockInv, [Next]_vars
  PROVE  ClockInv'
<1> DEFINE Bound == Horizon + CommandTimeout + UplinkTimeout + DownlinkTimeout + 2 * SendInterval
<1>v. now \in Nat /\ net.lastSend \in Nat /\ net \in NetRecords /\ now <= Horizon
      /\ net.lastSend <= Bound /\ Bound \in Nat
  BY Values, Constants DEF ClockInv
<1>l. \A d \in Nat : d <= CommandTimeout + UplinkTimeout + DownlinkTimeout =>
        Later(now, d) = now + d /\ now + d <= Bound
  <2> SUFFICES ASSUME NEW d \in Nat, d <= CommandTimeout + UplinkTimeout + DownlinkTimeout
               PROVE  Later(now, d) = now + d /\ now + d <= Bound
    OBVIOUS
  <2>1. now + d <= Bound
        /\ now + d <= Horizon + CommandTimeout + UplinkTimeout + DownlinkTimeout + 3 * SendInterval
    BY <1>v, Constants
  <2> QED
    BY <1>v, <2>1, LaterIsSum
<1>1. CASE Tick
  <2>1. Later(now, 1) = now + 1
    BY <1>l, Constants
  <2> QED
    BY <1>1, <1>v, <2>1, Constants DEF Tick, ClockInv
<1>2. ASSUME NEW list, StartList(list), now' = now
      PROVE  ClockInv'
  <2>1. Later(now, DownlinkTimeout) = now + DownlinkTimeout /\ now + DownlinkTimeout <= Bound
    BY <1>l, Constants
  <2>2. net'.lastSend = Later(now, DownlinkTimeout)
    BY <1>2, <1>v DEF StartList, NetRecords
  <2> QED
    BY <1>2, <1>v, <2>1, <2>2 DEF ClockInv
<1>3. ASSUME now' = now, net'.lastSend \in {net.lastSend, now}
      PROVE  ClockInv'
  BY <1>3, <1>v, Constants DEF ClockInv
<1>4. CASE NetStep
  <2>1. CASE NetBegin
    BY <1>2, <2>1 DEF NetBegin
  <2>2. CASE NetData
    BY <1>2, <1>3, <2>2 DEF NetData
  <2>3. CASE NetResponse
    BY <1>3, <1>v, <2>3 DEF NetResponse, NetRecords
  <2>4. CASE NetNext
    <3>1. CASE net.index > Len(net.list)
      BY <1>3, <1>v, <2>4, <3>1 DEF NetNext, Done, NetRecords
    <3>2. CASE ~(net.index > Len(net.list))
      <4>1. now' = now /\ net'.lastSend = Later(now, TimeoutOf(net.list[net.index]))
        BY <1>v, <2>4, <3>2 DEF NetNext, ExpectedEnd, NetRecords
      <4> QED
        BY <1>l, <1>v, <4>1, TimeoutType DEF ClockInv
    <3> QED
      BY <3>1, <3>2
  <2>5. CASE NetPost
    BY <1>3, <1>v, <2>5 DEF NetPost, Posted, Done, NetRecords
  <2>6. CASE NetAnswered
    BY <1>3, <1>v, <2>6 DEF NetAnswered, Done, NetRecords
  <2> QED
    BY <1>4, <2>1, <2>2, <2>3, <2>4, <2>5, <2>6 DEF NetStep
<1>5. ASSUME UNCHANGED <<now, net>>
      PROVE  ClockInv'
  BY <1>5 DEF ClockInv
<1>6. CASE UartStep
  BY <1>5, <1>6 DEF UartStep, UartReceive, UartSendChar, UartSent, UartWait, UartAnswered,
       UartTimeout, UartPost
<1>7. CASE \E s \in Sensor : SensorStep(s) \/ SensorReady(s)
  BY <1>5, <1>7 DEF SensorStep, SensorReady, SensorStart, SensorNotReady, SensorRelease, SensorDone
<1>8. CASE (\E t \in Task : Block(t)) \/ UNCHANGED vars
  BY <1>5, <1>8 DEF Block, vars
<1> QED
  BY <1>1, <1>4, <1>6, <1>7, <1>8 DEF Next

\* Conversation is about these variables, of pc and wait only about these parts.
LEMMA ConversationFrame ==
  ASSUME Conversation, UNCHANGED <<now, netQueue, uartQueue, uartData, uart, net>>,
         pc'[UART] = pc[UART], pc'[NET] = pc[NET], wait'[UART] = wait[UART]
  PROVE  Conversation'
BY DEF Conversation, Preparing, Waiting, Expecting, OnTheWay, SentAt, AtRest, NoResponse,
       OneResponse, AnswersByMessage, TimeoutOf

\* The UART task takes a command on from stage to stage, with its time.
LEMMA ConversationUart ==
  ASSUME IndInv, UartStep
  PROVE  Conversation'
<1>v. /\ now \in Nat /\ net.lastSend \in Nat /\ uart.elapsed \in Nat
      /\ uart.left \in Nat /\ uart.left * CharDelay \in Nat
      /\ wait \in [Task -> Nat] /\ wait[UART] \in Nat /\ DOMAIN pc = Task
      /\ uartQueue \in Seq(Cmd) /\ netQueue \in Seq(Sensor \cup {RES}) /\ uart \in UartRecords
  BY Values DEF IndInv
<1>c. Conversation
  BY DEF IndInv
<1>k. \A cmd : TimeoutOf(cmd) \in Nat
  BY TimeoutType
\* The UART task works for the network task.
<1>w. pc[UART] # "idle" \/ uartQueue # <<>> =>
        \/ Waiting /\ OnTheWay(net.process)
        \/ Expecting /\ NoResponse(netQueue) /\ OnTheWay(net.process)
        \/ Expecting /\ NoResponse(netQueue) /\ pc[UART] = "posting" /\ uart.cmd = net.process
           /\ uartQueue = <<>>
  BY <1>c DEF Conversation, Preparing, Waiting, Expecting, AtRest
<1>f. ASSUME OnTheWay(net.process), OnTheWay(net.process)', Waiting \/ Expecting,
             UNCHANGED <<now, netQueue, uartData, net>>, pc'[NET] = pc[NET]
      PROVE  Conversation'
  <2>1. CASE Waiting
    BY <1>f, <2>1 DEF Conversation, Waiting, NoResponse, AnswersByMessage
  <2>2. CASE Expecting
    <3>1. NoResponse(netQueue)
      <4>1. <<net.process>> # <<>>
        OBVIOUS
      <4>2. ~AtRest
        BY <1>f, <4>1 DEF OnTheWay, AtRest
      <4> QED
        BY <2>2, <4>2 DEF Expecting
    <3> QED
      BY <1>f, <2>2, <3>1 DEF Conversation, Expecting, NoResponse, AnswersByMessage
  <2> QED
    BY <1>f, <2>1, <2>2
<1>1. CASE UartReceive
  <2>1. pc[UART] = "idle" /\ uartQueue # <<>>
    BY <1>1, Guards DEF UartReceive
  <2>2. /\ uartQueue = <<net.process>> /\ now = net.lastSend - TimeoutOf(net.process)
        /\ (Waiting \/ Expecting) /\ OnTheWay(net.process)
    BY <1>w, <2>1 DEF OnTheWay
  <2>3. /\ uartQueue' = <<>> /\ uart'.cmd = net.process /\ uart'.left = Chars
        /\ wait'[UART] = StartDelay /\ pc'[UART] = "sending" /\ pc'[NET] = pc[NET]
        /\ UNCHANGED <<now, netQueue, uartData, net>>
    BY <1>1, <1>v, <2>2, Tasks DEF UartReceive
  <2>4. OnTheWay(net.process)'
    BY <1>v, <1>k, <2>2, <2>3, SendingType, Constants DEF OnTheWay, SentAt, Sending, TimeoutOf
  <2> QED
    BY <1>f, <1>w, <2>1, <2>3, <2>4
<1>2. CASE UartSendChar
  <2>1. pc[UART] = "sending" /\ wait[UART] = 0 /\ uart.left > 0
    BY <1>2, Guards DEF UartSendChar
  <2>2. /\ uartQueue = <<>> /\ uart.cmd = net.process
        /\ now + uart.left * CharDelay = SentAt(net.process)
        /\ (Waiting \/ Expecting) /\ OnTheWay(net.process)
    BY <1>v, <1>w, <2>1 DEF OnTheWay
  <2>3. /\ uartQueue' = <<>> /\ uart'.cmd = net.process /\ uart'.left = uart.left - 1
        /\ wait'[UART] = CharDelay /\ pc' = pc
        /\ UNCHANGED <<now, netQueue, uartData, net>>
    BY <1>2, <1>v, <2>2, Tasks DEF UartSendChar, UartRecords
  <2>4. /\ (uart.left - 1) * CharDelay + CharDelay = uart.left * CharDelay
        /\ (uart.left - 1) * CharDelay \in Nat
    <3>1. uart.left - 1 \in Nat /\ uart.left # 0 /\ CharDelay \in Nat
      BY <1>v, <2>1, Constants
    <3>2. (uart.left - 1) * CharDelay \in Nat
      BY <3>1, Product
    <3>3. (uart.left - 1) * CharDelay + CharDelay = uart.left * CharDelay
      BY <1>v, <3>1, Product
    <3> QED
      BY <3>2, <3>3
  <2>5. OnTheWay(net.process)'
    <3>1. SentAt(net.process)' = SentAt(net.process)
      BY <2>3 DEF SentAt, TimeoutOf
    <3>2. now' + wait'[UART] + uart'.left * CharDelay = SentAt(net.process)'
      BY <1>v, <2>2, <2>3, <2>4, <3>1, Constants
    <3> QED
      BY <2>1, <2>3, <3>2 DEF OnTheWay
  <2> QED
    BY <1>f, <1>w, <2>1, <2>3, <2>5
<1>3. CASE UartSent
  <2>1. pc[UART] = "sending" /\ wait[UART] = 0 /\ uart.left = 0
    BY <1>3, Guards DEF UartSent
  <2>2. /\ uartQueue = <<>> /\ uart.cmd = net.process /\ now = SentAt(net.process)
        /\ (Waiting \/ Expecting) /\ OnTheWay(net.process)
    <3>1. uart.left * CharDelay = 0
      BY <2>1, Product, Constants
    <3>2. OnTheWay(net.process)
      BY <1>w, <2>1
    <3> QED
      BY <1>v, <1>w, <2>1, <3>1, <3>2 DEF OnTheWay
  <2>3. /\ uartQueue' = <<>> /\ uart'.cmd = net.process /\ uart'.elapsed = 0
        /\ wait'[UART] = 0 /\ pc'[UART] = "listening" /\ pc'[NET] = pc[NET]
        /\ UNCHANGED <<now, netQueue, uartData, net>>
    BY <1>3, <1>v, <2>1, <2>2, Tasks DEF UartSent, UartRecords
  <2>4. OnTheWay(net.process)'
    <3>1. SentAt(net.process)' = SentAt(net.process) /\ TimeoutOf(net.process)' = TimeoutOf(net.process)
      BY <2>3 DEF SentAt, TimeoutOf
    <3> QED
      BY <1>v, <1>k, <2>2, <2>3, <3>1 DEF OnTheWay
  <2> QED
    BY <1>f, <1>w, <2>1, <2>3, <2>4
<1>4. CASE UartWait
  <2>1. /\ pc[UART] = "listening"
        /\ TimeoutOf(uart.cmd) - uart.elapsed > 2 * ReceiveDelay
    BY <1>4, Guards DEF UartWait, Remaining
  <2>2. /\ uartQueue = <<>> /\ uart.cmd = net.process /\ now - uart.elapsed = SentAt(net.process)
        /\ (Waiting \/ Expecting) /\ OnTheWay(net.process)
    BY <1>v, <1>w, <2>1 DEF OnTheWay
  <2>3. wait'[UART] = ReceiveDelay /\ pc' = pc
        /\ UNCHANGED <<now, netQueue, uartQueue, uart, uartData, net>>
    BY <1>4, <1>v, Tasks DEF UartWait
  <2>4. OnTheWay(net.process)'
    <3>1. SentAt(net.process)' = SentAt(net.process) /\ TimeoutOf(net.process)' = TimeoutOf(net.process)
      BY <2>3 DEF SentAt, TimeoutOf
    <3>2. uart.elapsed + ReceiveDelay <= TimeoutOf(net.process) + 1
      BY <1>v, <1>k, <2>1, <2>2, Constants
    <3> QED
      BY <2>1, <2>2, <2>3, <3>1, <3>2 DEF OnTheWay
  <2> QED
    BY <1>f, <1>w, <2>1, <2>3, <2>4
<1>5. ASSUME NEW good \in BOOLEAN, NEW text \in Text, Finish(good, text),
             pc[UART] = "listening",
             UNCHANGED <<wait, now, port, netQueue, uartQueue, uartData, uart, net>>
      PROVE  Conversation'
  <2>1. uartQueue = <<>> /\ uart.cmd = net.process
    BY <1>5, <1>w DEF OnTheWay
  <2>2. CASE Waiting
    <3>1. pc'[UART] = "idle" /\ pc'[NET] = "answered"
      BY <1>5, <1>v, <2>1, <2>2, Tasks DEF Finish, Waiting
    <3>2. Preparing'
      BY <1>5, <2>1, <2>2, <3>1 DEF Waiting, Preparing, AtRest, NoResponse
    <3> QED
      BY <3>2 DEF Conversation
  <2>3. CASE Expecting /\ NoResponse(netQueue)
    <3>1. pc'[UART] = "posting" /\ pc'[NET] = pc[NET]
      BY <1>5, <1>v, <2>1, <2>3, Tasks DEF Finish, Expecting
    <3>2. Expecting'
      BY <1>5, <2>1, <2>3, <3>1 DEF Expecting, NoResponse, AnswersByMessage
    <3> QED
      BY <3>2 DEF Conversation
  <2> QED
    BY <1>5, <1>w, <2>2, <2>3
<1>6. CASE UartAnswered \/ UartTimeout
  BY <1>5, <1>6 DEF UartAnswered, UartTimeout
<1>7. CASE UartPost
  <2>1. /\ Expecting /\ NoResponse(netQueue) /\ uartQueue = <<>>
    BY <1>7, <1>w DEF UartPost, OnTheWay
  <2>2. /\ netQueue' = Append(netQueue, RES) /\ pc'[UART] = "idle" /\ pc'[NET] = pc[NET]
        /\ UNCHANGED <<now, uartQueue, uartData, net>>
    BY <1>7, <1>v, Tasks DEF UartPost
  <2>3. OneResponse(netQueue')
    BY <1>v, <2>1, <2>2, AppendResponse
  <2>4. Expecting'
    BY <2>1, <2>2, <2>3 DEF Expecting, AtRest, OneResponse, AnswersByMessage
  <2> QED
    BY <2>4 DEF Conversation
<1> QED
  BY <1>1, <1>2, <1>3, <1>4, <1>6, <1>7 DEF UartStep

\* The network task prepares a command only when none is on its way.
LEMMA ConversationNet ==
  ASSUME NoWrap, SendingIsShort, IndInv, NetStep
  PROVE  Conversation'
<1>v. /\ now \in Nat /\ net.lastSend \in Nat /\ DOMAIN pc = Task /\ net \in NetRecords
      /\ uartQueue \in Seq(Cmd) /\ netQueue \in Seq(Sensor \cup {RES})
      /\ now <= Horizon
  BY Values DEF IndInv, ClockInv
<1>c. Conversation
  BY DEF IndInv
<1>p. pc[NET] \notin {"waiting", "receive"} => Preparing
  BY <1>c DEF Conversation, Waiting, Expecting
<1>s. ASSUME Preparing, UNCHANGED <<uartQueue>>, NoResponse(netQueue'), pc'[UART] = pc[UART],
             ~net'.pending, pc'[NET] \notin {"waiting", "posting"}
      PROVE  Conversation'
  BY <1>s DEF Conversation, Preparing, AtRest, NoResponse
<1>n. \A list : StartList(list) => ~net'.pending
  BY <1>v DEF StartList, NetRecords
<1>1. CASE NetBegin
  <2>1. Preparing
    BY <1>1, <1>p DEF NetBegin
  <2>2. /\ UNCHANGED <<uartQueue, netQueue>> /\ pc'[UART] = pc[UART] /\ pc'[NET] = "next"
        /\ ~net'.pending
    BY <1>1, <1>v, <1>n, Tasks DEF NetBegin
  <2> QED
    BY <1>s, <2>1, <2>2 DEF Preparing
<1>2. CASE NetData
  <2>1. /\ netQueue # <<>> /\ Head(netQueue) # RES /\ netQueue' = Tail(netQueue)
        /\ UNCHANGED <<now, uartQueue, uartData, uart, wait>> /\ pc[NET] = "receive"
    BY <1>2, Guards DEF NetData
  <2>2. /\ NoResponse(netQueue) => NoResponse(netQueue')
        /\ OneResponse(netQueue) => OneResponse(netQueue')
    BY <1>v, <2>1, TailOfQueue
  <2>3. CASE Preparing
    <3>1. /\ pc'[UART] = pc[UART] /\ pc'[NET] \in {"receive", "next"} /\ ~net'.pending
      BY <1>2, <1>v, <1>n, <2>1, <2>3, Tasks DEF NetData, Preparing
    <3> QED
      BY <1>s, <2>1, <2>2, <2>3, <3>1 DEF Preparing
  <2>4. CASE Expecting
    <3>1. Throttled
      <4>1. /\ now <= net.lastSend + Sending + 1 /\ Sending + 1 < SendInterval
        BY <2>4 DEF Expecting, SendingIsShort
      <4>2. net.lastSend + SendInterval <= Horizon + CommandTimeout + UplinkTimeout
                                           + DownlinkTimeout + 3 * SendInterval
        BY <1>v, Constants DEF IndInv, ClockInv
      <4>3. Later(net.lastSend, SendInterval) = net.lastSend + SendInterval
        BY <1>v, <4>2, LaterIsSum, Constants
      <4> QED
        BY <1>v, <4>1, <4>3, SendingType, Constants DEF Throttled
    <3>2. UNCHANGED <<net, pc>>
      BY <1>2, <3>1 DEF NetData
    <3>3. Expecting'
      BY <2>1, <2>2, <2>4, <3>2 DEF Expecting, OnTheWay, SentAt, AtRest, NoResponse,
        OneResponse, AnswersByMessage, TimeoutOf
    <3> QED
      BY <3>3 DEF Conversation
  <2> QED
    BY <1>c, <2>1, <2>3, <2>4 DEF Conversation, Waiting
<1>3. CASE NetResponse
  <2>1. /\ netQueue # <<>> /\ Head(netQueue) = RES /\ netQueue' = Tail(netQueue)
        /\ UNCHANGED <<now, uartQueue, pc>> /\ pc[NET] = "receive"
    BY <1>3, Guards DEF NetResponse
  <2>2. ~NoResponse(netQueue) /\ (OneResponse(netQueue) => NoResponse(netQueue'))
    BY <1>v, <2>1, TailOfQueue
  <2>3. Expecting /\ AtRest /\ OneResponse(netQueue)
    BY <1>c, <2>2 DEF Conversation, Preparing, Waiting, Expecting
  <2>4. ~net'.pending
    BY <1>3, <1>v, <2>3 DEF NetResponse, Expecting, NetRecords
  <2>5. Preparing'
    BY <2>1, <2>2, <2>3, <2>4 DEF Preparing, AtRest, NoResponse
  <2> QED
    BY <2>5 DEF Conversation
<1>4. CASE NetNext
  <2>1. Preparing
    BY <1>4, <1>p DEF NetNext
  <2>2. CASE net.index > Len(net.list)
    <3>1. /\ UNCHANGED <<uartQueue, netQueue>> /\ pc'[UART] = pc[UART] /\ pc'[NET] = "receive"
          /\ ~net'.pending
      BY <1>4, <1>v, <2>1, <2>2, Tasks DEF NetNext, Done, NetRecords, Preparing
    <3> QED
      BY <1>s, <2>1, <3>1 DEF Preparing
  <2>3. CASE ~(net.index > Len(net.list))
    <3> DEFINE cmd == net.list[net.index]
    <3>1. /\ UNCHANGED <<now, uartQueue, netQueue>> /\ pc'[UART] = pc[UART] /\ pc'[NET] = "posting"
          /\ uartData' = cmd /\ net'.process = cmd /\ net'.lastSend = Later(now, TimeoutOf(cmd))
          /\ net'.pending = net.pending
      BY <1>4, <1>v, <2>3, Tasks DEF NetNext, NetRecords, ExpectedEnd
    <3>2. /\ TimeoutOf(cmd) \in Nat
          /\ now + TimeoutOf(cmd) <= Horizon + CommandTimeout + UplinkTimeout
                                     + DownlinkTimeout + 3 * SendInterval
      BY <1>v, TimeoutType, Constants
    <3>3. net'.lastSend = now + TimeoutOf(cmd)
      BY <1>v, <3>1, <3>2, LaterIsSum
    <3> HIDE DEF cmd
    <3>4. TimeoutOf(net.process)' = TimeoutOf(cmd)
      BY <3>1 DEF TimeoutOf
    <3>5. now' = net'.lastSend - TimeoutOf(net.process)'
      BY <1>v, <3>1, <3>2, <3>3, <3>4
    <3>6. Preparing'
      BY <2>1, <3>1, <3>5 DEF Preparing, AtRest, NoResponse
    <3> QED
      BY <3>6 DEF Conversation
  <2> QED
    BY <2>2, <2>3
<1>5. CASE NetPost
  <2>1. /\ Preparing /\ uartData = net.process /\ now = net.lastSend - TimeoutOf(net.process)
    BY <1>5, <1>p DEF NetPost, Preparing
  <2>2. /\ uartQueue' = <<net.process>> /\ pc'[UART] = "idle"
        /\ UNCHANGED <<now, netQueue, uartData>>
        /\ net'.process = net.process /\ net'.lastSend = net.lastSend
    BY <1>5, <1>v, <2>1, Tasks DEF NetPost, Preparing, AtRest, Posted, Done, NetRecords
  <2>3. OnTheWay(net.process)'
    BY <2>1, <2>2 DEF OnTheWay, TimeoutOf
  <2>4. CASE AnswersByMessage(net.process)
    <3>1. net'.pending /\ pc'[NET] = "receive"
      BY <1>5, <1>v, <2>4, Tasks DEF NetPost, Posted, Done, NetRecords
    <3>2. now' <= net'.lastSend + Sending + 1
      BY <1>v, <2>1, <2>2, TimeoutType, SendingType
    <3>3. Expecting'
      BY <2>1, <2>2, <2>3, <2>4, <3>1, <3>2 DEF Expecting, Preparing, NoResponse, AnswersByMessage
    <3> QED
      BY <3>3 DEF Conversation
  <2>5. CASE ~AnswersByMessage(net.process)
    <3>1. ~net'.pending /\ pc'[NET] = "waiting"
      BY <1>5, <1>v, <2>1, <2>5, Tasks DEF NetPost, Posted, Preparing
    <3>2. Waiting'
      BY <2>1, <2>2, <2>3, <2>5, <3>1 DEF Waiting, Preparing, NoResponse, AnswersByMessage
    <3> QED
      BY <3>2 DEF Conversation
  <2> QED
    BY <2>4, <2>5
<1>6. CASE NetAnswered
  <2>1. Preparing
    BY <1>6, <1>p DEF NetAnswered
  <2>2. /\ UNCHANGED <<uartQueue, netQueue>> /\ pc'[UART] = pc[UART] /\ pc'[NET] \in {"receive", "next"}
    BY <1>6, <1>v, Tasks DEF NetAnswered
  <2>3. ~net'.pending
    BY <1>6, <1>v, <2>1 DEF NetAnswered, Done, NetRecords, Preparing
  <2> QED
    BY <1>s, <2>1, <2>2, <2>3 DEF Preparing
<1> QED
  BY <1>1, <1>2, <1>3, <1>4, <1>5, <1>6 DEF NetStep

\* Sensors take part in the conversation by their data only.
LEMMA ConversationSensor ==
  ASSUME IndInv, NEW s \in Sensor, SensorStep(s) \/ SensorReady(s)
  PROVE  Conversation'
<1>v. /\ DOMAIN pc = Task /\ netQueue \in Seq(Sensor \cup {RES}) /\ wait \in [Task -> Nat]
  BY Values DEF IndInv
<1>c. Conversation
  BY DEF IndInv
<1>1. CASE ~SensorDone(s)
  <2>1. /\ UNCHANGED <<now, netQueue, uartQueue, uartData, uart, net, wait>>
        /\ pc'[UART] = pc[UART] /\ pc'[NET] = pc[NET]
    <3>1. UART \notin FirstQueued /\ NET \notin FirstQueued
      BY Tasks DEF FirstQueued, Queued
    <3> QED
      BY <1>1, <1>v, <3>1, Tasks DEF SensorStep, SensorReady, SensorStart, SensorNotReady, SensorRelease
  <2> QED
    BY <1>c, <2>1, ConversationFrame
<1>2. CASE SensorDone(s)
  <2>1. /\ UNCHANGED <<now, uartQueue, uartData, uart, net>>
        /\ pc'[UART] = pc[UART] /\ pc'[NET] = pc[NET] /\ wait'[UART] = wait[UART]
        /\ netQueue' = netQueue \/ netQueue' = Append(netQueue, s)
    BY <1>2, <1>v, Tasks DEF SensorDone, PostAsync
  <2>2. /\ NoResponse(netQueue) => NoResponse(netQueue')
        /\ OneResponse(netQueue) => OneResponse(netQueue')
    BY <1>v, <2>1, AppendData
  <2> QED
    BY <1>c, <2>1, <2>2 DEF Conversation, Preparing, Waiting, Expecting, OnTheWay, SentAt, AtRest,
      NoResponse, OneResponse, AnswersByMessage, TimeoutOf
<1> QED
  BY <1>1, <1>2

\* The time left of a sending and of a wait for an answer, against the end the
\* network task expects.
LEMMA SendingTime ==
  \A n, w, p, l, t, s \in Nat :
    n + w + p = l - t + s =>
      /\ n <= l + s
      /\ w # 0 => (n + 1) + (w - 1) + p = l - t + s /\ n + 1 <= l + s
OBVIOUS

LEMMA ListeningTime ==
  \A n, e, w, l, t, s \in Nat :
    n - e = l - t + s /\ e + w <= t + 1 =>
      /\ n <= l + s + 1
      /\ w # 0 => /\ (n + 1) - (e + 1) = l - t + s
                 /\ (e + 1) + (w - 1) <= t + 1 /\ n + 1 <= l + s + 1
OBVIOUS

\* The arithmetic of a millisecond of sending: what the wait loses the clock gains.
LEMMA SendingGoesOn ==
  ASSUME now \in Nat, uart.left * CharDelay \in Nat, wait[UART] \in Nat,
         net.lastSend \in Nat, TimeoutOf(net.process) \in Nat, Sending \in Nat,
         now + wait[UART] + uart.left * CharDelay
            = net.lastSend - TimeoutOf(net.process) + Sending,
         wait[UART] # 0
  PROVE  /\ (now + 1) + (wait[UART] - 1) + uart.left * CharDelay
               = net.lastSend - TimeoutOf(net.process) + Sending
         /\ now + 1 <= net.lastSend + Sending
  OBVIOUS

\* The same of a millisecond of listening.
LEMMA ListeningGoesOn ==
  ASSUME now \in Nat, uart.elapsed \in Nat, wait[UART] \in Nat, wait[UART] # 0,
         net.lastSend \in Nat, TimeoutOf(net.process) \in Nat, Sending \in Nat,
         now - uart.elapsed = net.lastSend - TimeoutOf(net.process) + Sending,
         uart.elapsed + wait[UART] <= TimeoutOf(net.process) + 1
  PROVE  /\ (now + 1) - (uart.elapsed + 1)
               = net.lastSend - TimeoutOf(net.process) + Sending
         /\ (uart.elapsed + 1) + (wait[UART] - 1) <= TimeoutOf(net.process) + 1
         /\ now + 1 <= net.lastSend + Sending + 1
  OBVIOUS

\* And of a millisecond of polling.
LEMMA PollingGoesOn ==
  ASSUME now' \in Nat, uart'.elapsed \in Nat, net.lastSend \in Nat,
         TimeoutOf(net.process) \in Nat, Sending \in Nat,
         uart'.elapsed <= TimeoutOf(net.process) + 1,
         now' = net.lastSend - TimeoutOf(net.process) + Sending + uart'.elapsed
  PROVE  now' <= net.lastSend + Sending + 1
  OBVIOUS

\* Time passes only while every command on the way is being sent or waited for.
LEMMA ConversationTick ==
  ASSUME NoWrap, IndInv, Tick
  PROVE  Conversation'
<1>v. /\ now \in Nat /\ net.lastSend \in Nat /\ uart.elapsed \in Nat
      /\ uart.left \in Nat /\ uart.left * CharDelay \in Nat
      /\ wait \in [Task -> Nat] /\ wait[UART] \in Nat
      /\ uart \in UartRecords /\ uartQueue \in Seq(Cmd) /\ netQueue \in Seq(Sensor \cup {RES})
      /\ now + 1 <= Horizon
  <2>1. TypeOK
    BY DEF IndInv
  <2>2. now < Horizon
    BY DEF Tick
  <2>3. now \in Nat /\ now + 1 <= Horizon
    BY <2>1, <2>2, Values, Constants
  <2> QED
    BY <2>1, <2>3, Values
<1>m. /\ now \in Nat /\ net.lastSend \in Nat /\ uart.elapsed \in Nat /\ wait[UART] \in Nat
      /\ uart.left * CharDelay \in Nat
  BY <1>v
<1>c. Conversation
  BY DEF IndInv
<1>k. \A cmd : TimeoutOf(cmd) \in Nat
  BY TimeoutType
<1>1. /\ now' = now + 1
      /\ UNCHANGED <<pc, netQueue, uartQueue, uartData, net>>
      /\ wait'[UART] = IF wait[UART] = 0 THEN 0 ELSE wait[UART] - 1
      /\ uart'.cmd = uart.cmd /\ uart'.left = uart.left
      /\ uart'.elapsed = IF pc[UART] = "listening" THEN uart.elapsed + 1 ELSE uart.elapsed
  <2>1. now + 1 <= Horizon + CommandTimeout + UplinkTimeout + DownlinkTimeout + 3 * SendInterval
    BY <1>v, Constants
  <2>2. Later(now, 1) = now + 1
    BY <1>v, <2>1, LaterIsSum
  <2> QED
    BY <1>v, <2>2, Tasks DEF Tick, UartRecords
\* Who cannot go on.
<1>2. CASE Polling
  <2>1. /\ pc[UART] = "listening" /\ wait[UART] = 0
        /\ TimeoutOf(uart.cmd) - uart.elapsed >= 0
    BY <1>2, <1>v, <1>k, Guards, Constants DEF Polling, Remaining
  <2>2. (Waiting \/ (Expecting /\ NoResponse(netQueue))) /\ OnTheWay(net.process)
    BY <1>c, <2>1 DEF Conversation, Preparing, Waiting, Expecting, AtRest
  <2>3. uartQueue = <<>> /\ uart.cmd = net.process /\ now - uart.elapsed = SentAt(net.process)
    BY <2>1, <2>2 DEF OnTheWay
  <2>4. SentAt(net.process)' = SentAt(net.process) /\ TimeoutOf(net.process)' = TimeoutOf(net.process)
        /\ TimeoutOf(net.process) \in Nat
    BY <1>1, <1>k DEF SentAt, TimeoutOf
  <2>5. OnTheWay(net.process)'
    BY <1>v, <1>1, <2>1, <2>3, <2>4 DEF OnTheWay
  <2>6. uart'.elapsed <= TimeoutOf(net.process) + 1
        /\ now' = net.lastSend - TimeoutOf(net.process) + Sending + uart'.elapsed
    BY <1>v, <1>1, <2>1, <2>3, <2>4, SendingType DEF SentAt
  <2>7. now' <= net.lastSend + Sending + 1
    <3>1. /\ now' \in Nat /\ net.lastSend \in Nat /\ uart'.elapsed \in Nat
          /\ TimeoutOf(net.process) \in Nat /\ Sending \in Nat
      BY <1>m, <1>1, <2>1, <2>4, SendingType
    <3> QED
      BY <2>6, <3>1, PollingGoesOn
  <2> QED
    BY <1>1, <2>2, <2>5, <2>7 DEF Conversation, Waiting, Expecting, NoResponse, AnswersByMessage
<1>3. CASE \A t \in Task : ~CanGoOn(t)
  <2>1. /\ pc[UART] = "idle" => uartQueue = <<>>
        /\ pc[UART] \in {"sending", "listening"} => wait[UART] # 0
        /\ pc[UART] = "posting" => ~(Len(netQueue) < NetQueueSize)
        /\ pc[NET] = "receive" => netQueue = <<>>
        /\ pc[NET] = "posting" => ~(Len(uartQueue) < UartQueueSize)
    BY <1>3, Tasks DEF CanGoOn, UART, NET
  <2>2. CASE Preparing
    <3>1. pc[NET] # "posting"
      BY <2>1, <2>2 DEF Preparing, AtRest, UartQueueSize
    <3> QED
      BY <1>1, <2>2, <3>1 DEF Conversation, Preparing, AtRest, NoResponse
  <2>3. ASSUME OnTheWay(net.process)
        PROVE  OnTheWay(net.process)' /\ now' <= net.lastSend + Sending + 1
    <3>1. <<net.process>> # <<>>
      OBVIOUS
    <3>2. SentAt(net.process)' = SentAt(net.process) /\ TimeoutOf(net.process)' = TimeoutOf(net.process)
          /\ TimeoutOf(net.process) \in Nat
      BY <1>1, <1>k DEF SentAt, TimeoutOf
    <3>3. CASE pc[UART] = "sending"
      <4>1. /\ uartQueue = <<>> /\ uart.cmd = net.process /\ wait[UART] # 0
            /\ now + wait[UART] + uart.left * CharDelay = SentAt(net.process)
        BY <2>1, <2>3, <3>3 DEF OnTheWay
      <4>2. now' + wait'[UART] + uart'.left * CharDelay = SentAt(net.process)
            /\ now' <= net.lastSend + Sending + 1
        <5>1. /\ now' = now + 1 /\ wait'[UART] = wait[UART] - 1
              /\ uart'.left * CharDelay = uart.left * CharDelay
          BY <1>1, <4>1
        <5>c. Sending \in Nat
          BY SendingType
        <5>2. /\ SentAt(net.process) = net.lastSend - TimeoutOf(net.process) + Sending
              /\ Sending \in Nat
          BY SendingType DEF SentAt
        <5>a. /\ now + wait[UART] + uart.left * CharDelay
                   = net.lastSend - TimeoutOf(net.process) + Sending
              /\ TimeoutOf(net.process) \in Nat /\ wait[UART] # 0
          BY <3>2, <4>1, <5>2
        <5>b. /\ (now + 1) + (wait[UART] - 1) + uart.left * CharDelay
                   = net.lastSend - TimeoutOf(net.process) + Sending
              /\ now + 1 <= net.lastSend + Sending
          BY <1>m, <5>a, <5>c, SendingGoesOn
        <5>3. /\ (now + 1) + (wait[UART] - 1) + uart.left * CharDelay = SentAt(net.process)
              /\ now + 1 <= net.lastSend + Sending
          BY <5>2, <5>b
        <5>4. now' <= net.lastSend + Sending + 1
          BY <1>v, <5>1, <5>2, <5>3
        <5> QED
          BY <5>1, <5>3, <5>4
      <4> QED
        BY <1>1, <3>2, <3>3, <4>1, <4>2 DEF OnTheWay
    <3>4. CASE pc[UART] = "listening"
      <4>1. /\ uartQueue = <<>> /\ uart.cmd = net.process /\ wait[UART] # 0
            /\ now - uart.elapsed = SentAt(net.process)
            /\ uart.elapsed + wait[UART] <= TimeoutOf(net.process) + 1
        BY <2>1, <2>3, <3>4 DEF OnTheWay
      <4>2. /\ now' - uart'.elapsed = SentAt(net.process)
            /\ uart'.elapsed + wait'[UART] <= TimeoutOf(net.process) + 1
            /\ now' <= net.lastSend + Sending + 1
        <5>1. /\ now' = now + 1 /\ wait'[UART] = wait[UART] - 1
              /\ uart'.elapsed = uart.elapsed + 1
          BY <1>1, <3>4, <4>1
        <5>c. Sending \in Nat
          BY SendingType
        <5>2. /\ SentAt(net.process) = net.lastSend - TimeoutOf(net.process) + Sending
              /\ Sending \in Nat
          BY SendingType DEF SentAt
        <5>3. /\ (now + 1) - (uart.elapsed + 1) = SentAt(net.process)
              /\ (uart.elapsed + 1) + (wait[UART] - 1) <= TimeoutOf(net.process) + 1
              /\ now + 1 <= net.lastSend + Sending + 1
          <6>1. /\ now - uart.elapsed = net.lastSend - TimeoutOf(net.process) + Sending
                /\ TimeoutOf(net.process) \in Nat /\ wait[UART] # 0
            BY <3>2, <4>1, <5>2
          <6>2. /\ (now + 1) - (uart.elapsed + 1)
                     = net.lastSend - TimeoutOf(net.process) + Sending
                /\ (uart.elapsed + 1) + (wait[UART] - 1) <= TimeoutOf(net.process) + 1
                /\ now + 1 <= net.lastSend + Sending + 1
            BY <1>m, <4>1, <5>c, <6>1, ListeningGoesOn
          <6> QED
            BY <5>2, <6>2
        <5> QED
          BY <5>1, <5>3
      <4> QED
        BY <1>1, <3>2, <3>4, <4>1, <4>2 DEF OnTheWay
    <3> QED
      BY <2>1, <2>3, <3>1, <3>3, <3>4 DEF OnTheWay
  <2>4. CASE Waiting
    BY <1>1, <2>3, <2>4 DEF Conversation, Waiting, NoResponse, AnswersByMessage
  <2>5. CASE Expecting
    <3>1. netQueue = <<>>
      BY <2>1, <2>5 DEF Expecting
    <3>2. ~OneResponse(netQueue) /\ NoResponse(netQueue)
      BY <3>1 DEF OneResponse, NoResponse
    <3>3. pc[UART] # "posting"
      BY <2>1, <3>1 DEF NetQueueSize
    <3>4. OnTheWay(net.process)
      BY <2>5, <3>2, <3>3 DEF Expecting
    <3> QED
      BY <1>1, <2>3, <2>5, <3>2, <3>4 DEF Conversation, Expecting, NoResponse, AnswersByMessage
  <2> QED
    BY <1>c, <2>2, <2>4, <2>5 DEF Conversation
<1> QED
  BY <1>2, <1>3 DEF Tick

\* Every step preserves the invariant.
LEMMA IndInvStep ==
  ASSUME NoWrap, SendingIsShort, IndInv, [Next]_vars
  PROVE  IndInv'
<1>1. TypeOK' /\ ClockInv'
  BY TypeStep, ClockStep DEF IndInv
<1>2. CASE (\E t \in Task : Block(t)) \/ UNCHANGED vars
  <2>1. /\ UNCHANGED <<now, netQueue, uartQueue, uartData, uart, net>>
        /\ pc' = pc /\ wait' = wait
    BY <1>2 DEF Block, vars
  <2>2. Conversation'
    BY <2>1, ConversationFrame DEF IndInv
  <2> QED
    BY <1>1, <2>2 DEF IndInv
<1>3. Conversation'
  <2>1. CASE UNCHANGED vars
    BY <1>2, <2>1 DEF IndInv
  <2>2. CASE \E t \in Task : Block(t)
    BY <1>2, <2>2 DEF IndInv
  <2> QED
    BY <2>1, <2>2, ConversationUart, ConversationNet, ConversationSensor, ConversationTick DEF Next
<1> QED
  BY <1>1, <1>3 DEF IndInv

\* The types of the application's state hold for any sensors, priorities,
\* delays and timeouts, also when the clock wraps (sensor.cpp, wisol.cpp,
\* uart.cpp): no queue overflows, no index leaves its list.
THEOREM TypeCorrect == Spec => []TypeOK
<1> QED
  BY InitType, TypeStep, PTL DEF Spec

LEMMA IndInvHolds == ASSUME NoWrap, SendingIsShort PROVE Spec => []IndInv
<1>1. Init => IndInv
  BY InitIndInv
<1>2. IndInv /\ [Next]_vars => IndInv'
  BY IndInvStep
<1> QED
  BY <1>1, <1>2, PTL DEF Spec

\* Until millis() wraps, no command is queued while the UART task works
\* (uart.h:13): the throttle, counted from the expected end of a command, keeps
\* a second command list from starting.
THEOREM OneAtATime == ASSUME NoWrap, SendingIsShort PROVE Spec => []OneUartMessage
<1>1. IndInv => OneUartMessage
  BY DEF IndInv, Conversation, Preparing, Waiting, Expecting, OnTheWay, AtRest, OneUartMessage
<1> QED
  BY <1>1, IndInvHolds, PTL

\* Until millis() wraps, the one command buffer is not rewritten while the UART
\* task sends from it (wisol.cpp:104, uart.cpp:98-107).
THEOREM BufferIsStable == ASSUME NoWrap, SendingIsShort PROVE Spec => []CommandIsStable
<1>1. IndInv => CommandIsStable
  BY DEF IndInv, Conversation, Preparing, Waiting, Expecting, OnTheWay, AtRest, CommandIsStable
<1> QED
  BY <1>1, IndInvHolds, PTL

\* Until millis() wraps, the network task never waits for an event that is not
\* coming, nor the two tasks for each other (wisol.cpp:118, uart.cpp:164-174).
THEOREM NoDeadlock == ASSUME NoWrap, SendingIsShort PROVE Spec => []NetworkIsAnswered
<1>1. IndInv => NetworkIsAnswered
  BY DEF IndInv, Conversation, Preparing, Waiting, Expecting, OnTheWay, NetworkIsAnswered
<1> QED
  BY <1>1, IndInvHolds, PTL

\* Until millis() wraps, a command has ended one tick after its timeout, which
\* counts from its being sent (uart.cpp:112-154, wisol.cpp:105).
THEOREM EndsInTime == ASSUME NoWrap, SendingIsShort PROVE Spec => []AnsweredInTime
<1>1. IndInv => AnsweredInTime
  <2> SUFFICES ASSUME IndInv, pc[NET] = "waiting" \/ pc[UART] \in {"sending", "listening"}
               PROVE  now <= net.lastSend + StartDelay + Chars * CharDelay + 1
    BY DEF AnsweredInTime
  <2>1. OnTheWay(net.process)
    BY DEF IndInv, Conversation, Preparing, Waiting, Expecting, AtRest
  <2>2. /\ now \in Nat /\ net.lastSend \in Nat /\ uart.elapsed \in Nat /\ wait[UART] \in Nat
        /\ uart.left * CharDelay \in Nat /\ TimeoutOf(net.process) \in Nat
        /\ Chars * CharDelay \in Nat /\ StartDelay \in Nat
    BY Values, TimeoutType, SendingType, Constants DEF IndInv
  <2>3. /\ Sending = StartDelay + Chars * CharDelay /\ Sending \in Nat
        /\ SentAt(net.process) = net.lastSend - TimeoutOf(net.process) + Sending
    BY SendingType DEF Sending, SentAt
  <2>4. now <= net.lastSend + Sending + 1
    <3>1. CASE pc[UART] = "idle"
      BY <2>1, <2>2, <2>3, <3>1 DEF OnTheWay
    <3>2. CASE pc[UART] = "sending"
      <4>1. now + wait[UART] + uart.left * CharDelay = SentAt(net.process)
        BY <2>1, <3>2 DEF OnTheWay
      <4>2. now <= net.lastSend + Sending
        BY <2>2, <2>3, <4>1, SendingTime
      <4> QED
        BY <2>2, <2>3, <4>2
    <3>3. CASE pc[UART] = "listening"
      <4>1. /\ now - uart.elapsed = SentAt(net.process)
            /\ uart.elapsed + wait[UART] <= TimeoutOf(net.process) + 1
        BY <2>1, <3>3 DEF OnTheWay
      <4> QED
        BY <2>2, <2>3, <4>1, ListeningTime
    <3> QED
      BY <2>1, <3>1, <3>2, <3>3 DEF OnTheWay
  <2> QED
    BY <2>2, <2>3, <2>4
<1> QED
  BY <1>1, IndInvHolds, PTL

-----------------------------------------------------------------------------
(* The port. *)

Holders == {s \in Sensor : pc[s] \in {"granted", "sensing", "sensed"}}

PortIsTaken ==
  \/ port = 1 /\ Holders = {} /\ Queued = {}
  \/ port = 0 /\ \E s \in Sensor : Holders = {s}

\* Of any sensors one is the most urgent.
LEMMA MostUrgent ==
  ASSUME NEW Q, Q \subseteq Sensor, Q # {}
  PROVE  \E q \in Q : {s \in Q : \A u \in Q : Prio[s] <= Prio[u]} = {q}
<1> DEFINE P == {Prio[s] : s \in Q}
           Before == {pair \in Nat \X Nat : pair[1] < pair[2]}
<1>1. \A s \in Q : Prio[s] \in Nat /\ \A u \in Q : Prio[s] = Prio[u] => s = u
  BY TaskAssumption DEF Task
<1>2. P \subseteq Nat /\ P # {}
  BY <1>1
<1>3. IsWellFoundedOn(Before, Nat)
  <2>1. Before = OpToRel(<, Nat)
    BY DEF OpToRel
  <2> QED
    BY <2>1, NatLessThanWellFounded
<1>4. PICK p \in P : \A r \in P : ~(<<r, p>> \in Before)
  BY <1>2, <1>3, WFMin
<1>5. ASSUME NEW r \in P
      PROVE  p <= r
  <2>1. p \in Nat /\ r \in Nat /\ ~(<<r, p>> \in Before)
    BY <1>2, <1>4
  <2> HIDE DEF P
  <2>2. r < p => <<r, p>> \in Before
    BY <2>1
  <2> QED
    BY <2>1, <2>2
<1>6. PICK q \in Q : p = Prio[q]
  OBVIOUS
<1>7. \A u \in Q : Prio[q] <= Prio[u]
  BY <1>5, <1>6
<1>8. \A s \in Q : (\A u \in Q : Prio[s] <= Prio[u]) => s = q
  BY <1>1, <1>7
<1> QED
  BY <1>7, <1>8

\* Of the tasks' positions only the sensors' matter.
LEMMA PortFrame ==
  ASSUME PortIsTaken, port' = port, \A s \in Sensor : pc'[s] = pc[s]
  PROVE  PortIsTaken'
<1>1. Holders' = Holders /\ Queued' = Queued
  BY DEF Holders, Queued
<1> QED
  BY <1>1 DEF PortIsTaken

\* A sensor's step takes the port when it is free, or hands it on.
LEMMA PortStep ==
  ASSUME TypeOK, PortIsTaken, NEW s \in Sensor, SensorStep(s) \/ SensorReady(s)
  PROVE  PortIsTaken'
<1>d. DOMAIN pc = Task /\ s \in Task /\ \A t \in Sensor : t \in Task
  BY Values, Tasks
<1>1. CASE SensorStart(s)
  <2>1. /\ pc[s] = "poll" /\ port' = 0
        /\ \A t \in Sensor : pc'[t] = IF t # s THEN pc[t]
                                     ELSE IF port = 0 THEN "queued" ELSE "granted"
    BY <1>1, <1>d DEF SensorStart
  <2>2. CASE port = 0
    <3>1. Holders' = Holders
      BY <2>1, <2>2 DEF Holders
    <3> QED
      BY <2>1, <2>2, <3>1 DEF PortIsTaken
  <2>3. CASE port = 1
    <3>1. Holders = {}
      BY <2>3 DEF PortIsTaken
    <3>2. Holders' = {s}
      BY <2>1, <2>3, <3>1 DEF Holders
    <3> QED
      BY <2>1, <3>2 DEF PortIsTaken
  <2> QED
    BY <2>2, <2>3 DEF PortIsTaken
<1>2. CASE SensorNotReady(s) \/ SensorReady(s)
  <2>1. /\ pc[s] \in {"granted", "sensing", "sensed"} /\ port' = port
        /\ pc'[s] \in {"granted", "sensing", "sensed"}
        /\ \A t \in Sensor : t # s => pc'[t] = pc[t]
    BY <1>2, <1>d DEF SensorNotReady, SensorReady
  <2>2. Holders' = Holders /\ Queued' = Queued
    BY <2>1 DEF Holders, Queued
  <2> QED
    BY <2>1, <2>2 DEF PortIsTaken
<1>3. CASE SensorRelease(s)
  <2>1. /\ pc[s] \in {"granted", "sensed"} /\ port' = PortAfter
        /\ \A t \in Sensor : pc'[t] = IF t = s THEN "released"
                                     ELSE IF t \in FirstQueued THEN "granted" ELSE pc[t]
    BY <1>3, <1>d DEF SensorRelease
  <2>2. Holders = {s}
    BY <2>1 DEF Holders, PortIsTaken
  <2>3. s \notin Queued /\ Queued \subseteq Sensor /\ FirstQueued \subseteq Queued
    BY <2>1 DEF Queued, FirstQueued
  <2>4. Holders' = FirstQueued
    BY <2>1, <2>2, <2>3 DEF Holders
  <2>5. CASE Queued = {}
    <3>1. Queued' = {}
      BY <2>1, <2>3, <2>5 DEF Queued
    <3> QED
      BY <2>1, <2>3, <2>4, <2>5, <3>1 DEF PortAfter, PortIsTaken
  <2>6. CASE Queued # {}
    <3>1. \E q \in Queued : FirstQueued = {q}
      BY <2>3, <2>6, MostUrgent DEF FirstQueued
    <3> QED
      BY <2>1, <2>3, <2>4, <2>6, <3>1 DEF PortAfter, PortIsTaken
  <2> QED
    BY <2>5, <2>6
<1>4. CASE SensorDone(s)
  <2>1. /\ pc[s] = "released" /\ port' = port /\ pc'[s] = "poll"
        /\ \A t \in Sensor : t # s => pc'[t] = pc[t]
    BY <1>4, <1>d DEF SensorDone
  <2>2. Holders' = Holders /\ Queued' = Queued
    BY <2>1 DEF Holders, Queued
  <2> QED
    BY <2>1, <2>2 DEF PortIsTaken
<1> QED
  BY <1>1, <1>2, <1>3, <1>4 DEF SensorStep

LEMMA PortInvStep == TypeOK /\ PortIsTaken /\ [Next]_vars => PortIsTaken'
<1> SUFFICES ASSUME TypeOK, PortIsTaken, [Next]_vars
             PROVE  PortIsTaken'
  OBVIOUS
<1>d. DOMAIN pc = Task
  BY Values
<1>1. CASE UartStep
  <2>1. port' = port /\ \A t \in Sensor : pc'[t] = pc[t]
    BY <1>1, <1>d, Tasks DEF UartStep, UartReceive, UartSendChar, UartSent, UartWait,
       UartAnswered, UartTimeout, UartPost, Finish
  <2> QED
    BY <2>1, PortFrame
<1>2. CASE NetStep
  <2>1. port' = port /\ \A t \in Sensor : pc'[t] = pc[t]
    BY <1>2, <1>d, Tasks DEF NetStep, NetBegin, NetData, NetResponse, NetNext, NetPost,
       NetAnswered
  <2> QED
    BY <2>1, PortFrame
<1>3. CASE \E s \in Sensor : SensorStep(s) \/ SensorReady(s)
  BY <1>3, PortStep
<1>4. CASE (\E t \in Task : Block(t)) \/ Tick \/ UNCHANGED vars
  <2>1. port' = port /\ pc' = pc
    BY <1>4 DEF Block, Tick, vars
  <2> QED
    BY <2>1, PortFrame
<1> QED
  BY <1>1, <1>2, <1>3, <1>4 DEF Next

LEMMA PortIsTakenHolds == Spec => []PortIsTaken
<1>1. Init => PortIsTaken
  <2> SUFFICES ASSUME Init PROVE PortIsTaken
    OBVIOUS
  <2>1. port = 1 /\ \A s \in Sensor : pc[s] = "poll"
    BY Tasks DEF Init
  <2> QED
    BY <2>1 DEF PortIsTaken, Holders, Queued
<1> QED
  BY <1>1, TypeCorrect, PortInvStep, PTL DEF Spec

\* The sensors exclude each other on the shared port, however many there are,
\* and the port goes to one of those that wait (sensor.cpp:61-98).
THEOREM SensorsExcludeEachOther == Spec => []PortIsExclusive
<1>1. PortIsTaken => PortIsExclusive
  BY FS_EmptySet, FS_Singleton DEF PortIsTaken, Holders, PortIsExclusive
<1> QED
  BY <1>1, PortIsTakenHolds, PTL

-----------------------------------------------------------------------------
(* The port is a semaphore. *)

AbstractPort == <<Alone(port), Alone(Queued), {}>>

LEMMA PortAside ==
  ASSUME port' = port, \A t \in Sensor : pc'[t] = "queued" <=> pc[t] = "queued"
  PROVE  UNCHANGED AbstractPort
<1>1. Queued' = Queued
  BY DEF Queued
<1> QED
  BY <1>1 DEF AbstractPort, Alone

\* A sensor's step is a step of the semaphore or leaves it alone.
LEMMA SensorStepIsPortStep ==
  ASSUME TypeOK, PortIsTaken, NEW s \in Sensor, SensorStep(s) \/ SensorReady(s)
  PROVE  [Port!Next]_AbstractPort
<1>d. DOMAIN pc = Task /\ s \in Task /\ \A t \in Sensor : t \in Task
  BY Values, Tasks
<1>1. CASE SensorStart(s)
  <2>1. /\ pc[s] = "poll" /\ port' = 0
        /\ \A t \in Sensor : pc'[t] = IF t # s THEN pc[t]
                                     ELSE IF port = 0 THEN "queued" ELSE "granted"
    BY <1>1, <1>d DEF SensorStart
  <2>2. CASE port = 0
    <3>1. s \notin Queued /\ Queued' = Queued \cup {s}
      BY <2>1, <2>2 DEF Queued
    <3>2. /\ Alone(port)[PORT] = 0
          /\ \A q \in {PORT} : s \notin Alone(Queued)[q]
          /\ Alone(Queued)' = [Alone(Queued) EXCEPT ![PORT] = @ \cup {s}]
          /\ Alone(port)' = Alone(port)
      BY <2>1, <2>2, <3>1 DEF Alone
    <3>3. Port!Wait(s, PORT)
      BY <3>2 DEF Port!Wait
    <3> QED
      BY <3>3 DEF Port!Next
  <2>3. CASE port = 1
    <3>1. Queued' = Queued
      BY <2>1, <2>3 DEF Queued
    <3>2. /\ Alone(port)[PORT] = 1
          /\ Alone(port)' = [Alone(port) EXCEPT ![PORT] = @ - 1]
          /\ Alone(Queued)' = Alone(Queued)
      BY <2>1, <2>3, <3>1 DEF Alone
    <3>3. Port!Take(PORT)
      BY <3>2 DEF Port!Take
    <3> QED
      BY <3>3 DEF Port!Next
  <2> QED
    BY <2>2, <2>3 DEF PortIsTaken
<1>2. CASE SensorNotReady(s) \/ SensorReady(s) \/ SensorDone(s)
  <2>1. /\ port' = port /\ pc[s] # "queued" /\ pc'[s] # "queued"
        /\ \A t \in Sensor : t # s => pc'[t] = pc[t]
    BY <1>2, <1>d DEF SensorNotReady, SensorReady, SensorDone
  <2> QED
    BY <2>1, PortAside
<1>3. CASE SensorRelease(s)
  <2>1. /\ pc[s] \in {"granted", "sensed"} /\ port' = PortAfter
        /\ \A t \in Sensor : pc'[t] = IF t = s THEN "released"
                                     ELSE IF t \in FirstQueued THEN "granted" ELSE pc[t]
    BY <1>3, <1>d DEF SensorRelease
  <2>2. port = 0
    BY <2>1 DEF PortIsTaken, Holders
  <2>3. Queued' = Queued \ FirstQueued
    BY <2>1 DEF Queued
  <2>4. CASE Queued = {}
    <3>1. Queued' = {} /\ port' = 1
      BY <2>1, <2>3, <2>4 DEF PortAfter
    <3>2. /\ Alone(Queued)[PORT] = {} /\ Alone(port)[PORT] < Alone(1)[PORT]
          /\ Alone(port)' = [Alone(port) EXCEPT ![PORT] = @ + 1]
          /\ Alone(Queued)' = Alone(Queued)
      BY <2>2, <2>4, <3>1 DEF Alone
    <3>3. Port!Add(PORT)
      BY <3>2 DEF Port!Add
    <3> QED
      BY <3>3 DEF Port!Next
  <2>5. CASE Queued # {}
    <3>1. PICK q \in Queued : FirstQueued = {q}
      BY <2>5, MostUrgent DEF FirstQueued, Queued
    <3>2. \A u \in Queued : u # q => Prio[q] < Prio[u]
      BY <3>1, TaskAssumption DEF FirstQueued, Queued, Task
    <3>3. /\ Alone(Queued)[PORT] = Queued
          /\ Alone(Queued)' = [Alone(Queued) EXCEPT ![PORT] = @ \ {q}]
          /\ Alone(port)' = Alone(port)
      BY <2>1, <2>2, <2>3, <2>5, <3>1 DEF Alone, PortAfter
    <3>4. Port!HandOver(PORT)
      BY <3>2, <3>3 DEF Port!HandOver
    <3> QED
      BY <3>4 DEF Port!Next
  <2> QED
    BY <2>4, <2>5
<1> QED
  BY <1>1, <1>2, <1>3 DEF SensorStep

LEMMA NextIsPortStep == TypeOK /\ PortIsTaken /\ [Next]_vars => [Port!Next]_AbstractPort
<1> SUFFICES ASSUME TypeOK, PortIsTaken, [Next]_vars
             PROVE  [Port!Next]_AbstractPort
  OBVIOUS
<1>d. DOMAIN pc = Task
  BY Values
<1>1. CASE UartStep \/ NetStep
  <2>1. CASE UartStep
    <3>1. port' = port /\ \A t \in Sensor : pc'[t] = pc[t]
      BY <2>1, <1>d, Tasks DEF UartStep, UartReceive, UartSendChar, UartSent, UartWait,
         UartAnswered, UartTimeout, UartPost, Finish
    <3> QED
      BY <3>1, PortAside
  <2>2. CASE NetStep
    <3>1. port' = port /\ \A t \in Sensor : pc'[t] = pc[t]
      BY <2>2, <1>d, Tasks DEF NetStep, NetBegin, NetData, NetResponse, NetNext, NetPost,
         NetAnswered
    <3> QED
      BY <3>1, PortAside
  <2> QED
    BY <1>1, <2>1, <2>2
<1>2. CASE \E s \in Sensor : SensorStep(s) \/ SensorReady(s)
  BY <1>2, SensorStepIsPortStep
<1>3. CASE (\E t \in Task : Block(t)) \/ Tick \/ UNCHANGED vars
  <2>1. port' = port /\ pc' = pc
    BY <1>3 DEF Block, Tick, vars
  <2> QED
    BY <2>1, PortAside
<1> QED
  BY <1>1, <1>2, <1>3 DEF Next

\* However many sensors share the port, its semaphore does what Semaphore says:
\* what SensorNet takes for granted of the kernel is what CocoSemaphores_proofs
\* proves of it (sensor.cpp:61-98, os_sem.c).
THEOREM PortRefinesSemaphore == Spec => PortIsSemaphore
<1>1. Init => Port!Init
  <2> SUFFICES ASSUME Init PROVE Port!Init
    OBVIOUS
  <2>1. port = 1 /\ \A s \in Sensor : pc[s] = "poll"
    BY Tasks DEF Init
  <2>2. Queued = {}
    BY <2>1 DEF Queued
  <2> QED
    BY <2>1, <2>2 DEF Port!Init, Alone
<1>2. TypeOK /\ PortIsTaken /\ [Next]_vars => [Port!Next]_(Port!vars)
  BY NextIsPortStep DEF AbstractPort, Port!vars
<1> QED
  BY <1>1, <1>2, TypeCorrect, PortIsTakenHolds, PTL DEF Spec, PortIsSemaphore, Port!Spec

-----------------------------------------------------------------------------
\* Until millis() wraps, a response message finds the network task expecting
\* it, and there is one per payload (wisol.cpp:113-116, 144).
THEOREM ResponsesAreExpected == ASSUME NoWrap, SendingIsShort PROVE Spec => []AnswerIsExpected
<1> DEFINE onItsWay == \/ pc[UART] # "idle" /\ AnswersByMessage(uart.cmd)
                       \/ \E i \in DOMAIN uartQueue : AnswersByMessage(uartQueue[i])
           arrived == {i \in DOMAIN netQueue : netQueue[i] = RES}
<1>1. IndInv => AnswerIsExpected
  <2> SUFFICES ASSUME IndInv
               PROVE  /\ net.pending <=> onItsWay \/ arrived # {}
                      /\ Cardinality(arrived) <= IF onItsWay THEN 0 ELSE 1
    BY DEF AnswerIsExpected
  <2>1. NoResponse(netQueue) => arrived = {} /\ Cardinality(arrived) = 0
    BY FS_EmptySet DEF NoResponse
  <2>2. OneResponse(netQueue) => arrived # {} /\ Cardinality(arrived) = 1
    <3> SUFFICES ASSUME OneResponse(netQueue)
                 PROVE  arrived # {} /\ Cardinality(arrived) = 1
      OBVIOUS
    <3>1. PICK i \in DOMAIN netQueue : arrived = {i}
      BY DEF OneResponse
    <3> QED
      BY <3>1, FS_Singleton
  <2>3. AtRest => ~onItsWay
    BY DEF AtRest
  <2>4. OnTheWay(net.process) => (onItsWay <=> AnswersByMessage(net.process))
    BY DEF OnTheWay
  <2>5. CASE Preparing
    BY <2>1, <2>3, <2>5 DEF Preparing
  <2>6. CASE Waiting
    BY <2>1, <2>4, <2>6 DEF Waiting
  <2>7. CASE Expecting
    <3>1. (onItsWay /\ NoResponse(netQueue)) \/ (~onItsWay /\ OneResponse(netQueue))
      BY <2>3, <2>4, <2>7 DEF Expecting
    <3> QED
      BY <2>1, <2>2, <2>7, <3>1 DEF Expecting
  <2> QED
    BY <2>5, <2>6, <2>7 DEF IndInv, Conversation
<1> QED
  BY <1>1, IndInvHolds, PTL
=============================================================================
