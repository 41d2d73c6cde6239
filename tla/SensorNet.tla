------------------------------ MODULE SensorNet ------------------------------
(***************************************************************************)
(* The sensor application: the sensor tasks (sensor.cpp) read their        *)
(* sensors over one shared port and send the data to the network task      *)
(* (wisol.cpp, aggregate.cpp), which has the UART task (uart.cpp) send     *)
(* AT commands to the Sigfox module and read its answers.                  *)
(*                                                                         *)
(* The tasks are coroutines of cocoOS: "running" is the task that has the  *)
(* processor, and keeps it until it blocks; then the most urgent task that *)
(* can go on is next.  A task that waits for a message, a semaphore or an  *)
(* event can go on when there is one: that the kernel's waits have that    *)
(* effect is the subject of MsgQueue and CocoKernel.  What a task does     *)
(* between two waits takes no time; the receive loop of the UART task,     *)
(* which polls the port for up to two receive delays, does.                *)
(***************************************************************************)
EXTENDS Integers, Sequences, FiniteSets

CONSTANTS
  Sensor,
  Prio,             \* task priorities: smaller is more urgent
  Free,             \* no task has the processor
  StartDelay,       \* delayAfterStart
  CharDelay,        \* delayAfterSend
  ReceiveDelay,     \* delayReceive
  Chars,            \* the length of a command
  CommandTimeout, UplinkTimeout, DownlinkTimeout,
  SendInterval, PollInterval,
  Downlink,         \* ENABLE_DOWNLINK
  PowerOnly,        \* zone RCZ1 or RCZ3: no channel commands
  Wrap,             \* millis() counts modulo Wrap (2^32)
  Horizon           \* bound: the clock stops here

UART == "uart"
NET == "network"
RES == "RES"  \* RESPONSE_SENSOR_NAME, the sender of a response message
Task == {UART, NET} \cup Sensor

ASSUME TaskAssumption ==
  /\ {UART, NET, RES} \cap Sensor = {} /\ Free \notin Task
  /\ Prio \in [Task -> Nat]
  /\ \A t, u \in Task : Prio[t] = Prio[u] => t = u
ASSUME TimeAssumption ==
  /\ {StartDelay, CharDelay, ReceiveDelay, Chars, PollInterval} \subseteq Nat \ {0}
  /\ {CommandTimeout, UplinkTimeout, DownlinkTimeout, SendInterval} \subseteq Nat \ {0}
  /\ Wrap \in Nat \ {0} /\ Horizon \in Nat
ASSUME BuildAssumption == Downlink \in BOOLEAN /\ PowerOnly \in BOOLEAN

VARIABLES
  running,    \* the task that has the processor, or Free
  pc,         \* where each task stands
  wait,       \* what is left of its task_wait
  now,        \* millis()
  port,       \* value of the port semaphore the sensors share
  netQueue,   \* message queue of the network task
  uartQueue,  \* message queue of the UART task
  uartData,   \* uartData: the one command buffer
  uart,       \* UARTContext and its message
  answer,     \* uartContext->status and response, as the network task reads them
  net         \* NetworkContext; its status is only logged

vars == <<running, pc, wait, now, port, netQueue, uartQueue, uartData, uart, answer, net>>

BeginList == <<"emulator", "id", "pac">>
SendList == IF PowerOnly THEN <<"power", "message">>
            ELSE <<"channel", "reset", "message">>
Cmd == {"emulator", "id", "pac", "power", "channel", "reset", "none", "message"}

\* What checkChannel tells apart in a response.
Text == {"short", "stay", "reset"}

Pc == [uart |-> {"idle", "sending", "listening", "posting"},
       network |-> {"begin", "receive", "next", "posting", "waiting", "answered"},
       sensor |-> {"poll", "queued", "granted", "sensing", "sensed", "released"}]

NetQueueSize == 2   \* NETWORK_MSG_POOL_SIZE less the slot a ring keeps free
UartQueueSize == 1  \* UART_MSG_POOL_SIZE less that slot

Later(t, d) == (t + d) % Wrap

-----------------------------------------------------------------------------
(* Scheduling. *)

CanGoOn(t) ==
  \/ t = UART /\ \/ pc[UART] = "idle" /\ uartQueue # <<>>
                 \/ pc[UART] \in {"sending", "listening"} /\ wait[UART] = 0
                 \/ pc[UART] = "posting" /\ Len(netQueue) < NetQueueSize
  \/ t = NET /\ \/ pc[NET] \in {"begin", "next", "answered"}
                \/ pc[NET] = "receive" /\ netQueue # <<>>
                \/ pc[NET] = "posting" /\ Len(uartQueue) < UartQueueSize
  \/ t \in Sensor /\ \/ pc[t] = "poll" /\ wait[t] = 0
                     \/ pc[t] \in {"granted", "sensed", "released"}

\* t has the processor and can go on, or is the next to get it.
Runs(t) ==
  /\ CanGoOn(t)
  /\ \/ running = t
     \/ running = Free /\ \A u \in Task : CanGoOn(u) => Prio[t] <= Prio[u]

\* The running task blocks.
Block(t) ==
  /\ running = t /\ ~CanGoOn(t)
  /\ running' = Free
  /\ UNCHANGED <<pc, wait, now, port, netQueue, uartQueue, uartData, uart, answer, net>>

-----------------------------------------------------------------------------
(* The UART task. *)

TimeoutOf(cmd) ==
  IF cmd # "message" THEN CommandTimeout
  ELSE IF Downlink THEN DownlinkTimeout ELSE UplinkTimeout

\* A message with a payload asks for the answer by message, not by event.
AnswersByMessage(cmd) == cmd = "message"

UartReceive ==
  /\ Runs(UART) /\ pc[UART] = "idle"
  /\ running' = UART
  /\ uartQueue' = Tail(uartQueue)
  /\ uart' = [cmd |-> Head(uartQueue), left |-> Chars, elapsed |-> 0]
  /\ answer' = [good |-> TRUE, text |-> "short"]
  /\ pc' = [pc EXCEPT ![UART] = "sending"]
  /\ wait' = [wait EXCEPT ![UART] = StartDelay]
  /\ UNCHANGED <<now, port, netQueue, uartData, net>>

UartSendChar ==
  /\ Runs(UART) /\ pc[UART] = "sending" /\ uart.left > 0
  /\ running' = UART
  /\ uart' = [uart EXCEPT !.left = @ - 1]
  /\ wait' = [wait EXCEPT ![UART] = CharDelay]
  /\ UNCHANGED <<pc, now, port, netQueue, uartQueue, uartData, answer, net>>

UartSent ==
  /\ Runs(UART) /\ pc[UART] = "sending" /\ uart.left = 0
  /\ running' = UART
  /\ uart' = [uart EXCEPT !.elapsed = 0]
  /\ pc' = [pc EXCEPT ![UART] = "listening"]
  /\ UNCHANGED <<wait, now, port, netQueue, uartQueue, uartData, answer, net>>

AllOfIt == TimeoutOf(uart.cmd)

Remaining == TimeoutOf(uart.cmd) - uart.elapsed

\* Nothing to read yet, and time enough to let the other tasks run.
UartWait ==
  /\ Runs(UART) /\ pc[UART] = "listening" /\ Remaining > 2 * ReceiveDelay
  /\ running' = UART
  /\ wait' = [wait EXCEPT ![UART] = ReceiveDelay]
  /\ UNCHANGED <<pc, now, port, netQueue, uartQueue, uartData, uart, answer, net>>

\* With less time left the loop polls the port and keeps the processor.
Polling == Runs(UART) /\ pc[UART] = "listening" /\ Remaining \in 0 .. 2 * ReceiveDelay

FinishBadSilently(good, text) ==
  /\ running' = UART
  /\ answer' = [good |-> good, text |-> text]
  /\ pc' = IF AnswersByMessage(uart.cmd) THEN [pc EXCEPT ![UART] = "posting"]
           ELSE IF good /\ pc[NET] = "waiting" THEN [pc EXCEPT ![UART] = "idle", ![NET] = "answered"]
           ELSE [pc EXCEPT ![UART] = "idle"]

\* The end of a transfer: a message or one of the two events.
Finish(good, text) ==
  /\ running' = UART
  /\ answer' = [good |-> good, text |-> text]
  /\ pc' = IF AnswersByMessage(uart.cmd) THEN [pc EXCEPT ![UART] = "posting"]
           ELSE IF pc[NET] = "waiting" THEN [pc EXCEPT ![UART] = "idle", ![NET] = "answered"]
           ELSE [pc EXCEPT ![UART] = "idle"]

UartAnswered ==
  /\ Runs(UART) /\ pc[UART] = "listening"
  /\ \E text \in Text : Finish(TRUE, text)
  /\ UNCHANGED <<wait, now, port, netQueue, uartQueue, uartData, uart, net>>

\* Too late, and too few end-of-response markers seen.
UartTimeout ==
  /\ Runs(UART) /\ pc[UART] = "listening" /\ Remaining < 0
  /\ \E text \in Text : Finish(FALSE, text)
  /\ UNCHANGED <<wait, now, port, netQueue, uartQueue, uartData, uart, net>>

UartPost ==
  /\ Runs(UART) /\ pc[UART] = "posting"
  /\ running' = UART
  /\ netQueue' = Append(netQueue, RES)
  /\ pc' = [pc EXCEPT ![UART] = "idle"]
  /\ UNCHANGED <<wait, now, port, uartQueue, uartData, uart, answer, net>>

-----------------------------------------------------------------------------
(* The network task. *)

\* The context for a new command list; the send semaphore, which only this
\* task takes, is free.
StartList(list) ==
  net' = [net EXCEPT !.list = list, !.index = 1, !.pending = FALSE,
                     !.lastSend = Later(now, DownlinkTimeout)]

NetBegin ==
  /\ Runs(NET) /\ pc[NET] = "begin"
  /\ running' = NET
  /\ StartList(BeginList)
  /\ pc' = [pc EXCEPT ![NET] = "next"]
  /\ UNCHANGED <<wait, now, port, netQueue, uartQueue, uartData, uart, answer>>

Throttled == Later(net.lastSend, SendInterval) > now

NetData ==
  /\ Runs(NET) /\ pc[NET] = "receive" /\ Head(netQueue) # RES
  /\ running' = NET
  /\ netQueue' = Tail(netQueue)
  /\ IF Throttled THEN UNCHANGED <<net, pc>>
     ELSE /\ StartList(SendList)
          /\ pc' = [pc EXCEPT ![NET] = "next"]
  /\ UNCHANGED <<wait, now, port, uartQueue, uartData, uart, answer>>

\* processPendingResponse
NetResponse ==
  /\ Runs(NET) /\ pc[NET] = "receive" /\ Head(netQueue) = RES
  /\ running' = NET
  /\ netQueue' = Tail(netQueue)
  /\ net' = IF net.pending
            THEN [net EXCEPT !.pending = FALSE, !.lastSend = now] ELSE net
  /\ UNCHANGED <<pc, wait, now, port, uartQueue, uartData, uart, answer>>

\* Erase the list and release the semaphore.
Done(n) == [n EXCEPT !.list = <<>>, !.index = 1]

NoMargin(cmd) == now

\* lastSend while a command is under way
ExpectedEnd(cmd) == Later(now, TimeoutOf(cmd))

NetNext ==
  /\ Runs(NET) /\ pc[NET] = "next"
  /\ running' = NET
  /\ IF net.index > Len(net.list)
     THEN /\ net' = Done([net EXCEPT !.lastSend = now])
          /\ pc' = [pc EXCEPT ![NET] = "receive"]
          /\ UNCHANGED uartData
     ELSE /\ uartData' = net.list[net.index]
          /\ net' = [net EXCEPT !.process = net.list[net.index],
                                !.lastSend = ExpectedEnd(net.list[net.index])]
          /\ pc' = [pc EXCEPT ![NET] = "posting"]
  /\ UNCHANGED <<wait, now, port, netQueue, uartQueue, uart, answer>>

PostedNothingPending(cmd) ==
  IF AnswersByMessage(cmd) THEN Done(net) ELSE net

\* What the network task remembers once it has posted a command.
Posted(cmd) ==
  IF AnswersByMessage(cmd) THEN Done([net EXCEPT !.pending = TRUE]) ELSE net

NetPost ==
  /\ Runs(NET) /\ pc[NET] = "posting"
  /\ running' = NET
  /\ uartQueue' = Append(uartQueue, net.process)
  /\ net' = Posted(net.process)
  /\ pc' = [pc EXCEPT ![NET] = IF AnswersByMessage(net.process) THEN "receive" ELSE "waiting"]
  /\ UNCHANGED <<wait, now, port, netQueue, uartData, uart, answer>>

\* The response functions: only checkChannel can fail, or change the list.
ProcessFails == (net.process = "channel" /\ answer.text = "short") \/ ~answer.good

NextList ==
  IF net.process = "channel" /\ answer.text = "stay"
  THEN [net.list EXCEPT ![net.index + 1] = "none"] ELSE net.list

NetAnswered ==
  /\ Runs(NET) /\ pc[NET] = "answered"
  /\ running' = NET
  /\ IF ProcessFails
     THEN /\ net' = Done(net)
          /\ pc' = [pc EXCEPT ![NET] = "receive"]
     ELSE /\ net' = [net EXCEPT !.list = NextList, !.index = @ + 1]
          /\ pc' = [pc EXCEPT ![NET] = "next"]
  /\ UNCHANGED <<wait, now, port, netQueue, uartQueue, uartData, uart, answer>>

-----------------------------------------------------------------------------
(* The sensor tasks. *)

SensorStart(s) ==
  /\ Runs(s) /\ pc[s] = "poll"
  /\ running' = s
  /\ port' = 0
  /\ pc' = [pc EXCEPT ![s] = IF port = 0 THEN "queued" ELSE "granted"]
  /\ UNCHANGED <<wait, now, netQueue, uartQueue, uartData, uart, answer, net>>

\* poll_sensor or resume_sensor has no data yet.
SensorNotReady(s) ==
  /\ Runs(s) /\ pc[s] \in {"granted", "sensed"}
  /\ running' = s
  /\ pc' = [pc EXCEPT ![s] = "sensing"]
  /\ UNCHANGED <<wait, now, port, netQueue, uartQueue, uartData, uart, answer, net>>

\* The completion interrupt signals the sensor's semaphore.
SensorReady(s) ==
  /\ pc[s] = "sensing"
  /\ pc' = [pc EXCEPT ![s] = "sensed"]
  /\ UNCHANGED <<running, wait, now, port, netQueue, uartQueue, uartData, uart, answer, net>>

Queued == {s \in Sensor : pc[s] = "queued"}

\* The port goes to the most urgent sensor task waiting for it.
FirstQueued == {s \in Queued : \A u \in Queued : Prio[s] <= Prio[u]}

PostAlways(m) == netQueue' = Append(netQueue, m)

PostAsync(m) ==
  netQueue' = IF Len(netQueue) < NetQueueSize THEN Append(netQueue, m) ELSE netQueue

\* sem_signal: the token goes to a waiting task or back to the semaphore.
Returned == 1

PortAfter == IF Queued = {} THEN 1 ELSE 0

\* A signal that frees a waiting task also lets the scheduler choose anew.
SensorRelease(s) ==
  /\ Runs(s) /\ pc[s] \in {"granted", "sensed"}
  /\ running' = IF Queued = {} THEN s ELSE Free
  /\ port' = PortAfter
  /\ pc' = [t \in Task |-> IF t = s THEN "released"
                           ELSE IF t \in FirstQueued THEN "granted" ELSE pc[t]]
  /\ UNCHANGED <<wait, now, netQueue, uartQueue, uartData, uart, answer, net>>

SensorDone(s) ==
  /\ Runs(s) /\ pc[s] = "released"
  /\ running' = s
  /\ PostAsync(s) \/ UNCHANGED netQueue  \* with data or without
  /\ pc' = [pc EXCEPT ![s] = "poll"]
  /\ wait' = [wait EXCEPT ![s] = PollInterval]
  /\ UNCHANGED <<now, port, uartQueue, uartData, uart, answer, net>>

-----------------------------------------------------------------------------
\* One tick of the clock.  The tasks that can go on do so first.
Tick ==
  /\ now < Horizon
  /\ Polling \/ (running = Free /\ \A t \in Task : ~CanGoOn(t))
  /\ running' = IF Polling THEN UART ELSE Free
  /\ now' = Later(now, 1)
  /\ wait' = [t \in Task |-> IF wait[t] = 0 THEN 0 ELSE wait[t] - 1]
  /\ uart' = [uart EXCEPT !.elapsed = IF pc[UART] = "listening" THEN @ + 1 ELSE @]
  /\ UNCHANGED <<pc, port, netQueue, uartQueue, uartData, answer, net>>

Init ==
  /\ running = Free
  /\ pc = [t \in Task |-> IF t = UART THEN "idle" ELSE IF t = NET THEN "begin" ELSE "poll"]
  /\ wait = [t \in Task |-> 0]
  /\ now = 0
  /\ port = 1
  /\ netQueue = <<>> /\ uartQueue = <<>>
  /\ uartData = "none"
  /\ uart = [cmd |-> "none", left |-> 0, elapsed |-> 0]
  /\ answer = [good |-> TRUE, text |-> "short"]
  /\ net = [list |-> <<>>, index |-> 1, pending |-> FALSE, process |-> "none",
            lastSend |-> Later(now, 2 * SendInterval)]

UartStep == UartReceive \/ UartSendChar \/ UartSent \/ UartWait \/ UartAnswered
            \/ UartTimeout \/ UartPost
NetStep == NetBegin \/ NetData \/ NetResponse \/ NetNext \/ NetPost \/ NetAnswered
SensorStep(s) == SensorStart(s) \/ SensorNotReady(s) \/ SensorRelease(s) \/ SensorDone(s)

Next ==
  \/ UartStep
  \/ NetStep
  \/ \E s \in Sensor : SensorStep(s) \/ SensorReady(s)
  \/ \E t \in Task : Block(t)
  \/ Tick

Spec == Init /\ [][Next]_vars

-----------------------------------------------------------------------------
(* Properties. *)

TypeOK ==
  /\ running \in Task \cup {Free}
  /\ pc \in [Task -> UNION {Pc.uart, Pc.network, Pc.sensor}]
  /\ pc[UART] \in Pc.uart /\ pc[NET] \in Pc.network
  /\ \A s \in Sensor : pc[s] \in Pc.sensor
  /\ wait \in [Task -> Nat]
  /\ now \in 0 .. Wrap - 1
  /\ port \in {0, 1}
  /\ netQueue \in Seq(Sensor \cup {RES}) /\ Len(netQueue) <= NetQueueSize
  /\ uartQueue \in Seq(Cmd) /\ Len(uartQueue) <= UartQueueSize
  /\ uartData \in Cmd
  /\ uart \in [cmd : Cmd, left : 0 .. Chars, elapsed : Nat]
  /\ answer \in [good : BOOLEAN, text : Text]
  /\ net \in [list : Seq(Cmd), index : Nat \ {0}, pending : BOOLEAN,
              process : Cmd, lastSend : 0 .. Wrap - 1]

\* The sensors exclude each other on the port they share: at most one task is
\* between sem_wait and sem_signal of the port semaphore, and the semaphore
\* has its token only when none is and none waits (sensor.cpp:61-98).
PortIsExclusive ==
  LET holders == {s \in Sensor : pc[s] \in {"granted", "sensing", "sensed"}} IN
  /\ Cardinality(holders) = 1 - port
  /\ Queued # {} => port = 0

\* No two UART messages at a time (uart.h:13): while the UART task carries out
\* a command no other one is queued, so the one response buffer is read by the
\* network task before the next command clears it.
OneUartMessage == pc[UART] # "idle" => uartQueue = <<>>

\* The command buffer, which the UART task sends from character by character,
\* and the response function are those of the command being carried out: the
\* network task does not prepare a command while one is on its way
\* (wisol.cpp:106-110, uart.cpp:98-107).
CommandIsStable ==
  pc[UART] # "idle" => uartData = uart.cmd /\ net.process = uart.cmd

\* A response message finds the network task expecting it
\* (wisol.cpp:113-116 and 144): pendingResponse is set from the posting of a
\* payload until its response is received, and there is one such response.
AnswerIsExpected ==
  LET onItsWay == \/ pc[UART] # "idle" /\ AnswersByMessage(uart.cmd)
                  \/ \E i \in DOMAIN uartQueue : AnswersByMessage(uartQueue[i])
      arrived == {i \in DOMAIN netQueue : netQueue[i] = RES} IN
  /\ net.pending <=> onItsWay \/ arrived # {}
  /\ Cardinality(arrived) <= IF onItsWay THEN 0 ELSE 1

\* The network task, which while it waits for an event reads no messages, waits
\* for the event of a command that the UART task has or will get, and whose
\* answer does not need room in the network task's queue: the two never wait
\* for each other (wisol.cpp:118, uart.cpp:164-174).
NetworkIsAnswered ==
  pc[NET] = "waiting" =>
    /\ ~AnswersByMessage(net.process)
    /\ \/ pc[UART] = "idle" /\ uartQueue = <<net.process>>
       \/ pc[UART] \in {"sending", "listening"} /\ uart.cmd = net.process

\* Every command ends in time, answered or not: no later than its timeout after
\* it has been sent, to the tick, although the receive loop sleeps between its
\* looks at the clock (uart.cpp:112-154).  lastSend is the end the network task
\* expects (wisol.cpp:105), and the throttle (aggregate.cpp:53) counts from it.
AnsweredInTime ==
  pc[NET] = "waiting" \/ pc[UART] \in {"sending", "listening"} =>
    now <= net.lastSend + StartDelay + Chars * CharDelay + 1
=============================================================================
