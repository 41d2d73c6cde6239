----------------------------- MODULE CocoKernel -----------------------------
(***************************************************************************)
(* The cocoOS scheduler with its semaphores, events, clocks and task       *)
(* states (os_kernel.c, os_task.c, os_sem.c, os_event.c and the macros of  *)
(* cocoos.h, os_sem.h, os_event.h and os_task.h), ROUND_ROBIN undefined.   *)
(*                                                                         *)
(* A task is any program: the running task may make every kernel call.     *)
(* Tasks are cooperative, so only interrupt handlers come between the      *)
(* steps of a call.  A call is one step for each store that a handler may  *)
(* see or overwrite, with what the call has read so far kept in "call".    *)
(* Handlers do not nest: a tick or a signal from one is a single step.     *)
(* All events are in one byte of the wait queue (EVENT_QUEUE_SIZE 1).      *)
(* Left out, as the kernel only stores them: which task signalled an event *)
(* last and the time a task has waited for a semaphore.                    *)
(***************************************************************************)
EXTENDS Integers, FiniteSets

CONSTANTS
  Task, Sem, Event,
  NO_TID,    \* no task
  Prio,      \* prio of task_create: smaller is more urgent
  MaxValue,  \* maxValue and the initial value of sem_counting_create
  InitValue,
  Clock,     \* clock ids; 0 is the master clock, the others are sub clocks
  Times,     \* the times waited for
  Steps,     \* the steps of os_sub_nTick
  Preempt    \* may an interrupt land within a kernel call?

ASSUME NamesAssumption == NO_TID \notin Task
\* task_create asserts that no two tasks have the same priority.
ASSUME PrioAssumption ==
  /\ Prio \in [Task -> 0 .. 255]
  /\ \A t, u \in Task : Prio[t] = Prio[u] => t = u
ASSUME SemAssumption ==
  /\ Sem \subseteq Nat
  /\ MaxValue \in [Sem -> Nat]
  /\ InitValue \in [Sem -> Nat]
  /\ \A s \in Sem : InitValue[s] <= MaxValue[s]
ASSUME ClockAssumption ==
  0 \in Clock /\ Clock \subseteq Nat /\ Times \subseteq Nat \ {0} /\ Steps \subseteq Nat
ASSUME PreemptAssumption == Preempt \in BOOLEAN

VARIABLES
  state,         \* tcb.state
  savedState,    \* tcb.savedState, of a suspended task
  time,          \* tcb.time, of a task waiting on a clock
  clockId,       \* tcb.clockId
  semaphore,     \* tcb.semaphore
  eventQueue,    \* tcb.eventQueue, as the set of its bits
  waitSingle,    \* tcb.waitSingleEvent
  value,         \* semList[].value
  lastSignaled,  \* lastSignaledEvent
  running,       \* running_tid
  call,          \* how far the running task's kernel call, or the search for
                 \* the next task, has got
  cause          \* not in the code: the event that ended a task's last wait and
                 \* whether the task waited for several, or that the clock did

taskVars == <<state, savedState, time, clockId, semaphore, eventQueue, waitSingle>>
eventVars == <<lastSignaled, cause>>
vars == <<taskVars, value, eventVars, running, call>>

NoEvent == "NO_EVENT"
TheClock == "CLOCK"

\* Event ids are smaller than NO_EVENT.
ASSUME EventAssumption == NoEvent \notin Event /\ TheClock \notin Event

NoCause == [event |-> NoEvent, several |-> FALSE]
ByClock == [event |-> TheClock, several |-> FALSE]
ByEvent(e, queue) == [event |-> e, several |-> queue # {e}]

NoCall == [op |-> "none"]

TaskState == {"SUSPENDED", "WAITING_SEM", "WAITING_TIME", "WAITING_EVENT",
              "WAITING_EVENT_TIMEOUT", "READY", "KILLED"}

WaitsForEvent == {"WAITING_EVENT", "WAITING_EVENT_TIMEOUT"}
OnlyEventTimeouts == {"WAITING_EVENT_TIMEOUT"}

WaitsForClock == {"WAITING_TIME", "WAITING_EVENT_TIMEOUT"}

-----------------------------------------------------------------------------
\* The search of os_task_highest_prio_ready_task and of
\* os_task_release_waiting_task: the one task of S with the smallest priority
\* below 255, or none.
LowestPrioOf(S) == {t \in S : \A u \in S : Prio[t] >= Prio[u]}

HighestPrioOf(S) ==
  {t \in S : Prio[t] < 255 /\ \A u \in S : Prio[t] <= Prio[u]}

NotKilled == {t \in Task : state[t] # "KILLED"}

Ready == {t \in Task : state[t] = "READY"}

\* The tasks os_task_waiting_this_semaphore looks for.
WaitersOf(s) == {t \in Task : state[t] = "WAITING_SEM" /\ semaphore[t] = s}

NeverWaiting(s) == FALSE

WaitingThisSemaphore(s) == WaitersOf(s) # {}

\* os_sem_increment of a value
Incremented(s, v) == IF v < MaxValue[s] THEN v + 1 ELSE v

\* os_task_release_waiting_task
ReleaseAllWaiting(s) ==
  state' = [t \in Task |-> IF t \in WaitersOf(s) THEN "READY" ELSE state[t]]

ReleaseWaitingTask(s) ==
  state' = [t \in Task |->
              IF t \in HighestPrioOf(WaitersOf(s)) THEN "READY" ELSE state[t]]

\* os_task_signal_event: the tasks that get the event, and whether it ends the
\* wait of one whose wait queue it found in it.
Hit(e) == {t \in Task : state[t] \in WaitsForEvent /\ e \in eventQueue[t]}

EndsSingleWait(t, e, queue) == waitSingle[t]

EndsWait(t, e, queue) == waitSingle[t] \/ queue = {e}

EndsWaitOf(e) == {t \in Hit(e) : EndsWait(t, e, eventQueue[t])}

SignalEvent(e) ==
  /\ state' = [t \in Task |-> IF t \in EndsWaitOf(e) THEN "READY" ELSE state[t]]
  /\ eventQueue' = [t \in Task |->
                      IF t \in EndsWaitOf(e) THEN {}
                      ELSE IF t \in Hit(e) THEN eventQueue[t] \ {e}
                      ELSE eventQueue[t]]
  /\ waitSingle' = [t \in Task |-> waitSingle[t] /\ t \notin EndsWaitOf(e)]
  /\ lastSignaled' = e
  /\ cause' = [t \in Task |-> IF t \in EndsWaitOf(e) THEN ByEvent(e, eventQueue[t])
                               ELSE cause[t]]

\* os_task_tick
OverdueBy(id, n) ==
  {t \in Task : state[t] \in WaitsForClock /\ clockId[t] = id /\ time[t] < n}

DueBy(id, n) ==
  {t \in Task : state[t] \in WaitsForClock /\ clockId[t] = id /\ time[t] <= n}

TickTasks(id, n) ==
  LET timedOut == {t \in DueBy(id, n) : state[t] = "WAITING_EVENT_TIMEOUT"}
  IN /\ state' = [t \in Task |-> IF t \in DueBy(id, n) THEN "READY" ELSE state[t]]
     /\ time' = [t \in Task |->
                   IF state[t] \in WaitsForClock /\ clockId[t] = id
                   THEN IF time[t] <= n THEN 0 ELSE time[t] - n
                   ELSE time[t]]
     /\ eventQueue' = [t \in Task |-> IF t \in timedOut THEN {} ELSE eventQueue[t]]
     /\ waitSingle' = [t \in Task |-> waitSingle[t] /\ t \notin timedOut]
     /\ cause' = [t \in Task |-> IF t \in DueBy(id, n) THEN ByClock ELSE cause[t]]

-----------------------------------------------------------------------------
Init ==
  /\ state = [t \in Task |-> "READY"]
  /\ savedState = [t \in Task |-> "READY"]
  /\ time = [t \in Task |-> 0]
  /\ clockId = [t \in Task |-> 0]
  /\ semaphore = [t \in Task |-> 0]
  /\ eventQueue = [t \in Task |-> {}]
  /\ waitSingle = [t \in Task |-> FALSE]
  /\ value = InitValue
  /\ lastSignaled = NoEvent
  /\ cause = [t \in Task |-> NoCause]
  /\ running = NO_TID
  /\ call = NoCall

\* os_schedule looks at one task after the other.  Those that were ready when it
\* began have been looked at in the end; those that a handler has readied since
\* may or may not.
Search ==
  /\ running = NO_TID /\ call = NoCall
  /\ call' = [op |-> "schedule", seen |-> Ready]
  /\ UNCHANGED <<taskVars, value, eventVars, running>>

\* os_task_run: the task found goes on where it left off.
Schedule ==
  /\ call.op = "schedule"
  /\ \E t \in Ready :
       /\ t \in HighestPrioOf(call.seen \cup {t})
       /\ running' = t
       /\ cause' = [cause EXCEPT ![t] = NoCause]
  /\ call' = NoCall
  /\ UNCHANGED <<taskVars, value, lastSignaled>>

\* os_cbkSleep: no task has been found.
Sleep ==
  /\ call.op = "schedule"
  /\ HighestPrioOf(call.seen) = {}
  /\ call' = NoCall
  /\ UNCHANGED <<taskVars, value, eventVars, running>>

\* The running task makes a new kernel call.
Calling(t) == running = t /\ call = NoCall

\* OS_SCHEDULE: the task procedure returns to the scheduler.
Yield == running' = NO_TID /\ call' = NoCall

\* sem_wait, as far as its test of the value.
SemWait(t, s) ==
  /\ Calling(t)
  /\ call' = [op |-> IF value[s] > 0 THEN "take" ELSE "block",
              sem |-> s, seen |-> value[s]]
  /\ UNCHANGED <<taskVars, value, eventVars, running>>

\* os_sem_decrement stores what it read, less one.
SemTake ==
  /\ call.op = "take"
  /\ value' = [value EXCEPT ![call.sem] = call.seen - 1]
  /\ call' = NoCall
  /\ UNCHANGED <<taskVars, eventVars, running>>

\* os_task_wait_sem_set stores the state first: until the semaphore is stored
\* the task seems to wait for the one its control block still names.
SemBlock ==
  /\ call.op = "block"
  /\ state' = [state EXCEPT ![running] = "WAITING_SEM"]
  /\ call' = [call EXCEPT !.op = "enter"]
  /\ UNCHANGED <<savedState, time, clockId, semaphore, eventQueue, waitSingle,
                 value, eventVars, running>>

SemEnter ==
  /\ call.op = "enter"
  /\ semaphore' = [semaphore EXCEPT ![running] = call.sem]
  /\ time' = [time EXCEPT ![running] = 0]
  /\ Yield
  /\ UNCHANGED <<state, savedState, clockId, eventQueue, waitSingle, value, eventVars>>

\* sem_signal, as far as its test for a waiting task, and then its search for
\* the one to release.  A handler between the two can only release one of the
\* waiting tasks, and it takes the very one that is found here: the signal is
\* lost in either case.
SemSignal(t, s) ==
  /\ Calling(t)
  /\ call' = IF WaitingThisSemaphore(s)
             THEN [op |-> "release", sem |-> s, found |-> HighestPrioOf(WaitersOf(s))]
             ELSE [op |-> "increment", sem |-> s, seen |-> value[s]]
  /\ UNCHANGED <<taskVars, value, eventVars, running>>

\* os_sem_increment stores what it read, plus one up to the maximum.
SemIncrement ==
  /\ call.op = "increment"
  /\ value' = [value EXCEPT ![call.sem] = Incremented(call.sem, call.seen)]
  /\ call' = NoCall
  /\ UNCHANGED <<taskVars, eventVars, running>>

\* The task found becomes ready, even if a handler has readied it meanwhile.
SemRelease ==
  /\ call.op = "release"
  /\ state' = [t \in Task |-> IF t \in call.found THEN "READY" ELSE state[t]]
  /\ Yield
  /\ UNCHANGED <<savedState, time, clockId, semaphore, eventQueue, waitSingle,
                 value, eventVars>>

-----------------------------------------------------------------------------
\* event_wait and event_wait_timeout do not clear the wait queue first.  No
\* handler looks at the wait queue and the time of a task before its state says
\* that it waits, which is stored last.
EventWait(t, e, timeout) ==
  /\ Calling(t)
  /\ eventQueue' = [eventQueue EXCEPT ![t] = @ \cup {e}]
  /\ waitSingle' = [waitSingle EXCEPT ![t] = TRUE]
  /\ IF timeout # 0
     THEN /\ clockId' = [clockId EXCEPT ![t] = 0]
          /\ time' = [time EXCEPT ![t] = timeout]
          /\ state' = [state EXCEPT ![t] = "WAITING_EVENT_TIMEOUT"]
     ELSE /\ state' = [state EXCEPT ![t] = "WAITING_EVENT"]
          /\ UNCHANGED <<clockId, time>>
  /\ Yield
  /\ UNCHANGED <<savedState, semaphore, value, eventVars>>

\* event_wait_multiple clears the wait queue and then adds one event after the
\* other; from the first on the task is in the waiting state, so that a signal
\* can change the queue between its being read and written, and the state and
\* the queue between the storing of the one and of the other.
EventWaitMultiple(t, waitAll, events) ==
  /\ Calling(t)
  /\ eventQueue' = [eventQueue EXCEPT ![t] = {}]
  /\ waitSingle' = [waitSingle EXCEPT ![t] = FALSE]
  /\ call' = [op |-> "multiple", single |-> ~waitAll, todo |-> events]
  /\ UNCHANGED <<state, savedState, time, clockId, semaphore, value, eventVars,
                 running>>

ReadQueue ==
  /\ call.op = "multiple"
  /\ \E e \in call.todo :
       call' = [op |-> "add", single |-> call.single, todo |-> call.todo \ {e},
                event |-> e, seen |-> eventQueue[running]]
  /\ UNCHANGED <<taskVars, value, eventVars, running>>

AddEvent ==
  /\ call.op = "add"
  /\ eventQueue' = [eventQueue EXCEPT ![running] = call.seen \cup {call.event}]
  /\ call' = [op |-> "added", single |-> call.single, todo |-> call.todo]
  /\ UNCHANGED <<state, savedState, time, clockId, semaphore, waitSingle, value,
                 eventVars, running>>

SetWaiting ==
  /\ call.op = "added"
  /\ waitSingle' = [waitSingle EXCEPT ![running] = call.single]
  /\ state' = [state EXCEPT ![running] = "WAITING_EVENT"]
  /\ IF call.todo = {}
     THEN Yield
     ELSE call' = [call EXCEPT !.op = "multiple"] /\ UNCHANGED running
  /\ UNCHANGED <<savedState, time, clockId, semaphore, eventQueue, value, eventVars>>

\* event_signal stores the last event signalled and goes through the tasks.
EventSignal(t, e) ==
  /\ Calling(t)
  /\ lastSignaled' = e
  /\ call' = [op |-> "signal", event |-> e]
  /\ UNCHANGED <<taskVars, value, cause, running>>

\* For each task the event hits, the wait queue is read before it is written.
Examine ==
  /\ call.op = "signal"
  /\ \E t \in Hit(call.event) :
       call' = [op |-> "wake", event |-> call.event, task |-> t, seen |-> eventQueue[t]]
  /\ UNCHANGED <<taskVars, value, eventVars, running>>

WakeTask ==
  /\ call.op = "wake"
  /\ IF EndsWait(call.task, call.event, call.seen)
     THEN /\ state' = [state EXCEPT ![call.task] = "READY"]
          /\ eventQueue' = [eventQueue EXCEPT ![call.task] = {}]
          /\ waitSingle' = [waitSingle EXCEPT ![call.task] = FALSE]
          /\ cause' = [cause EXCEPT ![call.task] = ByEvent(call.event, call.seen)]
     ELSE /\ eventQueue' = [eventQueue EXCEPT ![call.task] = call.seen \ {call.event}]
          /\ UNCHANGED <<state, waitSingle, cause>>
  /\ call' = [op |-> "signal", event |-> call.event]
  /\ UNCHANGED <<savedState, time, clockId, semaphore, value, lastSignaled, running>>

\* event_signal always yields.
EventSignaled ==
  /\ call.op = "signal"
  /\ Hit(call.event) = {}
  /\ Yield
  /\ UNCHANGED <<taskVars, value, eventVars>>

\* task_wait and task_wait_id
TaskWait(t, id, x) ==
  /\ Calling(t)
  /\ clockId' = [clockId EXCEPT ![t] = id]
  /\ time' = [time EXCEPT ![t] = x]
  /\ state' = [state EXCEPT ![t] = "WAITING_TIME"]
  /\ Yield
  /\ UNCHANGED <<savedState, semaphore, eventQueue, waitSingle, value, eventVars>>

-----------------------------------------------------------------------------
OnlyKilled == {"KILLED"}

NotSuspendable == {"KILLED", "SUSPENDED"}

\* task_suspend, as far as its reading of the state.
TaskSuspend(t, u) ==
  /\ Calling(t)
  /\ IF state[u] \in NotSuspendable
     THEN IF u = t THEN Yield ELSE UNCHANGED <<running, call>>
     ELSE /\ call' = [op |-> "suspend", task |-> u, seen |-> state[u]]
          /\ UNCHANGED running
  /\ UNCHANGED <<taskVars, value, eventVars>>

\* The state that was read is saved, whatever a handler has made of it.  A task
\* that waits for a semaphore will start over when it is resumed.  To suspend
\* oneself yields, to suspend another task does not.
Suspend ==
  /\ call.op = "suspend"
  /\ savedState' = [savedState EXCEPT ![call.task] =
                      IF call.seen = "WAITING_SEM" THEN "READY" ELSE call.seen]
  /\ state' = [state EXCEPT ![call.task] = "SUSPENDED"]
  /\ IF call.task = running THEN Yield ELSE call' = NoCall /\ UNCHANGED running
  /\ UNCHANGED <<time, clockId, semaphore, eventQueue, waitSingle, value, eventVars>>

\* No handler looks at a suspended task.
TaskResume(t, u) ==
  /\ Calling(t)
  /\ state' = [state EXCEPT ![u] = IF @ = "SUSPENDED" THEN savedState[u] ELSE @]
  /\ IF u = t THEN Yield ELSE UNCHANGED <<running, call>>
  /\ UNCHANGED <<savedState, time, clockId, semaphore, eventQueue, waitSingle,
                 value, eventVars>>

\* task_kill does not yield, whoever is killed.
TaskKill(t, u) ==
  /\ Calling(t)
  /\ state' = [state EXCEPT ![u] = "KILLED"]
  /\ UNCHANGED <<savedState, time, clockId, semaphore, eventQueue, waitSingle,
                 value, eventVars, running, call>>

\* task_close: the task procedure ends.
TaskClose(t) ==
  /\ Calling(t)
  /\ state' = [state EXCEPT ![t] = "KILLED"]
  /\ Yield
  /\ UNCHANGED <<savedState, time, clockId, semaphore, eventQueue, waitSingle,
                 value, eventVars>>

-----------------------------------------------------------------------------
\* Interrupt handlers: os_tick, os_sub_tick and os_sub_nTick, sem_ISR_signal
\* and event_ISR_signal.  The port's os_disable_interrupts() is empty, so in the
\* shipped system they land anywhere.
Interruptible == Preempt \/ call = NoCall

OsTick ==
  /\ Interruptible
  /\ TickTasks(0, 1)
  /\ UNCHANGED <<savedState, clockId, semaphore, value, lastSignaled, running, call>>

OsSubTick(id, n) ==
  /\ Interruptible
  /\ id # 0
  /\ TickTasks(id, n)
  /\ UNCHANGED <<savedState, clockId, semaphore, value, lastSignaled, running, call>>

SemISRSignal(s) ==
  /\ Interruptible
  /\ IF WaitingThisSemaphore(s)
     THEN ReleaseWaitingTask(s) /\ UNCHANGED value
     ELSE value' = [value EXCEPT ![s] = Incremented(s, @)] /\ UNCHANGED state
  /\ UNCHANGED <<savedState, time, clockId, semaphore, eventQueue, waitSingle,
                 eventVars, running, call>>

EventISRSignal(e) ==
  /\ Interruptible
  /\ SignalEvent(e)
  /\ UNCHANGED <<savedState, time, clockId, semaphore, value, running, call>>

-----------------------------------------------------------------------------
SemCall(t) == \E s \in Sem : SemWait(t, s) \/ SemSignal(t, s)

EventCall(t) ==
  \/ \E e \in Event : \/ EventSignal(t, e)
                      \/ \E x \in Times \cup {0} : EventWait(t, e, x)
  \/ \E all \in BOOLEAN, events \in SUBSET Event :
       Cardinality(events) > 1 /\ EventWaitMultiple(t, all, events)

TimeCall(t) == \E id \in Clock, x \in Times : TaskWait(t, id, x)

StateCall(t) ==
  \/ \E u \in Task : TaskSuspend(t, u) \/ TaskResume(t, u) \/ TaskKill(t, u)
  \/ TaskClose(t)

\* The rest of a call that takes several steps.
Continue ==
  \/ SemTake \/ SemBlock \/ SemEnter \/ SemIncrement \/ SemRelease
  \/ ReadQueue \/ AddEvent \/ SetWaiting
  \/ Examine \/ WakeTask \/ EventSignaled
  \/ Suspend

Interrupt ==
  \/ OsTick
  \/ \E id \in Clock, n \in Steps : OsSubTick(id, n)
  \/ \E s \in Sem : SemISRSignal(s)
  \/ \E e \in Event : EventISRSignal(e)

Next ==
  \/ Search \/ Schedule \/ Sleep
  \/ \E t \in Task : SemCall(t) \/ EventCall(t) \/ TimeCall(t) \/ StateCall(t)
  \/ Continue
  \/ Interrupt

Spec == Init /\ [][Next]_vars

\* Every task makes a blocking call in the end (docFundamentals.h:87), the
\* scheduler is an endless loop, and the clock ticks whatever the tasks do.
FairSpec ==
  /\ Spec
  /\ WF_vars(Search)
  /\ WF_vars(Schedule \/ Sleep)
  /\ WF_vars(Continue)
  /\ SF_vars(Next /\ running # NO_TID /\ running' = NO_TID)
  /\ SF_vars(OsTick)

-----------------------------------------------------------------------------
\* The type invariant.
TypeOK ==
  /\ state \in [Task -> TaskState]
  /\ savedState \in [Task -> TaskState \ {"SUSPENDED", "KILLED", "WAITING_SEM"}]
  /\ time \in [Task -> Nat]
  /\ clockId \in [Task -> Clock]
  /\ semaphore \in [Task -> Sem \cup {0}]
  /\ eventQueue \in [Task -> SUBSET Event]
  /\ waitSingle \in [Task -> BOOLEAN]
  /\ value \in [Sem -> Nat]
  /\ lastSignaled \in Event \cup {NoEvent}
  /\ running \in Task \cup {NO_TID}
  /\ cause \in [Task -> [event : Event \cup {NoEvent, TheClock}, several : BOOLEAN]]
  /\ \/ call = NoCall
     \/ call \in [op : {"schedule"}, seen : SUBSET Task]
     \/ call \in [op : {"take", "block", "enter", "increment"}, sem : Sem, seen : Nat]
     \/ call \in [op : {"release"}, sem : Sem, found : SUBSET Task]
     \/ call \in [op : {"multiple", "added"}, single : BOOLEAN, todo : SUBSET Event]
     \/ call \in [op : {"add"}, single : BOOLEAN, todo : SUBSET Event,
                  event : Event, seen : SUBSET Event]
     \/ call \in [op : {"signal"}, event : Event]
     \/ call \in [op : {"wake"}, event : Event, task : Task, seen : SUBSET Event]
     \/ call \in [op : {"suspend"}, task : Task,
                  seen : TaskState \ {"SUSPENDED", "KILLED"}]

\* What could wake task t were it in wait state w.
CanBeWoken(t, w) ==
  /\ w \in WaitsForEvent => eventQueue[t] # {}
  /\ w \in WaitsForClock => time[t] > 0

StateOrSaved(t) == IF state[t] = "SUSPENDED" THEN savedState[t] ELSE state[t]

\* A waiting task that nothing can wake is lost to the system.  There is none, also
\* across suspend and resume: no wait queue is emptied and no timer cleared without
\* the task becoming ready (os_task.c:560-566, 611-616).  But an event or the
\* clock can end a wait while a call that has read the task's state or wait queue
\* is still to store them (os_task.c:432-447, 536-545), and be overwritten: such a
\* task has been woken since it last ran, by a handler in the midst of a call.
WaitersCanBeWoken ==
  \A t \in Task : \/ CanBeWoken(t, StateOrSaved(t))
                  \/ Preempt /\ cause[t] # NoCause

\* No interrupt, tick or other task's call takes the processor away from the
\* running task or makes it wait: only its own calls do.
RunningIsReady ==
  \A t \in Task : running = t =>
    \/ state[t] \in {"READY", "KILLED"}
    \/ call.op \in {"multiple", "add", "added"} /\ state[t] = "WAITING_EVENT"
    \/ call.op = "enter" /\ state[t] = "WAITING_SEM"

\* A semaphore never has tokens and waiting tasks (docSemaphores.h:21-22: "The
\* semaphore is only incremented if no tasks are waiting").  A task that is still
\* within sem_wait is not counted.
NoIdleToken == \A s \in Sem : value[s] > 0 => WaitersOf(s) \ {running} = {}

\* Handlers anywhere can make a semaphore lose signals (os_sem.c:137 and 146,
\* os_task.c:383), but no step makes one worth more than it is: it adds one token
\* at most, up to the maximum and only where nobody waits, or frees one waiting
\* task and adds none; and to take a token lowers the value, whatever came between
\* the reading and the storing of it (docSemaphores.h:18-24).  Nothing is said of
\* which semaphore frees a task that is still within sem_wait: a signal of the one
\* its control block names from an earlier wait does (os_task.c:673-674).
NoTokenFromNothing ==
  [][/\ call.op = "take" /\ call' = NoCall => value'[call.sem] < value[call.sem]
     /\ \A s \in Sem : value'[s] > value[s] =>
          /\ value'[s] = value[s] + 1 /\ value'[s] <= MaxValue[s]
          /\ WaitersOf(s) = {}
          /\ \A q \in Sem \ {s} : value'[q] = value[q]
     /\ \A t \in Task : state[t] = "WAITING_SEM" /\ state'[t] = "READY" =>
          /\ value' = value
          /\ \A u \in Task \ {t} : state'[u] = state[u]]_vars

\* A released semaphore goes to one waiting task, the most urgent one, and its
\* value stays as it is (docSemaphores.h:23-24).
HandOff ==
  [][\A t, u \in Task :
       /\ state[t] = "WAITING_SEM" /\ state'[t] = "READY"
       /\ u \in WaitersOf(semaphore[t]) /\ u # t
       => Prio[t] < Prio[u] /\ state'[u] = "WAITING_SEM" /\ value' = value]_vars

\* event_get_timeout is 0 exactly when the wait ended by timeout
\* (docEvents.h:11-12), and a wait ends once: only if a suspension overwrote an
\* end that came in the midst of it (os_task.c:432-447) does it end again, and then
\* the task is told of the second end.
TimeoutTellsApart ==
  [][\A t \in Task :
       state[t] = "WAITING_EVENT_TIMEOUT" /\ state'[t] = "READY" =>
         /\ time'[t] = 0 <=> cause'[t] = ByClock
         /\ cause[t] # NoCause => Preempt]_vars

\* Not so: event_last_signaled_get tells a task that waited for several events
\* which one ended its wait (docEvents.h:20-21).
LastSignaledIsCause ==
  [][\A t \in Task : running = NO_TID /\ running' = t /\ cause[t].several
       => lastSignaled = cause[t].event]_vars

\* A task that waits on the master clock is not left waiting.
TimedWaitEnds ==
  \A t \in Task :
    state[t] = "WAITING_TIME" /\ clockId[t] = 0 ~> state[t] # "WAITING_TIME"

\* The most urgent task runs once it is ready.
MostUrgentRuns ==
  \A t \in Task :
    (\A u \in Task : Prio[t] <= Prio[u]) =>
      (state[t] = "READY" ~> (running = t \/ state[t] # "READY"))
=============================================================================
