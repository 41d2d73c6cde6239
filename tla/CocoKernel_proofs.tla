------------------------- MODULE CocoKernel_proofs -------------------------
(***************************************************************************)
(* Proofs about CocoKernel for every set of tasks, semaphores, events and  *)
(* clocks.                                                                 *)
(***************************************************************************)
EXTENDS CocoKernel, FiniteSetTheorems, TLAPS

\* Task t in wait state w can be woken, or has been and a call overwrote that; a
\* timer that has run out has emptied the wait queue; and a wait has no cause yet
\* unless a handler ended it within a call.
Sound(t, w) ==
  /\ CanBeWoken(t, w) \/ (Preempt /\ cause[t] # NoCause)
  /\ w = "WAITING_EVENT_TIMEOUT" => time[t] > 0 \/ eventQueue[t] = {}
  /\ w \in WaitsForEvent \cup WaitsForClock => cause[t] = NoCause \/ Preempt

TasksSound == \A t \in Task : Sound(t, StateOrSaved(t))

\* Who a call belongs to, and that what it is about to store leaves the tasks sound
\* whatever handlers have done since it read it.
CallSound ==
  /\ call.op = "schedule" => running = NO_TID
  /\ call.op \notin {"none", "schedule"} => running \in Task
  /\ call.op = "take" => call.seen > 0
  /\ call.op = "multiple" => call.todo # {}
  /\ call.op = "added" => Sound(running, "WAITING_EVENT")
  /\ call.op = "wake" =>
       /\ call.event \in call.seen /\ call.task # running
       /\ state[call.task] \in WaitsForEvent \cup {"READY"}
       /\ state[call.task] = "WAITING_EVENT_TIMEOUT" => time[call.task] > 0
  /\ call.op = "suspend" =>
       /\ Sound(call.task, call.seen)
       /\ state[call.task] \in {call.seen, "READY"}

\* The running task's last wait is forgotten.
RunningFresh == \A t \in Task : running = t => cause[t] = NoCause \/ Preempt

IndInv == TypeOK /\ TasksSound /\ CallSound /\ RunningFresh /\ RunningIsReady

\* The call records are told apart by their op.
LEMMA CallTypes ==
  ASSUME TypeOK
  PROVE  /\ call # NoCall => call.op # "none"
         /\ call.op \in {"none", "schedule", "take", "block", "enter", "increment",
                         "release", "multiple", "add", "added", "signal", "wake", "suspend"}
         /\ call.op = "schedule" => call.seen \in SUBSET Task
         /\ call.op \in {"take", "block", "enter", "increment"} =>
              /\ call \in [op : {"take", "block", "enter", "increment"}, sem : Sem, seen : Nat]
              /\ call.sem \in Sem /\ call.seen \in Nat
         /\ call.op = "release" => call.sem \in Sem /\ call.found \in SUBSET Task
         /\ call.op \in {"multiple", "add", "added"} =>
              call.single \in BOOLEAN /\ call.todo \in SUBSET Event
         /\ call.op = "added" =>
              call \in [op : {"multiple", "added"}, single : BOOLEAN, todo : SUBSET Event]
         /\ call.op = "add" => call.event \in Event /\ call.seen \in SUBSET Event
         /\ call.op = "signal" => call.event \in Event
         /\ call.op = "wake" =>
              call.event \in Event /\ call.task \in Task /\ call.seen \in SUBSET Event
         /\ call.op = "suspend" =>
              call.task \in Task /\ call.seen \in TaskState \ {"SUSPENDED", "KILLED"}
BY DEF TypeOK, NoCall

\* The causes of the end of a wait differ from none and from each other.
LEMMA Causes ==
  /\ NoCause \in [event : Event \cup {NoEvent, TheClock}, several : BOOLEAN]
  /\ ByClock \in [event : Event \cup {NoEvent, TheClock}, several : BOOLEAN]
  /\ ByClock # NoCause
  /\ \A e \in Event : \A queue :
       /\ ByEvent(e, queue) \in [event : Event \cup {NoEvent, TheClock}, several : BOOLEAN]
       /\ ByEvent(e, queue) # NoCause /\ ByEvent(e, queue) # ByClock
<1>1. NoEvent # TheClock
  BY DEF NoEvent, TheClock
<1> QED
  BY <1>1, EventAssumption DEF NoCause, ByClock, ByEvent

\* A task that does not wait for an event or the clock is sound.
LEMMA NotWaitingIsSound ==
  ASSUME NEW t \in Task, NEW w, w \notin WaitsForEvent \cup WaitsForClock
  PROVE  Sound(t, w)
BY DEF Sound, CanBeWoken, WaitsForEvent, WaitsForClock

\* The invariant holds after os_init and task_create.
LEMMA InitIndInv == Init => IndInv
<1> SUFFICES ASSUME Init PROVE IndInv
  OBVIOUS
<1>1. TypeOK
  BY NamesAssumption, SemAssumption, ClockAssumption, Causes
     DEF Init, TypeOK, TaskState, NoCall
<1>2. CallSound
  BY DEF Init, CallSound, NoCall
<1>3. RunningIsReady /\ RunningFresh
  BY NamesAssumption DEF Init, RunningIsReady, RunningFresh
<1>4. TasksSound
  BY NotWaitingIsSound DEF Init, TasksSound, StateOrSaved, WaitsForEvent, WaitsForClock
<1> QED
  BY <1>1, <1>2, <1>3, <1>4 DEF IndInv

-----------------------------------------------------------------------------
(* What a step can do to one task. *)

\* All that Sound looks at is as it was.
Same(t) ==
  /\ state'[t] = state[t] /\ savedState'[t] = savedState[t]
  /\ time'[t] = time[t] /\ eventQueue'[t] = eventQueue[t] /\ cause'[t] = cause[t]

\* A handler that does not end the wait of t.
Kept(t) ==
  /\ state'[t] = state[t] /\ cause'[t] = cause[t]
  /\ time'[t] > 0 <=> time[t] > 0
  /\ eventQueue'[t] = {} <=> eventQueue[t] = {}

\* A handler that does.
Ended(t) ==
  /\ state[t] \in WaitsForEvent \cup WaitsForClock /\ state'[t] = "READY"
  /\ cause'[t] # NoCause
  /\ state[t] = "WAITING_EVENT_TIMEOUT" => eventQueue'[t] = {}

\* The release of a semaphore to t.
Freed(t) ==
  /\ state[t] = "WAITING_SEM" /\ state'[t] = "READY"
  /\ time'[t] = time[t] /\ eventQueue'[t] = eventQueue[t] /\ cause'[t] = cause[t]

\* A step that changes one task leaves the others sound.
LEMMA OthersSound ==
  ASSUME TasksSound, NEW u \in Task, \A t \in Task \ {u} : Same(t),
         Sound(u, StateOrSaved(u))'
  PROVE  TasksSound'
<1> SUFFICES ASSUME NEW t \in Task, t # u PROVE Sound(t, StateOrSaved(t))'
  BY DEF TasksSound
<1> DEFINE w == StateOrSaved(t)
<1>1. Same(t) /\ Sound(t, w)
  BY DEF TasksSound
<1>2. StateOrSaved(t)' = w
  BY <1>1 DEF Same, StateOrSaved
<1> QED
  BY <1>1, <1>2 DEF Same, Sound, CanBeWoken

\* Handlers keep the invariant: a call in progress finds what it has read still
\* sound, or its task woken.
LEMMA HandlerKeeps ==
  ASSUME IndInv, TypeOK', Interruptible, UNCHANGED <<savedState, running, call>>,
         \A t \in Task : Kept(t) \/ Ended(t) \/ Freed(t)
  PROVE  IndInv'
<1>t. TypeOK /\ TasksSound /\ CallSound /\ RunningFresh /\ RunningIsReady
  BY DEF IndInv
<1>1. ASSUME NEW t \in Task
      PROVE  state'[t] = state[t] \/ state'[t] = "READY"
  BY DEF Kept, Ended, Freed
<1>2. TasksSound'
  <2> SUFFICES ASSUME NEW t \in Task PROVE Sound(t, StateOrSaved(t))'
    BY DEF TasksSound
  <2>1. CASE Kept(t)
    <3> DEFINE w == StateOrSaved(t)
    <3>1. StateOrSaved(t)' = w /\ Sound(t, w)
      BY <1>t, <2>1 DEF Kept, StateOrSaved, TasksSound
    <3> QED
      BY <2>1, <3>1 DEF Kept, Sound, CanBeWoken
  <2>2. CASE Ended(t) \/ Freed(t)
    <3>1. StateOrSaved(t)' = "READY"
      BY <2>2 DEF Ended, Freed, StateOrSaved
    <3> QED
      BY <3>1 DEF Sound, CanBeWoken, WaitsForEvent, WaitsForClock
  <2> QED
    BY <2>1, <2>2
<1>3. RunningIsReady'
  BY <1>t, <1>1 DEF RunningIsReady
<1>4. RunningFresh'
  <2> SUFFICES ASSUME NEW t \in Task, running = t, ~Preempt PROVE cause'[t] = NoCause
    BY DEF RunningFresh
  <2>1. call = NoCall
    BY DEF Interruptible
  <2>2. ~Ended(t)
    BY <1>t, <2>1 DEF Ended, RunningIsReady, NoCall, WaitsForEvent, WaitsForClock
  <2> QED
    BY <1>t, <2>2 DEF Kept, Freed, RunningFresh
<1>5. CallSound'
  <2>1. call # NoCall => Preempt
    BY DEF Interruptible
  <2>2. ASSUME call.op = "added" PROVE Sound(running, "WAITING_EVENT")'
    <3>1. running \in Task /\ Sound(running, "WAITING_EVENT") /\ Preempt
      BY <1>t, <2>1, <2>2 DEF CallSound, NoCall
    <3>2. state[running] = "WAITING_EVENT" \/ state[running] \notin WaitsForEvent \cup WaitsForClock
      BY <1>t, <2>2, <3>1 DEF RunningIsReady, WaitsForEvent, WaitsForClock
    <3>3. Sound(running, "WAITING_EVENT")'
      <4> DEFINE t == running
      <4>1. t \in Task /\ t' = t /\ Sound(t, "WAITING_EVENT") /\ (Kept(t) \/ Ended(t) \/ Freed(t))
        BY <3>1
      <4>2. CASE Kept(t)
        BY <4>1, <4>2 DEF Kept, Sound, CanBeWoken
      <4>3. CASE Freed(t)
        BY <4>1, <4>3 DEF Freed, Sound, CanBeWoken
      <4>4. CASE Ended(t)
        BY <3>1, <4>4 DEF Ended, Sound, CanBeWoken
      <4> QED
        BY <4>1, <4>2, <4>3, <4>4
    <3> QED
      BY <3>3
  <2>3. ASSUME call.op = "wake"
        PROVE  /\ state'[call.task] \in WaitsForEvent \cup {"READY"}
               /\ state'[call.task] = "WAITING_EVENT_TIMEOUT" => time'[call.task] > 0
    <3>1. call.task \in Task /\ state[call.task] \in WaitsForEvent \cup {"READY"}
            /\ (state[call.task] = "WAITING_EVENT_TIMEOUT" => time[call.task] > 0)
      BY <1>t, <2>3, CallTypes DEF CallSound
    <3> QED
      BY <3>1 DEF Kept, Ended, Freed, WaitsForEvent
  <2>4. ASSUME call.op = "suspend"
        PROVE  Sound(call.task, call.seen)' /\ state'[call.task] \in {call.seen, "READY"}
    <3>1. /\ call.task \in Task /\ Sound(call.task, call.seen) /\ Preempt
          /\ state[call.task] \in {call.seen, "READY"}
      BY <1>t, <2>1, <2>4, CallTypes DEF CallSound, NoCall
    <3>2. Sound(call.task, call.seen)'
      <4> DEFINE t == call.task
                 w == call.seen
      <4>1. /\ t' = t /\ w' = w /\ Sound(t, w) /\ (Kept(t) \/ Ended(t) \/ Freed(t))
            /\ state[t] = w \/ state[t] = "READY"
        BY <3>1
      <4>2. CASE Kept(t)
        BY <4>1, <4>2 DEF Kept, Sound, CanBeWoken
      <4>3. CASE Freed(t)
        BY <4>1, <4>3 DEF Freed, Sound, CanBeWoken
      <4>4. CASE Ended(t)
        BY <3>1, <4>1, <4>4 DEF Ended, Sound, CanBeWoken, WaitsForEvent, WaitsForClock
      <4> QED
        BY <4>1, <4>2, <4>3, <4>4
    <3> QED
      BY <1>1, <3>1, <3>2
  <2> QED
    BY <1>t, <2>2, <2>3, <2>4 DEF CallSound
<1> QED
  BY <1>2, <1>3, <1>4, <1>5 DEF IndInv

\* os_tick and os_sub_tick
LEMMA TickKeeps ==
  ASSUME IndInv, Interruptible, NEW id \in Clock, NEW n \in Nat, TickTasks(id, n),
         UNCHANGED <<savedState, clockId, semaphore, value, lastSignaled, running, call>>
  PROVE  IndInv'
<1>t. TypeOK
  BY DEF IndInv
<1> DEFINE timedOut == {t \in DueBy(id, n) : state[t] = "WAITING_EVENT_TIMEOUT"}
<1>1. /\ state' = [t \in Task |-> IF t \in DueBy(id, n) THEN "READY" ELSE state[t]]
      /\ time' = [t \in Task |->
                   IF state[t] \in WaitsForClock /\ clockId[t] = id
                   THEN IF time[t] <= n THEN 0 ELSE time[t] - n
                   ELSE time[t]]
      /\ eventQueue' = [t \in Task |-> IF t \in timedOut THEN {} ELSE eventQueue[t]]
      /\ waitSingle' = [t \in Task |-> waitSingle[t] /\ t \notin timedOut]
      /\ cause' = [t \in Task |-> IF t \in DueBy(id, n) THEN ByClock ELSE cause[t]]
  BY DEF TickTasks
<1>2. ASSUME NEW t \in Task PROVE Kept(t) \/ Ended(t)
  <2>1. time[t] \in Nat
    BY <1>t DEF TypeOK
  <2>2. CASE t \in DueBy(id, n)
    BY <1>1, <2>2, Causes DEF DueBy, Ended
  <2>3. CASE t \notin DueBy(id, n)
    BY <1>1, <2>1, <2>3 DEF DueBy, Kept
  <2> QED
    BY <2>2, <2>3
<1>3. TypeOK'
  <2>1. state' \in [Task -> TaskState]
    BY <1>t, <1>1 DEF TypeOK, TaskState
  <2>2. time' \in [Task -> Nat]
    BY <1>t, <1>1 DEF TypeOK
  <2>3. eventQueue' \in [Task -> SUBSET Event]
    BY <1>t, <1>1 DEF TypeOK
  <2>4. waitSingle' \in [Task -> BOOLEAN]
    BY <1>t, <1>1, Zenon DEF TypeOK
  <2>5. cause' \in [Task -> [event : Event \cup {NoEvent, TheClock}, several : BOOLEAN]]
    BY <1>t, <1>1, Causes DEF TypeOK
  <2> QED
    BY <1>t, <2>1, <2>2, <2>3, <2>4, <2>5 DEF TypeOK
<1> QED
  BY <1>2, <1>3, HandlerKeeps

\* event_ISR_signal
LEMMA SignalKeeps ==
  ASSUME IndInv, Interruptible, NEW e \in Event, SignalEvent(e),
         UNCHANGED <<savedState, time, clockId, semaphore, value, running, call>>
  PROVE  IndInv'
<1>t. TypeOK
  BY DEF IndInv
<1>1. /\ state' = [t \in Task |-> IF t \in EndsWaitOf(e) THEN "READY" ELSE state[t]]
      /\ eventQueue' = [t \in Task |->
                      IF t \in EndsWaitOf(e) THEN {}
                      ELSE IF t \in Hit(e) THEN eventQueue[t] \ {e}
                      ELSE eventQueue[t]]
      /\ waitSingle' = [t \in Task |-> waitSingle[t] /\ t \notin EndsWaitOf(e)]
      /\ lastSignaled' = e
      /\ cause' = [t \in Task |-> IF t \in EndsWaitOf(e) THEN ByEvent(e, eventQueue[t])
                                   ELSE cause[t]]
  BY DEF SignalEvent
<1>2. ASSUME NEW t \in Task PROVE Kept(t) \/ Ended(t)
  <2>1. CASE t \in EndsWaitOf(e)
    BY <1>1, <2>1, Causes DEF EndsWaitOf, Hit, Ended
  <2>2. CASE t \notin EndsWaitOf(e) /\ t \in Hit(e)
    <3>1. eventQueue[t] # {e} /\ e \in eventQueue[t] /\ eventQueue'[t] = eventQueue[t] \ {e}
      BY <1>1, <2>2 DEF EndsWaitOf, EndsWait, Hit
    <3> QED
      BY <1>1, <2>2, <3>1 DEF Kept
  <2>3. CASE t \notin Hit(e)
    BY <1>1, <2>3 DEF EndsWaitOf, Kept
  <2> QED
    BY <2>1, <2>2, <2>3
<1>3. TypeOK'
  <2>1. state' \in [Task -> TaskState]
    BY <1>t, <1>1 DEF TypeOK, TaskState
  <2>2. eventQueue' \in [Task -> SUBSET Event]
    BY <1>t, <1>1 DEF TypeOK
  <2>3. waitSingle' \in [Task -> BOOLEAN]
    BY <1>t, <1>1, Zenon DEF TypeOK
  <2>4. cause' \in [Task -> [event : Event \cup {NoEvent, TheClock}, several : BOOLEAN]]
    BY <1>t, <1>1, Causes DEF TypeOK
  <2> QED
    BY <1>t, <1>1, <2>1, <2>2, <2>3, <2>4 DEF TypeOK
<1> QED
  BY <1>2, <1>3, HandlerKeeps

\* Interrupt handlers.
LEMMA InterruptSteps ==
  ASSUME IndInv, Interrupt
  PROVE  IndInv'
<1>t. TypeOK
  BY DEF IndInv
<1>1. CASE OsTick
  BY <1>1, TickKeeps, ClockAssumption DEF OsTick
<1>2. ASSUME NEW id \in Clock, NEW n \in Steps, OsSubTick(id, n)
      PROVE  IndInv'
  BY <1>2, TickKeeps, ClockAssumption DEF OsSubTick
<1>3. ASSUME NEW e \in Event, EventISRSignal(e)
      PROVE  IndInv'
  BY <1>3, SignalKeeps DEF EventISRSignal
<1>4. ASSUME NEW s \in Sem, SemISRSignal(s)
      PROVE  IndInv'
  <2>1. /\ Interruptible
        /\ UNCHANGED <<savedState, time, clockId, semaphore, eventQueue, waitSingle,
                       eventVars, running, call>>
    BY <1>4 DEF SemISRSignal
  <2>2. CASE ReleaseWaitingTask(s) /\ UNCHANGED value
    <3>1. state' = [t \in Task |->
                     IF t \in HighestPrioOf(WaitersOf(s)) THEN "READY" ELSE state[t]]
      BY <2>2 DEF ReleaseWaitingTask
    <3>2. \A t \in Task : Kept(t) \/ Freed(t)
      BY <2>1, <3>1 DEF Kept, Freed, HighestPrioOf, WaitersOf, eventVars
    <3>3. state' \in [Task -> TaskState]
      BY <1>t, <3>1 DEF TypeOK, TaskState
    <3>4. TypeOK'
      BY <1>t, <2>1, <2>2, <3>3 DEF TypeOK, eventVars
    <3> QED
      BY <2>1, <3>2, <3>4, HandlerKeeps
  <2>3. CASE value' = [value EXCEPT ![s] = Incremented(s, value[s])] /\ UNCHANGED state
    <3>1. Incremented(s, value[s]) \in Nat
      BY <1>t, SemAssumption DEF Incremented, TypeOK
    <3>2. TypeOK'
      BY <1>t, <2>1, <2>3, <3>1 DEF TypeOK, eventVars
    <3>3. \A t \in Task : Kept(t)
      BY <2>1, <2>3 DEF Kept, eventVars
    <3> QED
      BY <2>1, <3>2, <3>3, HandlerKeeps
  <2> QED
    BY <1>4, <2>2, <2>3 DEF SemISRSignal
<1> QED
  BY <1>1, <1>2, <1>3, <1>4 DEF Interrupt

-----------------------------------------------------------------------------
(* The calls. *)

\* A step of the running task's call that changes no task.
LEMMA OnlyCallMoves ==
  ASSUME IndInv, UNCHANGED <<taskVars, cause>>, TypeOK', CallSound',
         \/ running' = NO_TID
         \/ /\ running' = running
            /\ \/ call.op \notin {"multiple", "add", "added", "enter"}
               \/ call.op = "multiple" /\ call'.op = "add"
  PROVE  IndInv'
<1>t. TypeOK /\ TasksSound /\ RunningFresh /\ RunningIsReady
  BY DEF IndInv
<1>1. TasksSound'
  BY <1>t DEF TasksSound, StateOrSaved, Sound, CanBeWoken, taskVars
<1>2. RunningFresh'
  BY <1>t, NamesAssumption DEF RunningFresh
<1>3. RunningIsReady'
  BY <1>t, NamesAssumption DEF RunningIsReady, taskVars
<1> QED
  BY <1>1, <1>2, <1>3 DEF IndInv

\* A step of the running task's call that changes one task.
LEMMA OneTaskMoves ==
  ASSUME IndInv, NEW u \in Task, \A t \in Task \ {u} : Same(t),
         Sound(u, StateOrSaved(u))', TypeOK', CallSound',
         \/ running' = NO_TID
         \/ /\ running' = running
            /\ \/ u = running /\ cause' = cause
                  /\ \/ state'[u] \in {"READY", "KILLED"}
                     \/ call'.op = "enter" /\ state'[u] = "WAITING_SEM"
                     \/ call'.op \in {"multiple", "add", "added"} /\ state'[u] = "WAITING_EVENT"
               \/ u # running /\ call.op \notin {"multiple", "add", "added", "enter"}
               \/ u = running /\ state'[u] = state[u] /\ cause' = cause
                  /\ call.op \in {"add", "none"} /\ call'.op \in {"multiple", "added"}
  PROVE  IndInv'
<1>t. TypeOK /\ TasksSound /\ RunningFresh /\ RunningIsReady
  BY DEF IndInv
<1>1. TasksSound'
  BY <1>t, OthersSound
<1>2. RunningFresh'
  BY <1>t, NamesAssumption DEF RunningFresh, Same
<1>3. RunningIsReady'
  BY <1>t, NamesAssumption DEF RunningIsReady, Same
<1> QED
  BY <1>1, <1>2, <1>3 DEF IndInv

\* The steps of os_schedule.
LEMMA ScheduleSteps ==
  ASSUME IndInv, Search \/ Schedule \/ Sleep
  PROVE  IndInv'
<1>t. TypeOK /\ TasksSound /\ CallSound /\ RunningFresh /\ RunningIsReady
  BY DEF IndInv
<1>1. CASE Search
  <2>1. /\ running = NO_TID /\ call = NoCall /\ call' = [op |-> "schedule", seen |-> Ready]
        /\ UNCHANGED <<taskVars, value, eventVars, running>>
    BY <1>1 DEF Search
  <2>2. TypeOK'
    BY <1>t, <2>1 DEF TypeOK, Ready, taskVars, eventVars
  <2>3. CallSound'
    BY <2>1 DEF CallSound
  <2> QED
    BY <2>1, <2>2, <2>3, OnlyCallMoves DEF NoCall, eventVars
<1>2. CASE Sleep
  <2>1. /\ call.op = "schedule" /\ call' = NoCall
        /\ UNCHANGED <<taskVars, value, eventVars, running>>
    BY <1>2 DEF Sleep
  <2>2. TypeOK'
    BY <1>t, <2>1 DEF TypeOK, taskVars, eventVars
  <2>3. CallSound'
    BY <2>1 DEF CallSound, NoCall
  <2> QED
    BY <2>1, <2>2, <2>3, OnlyCallMoves DEF eventVars
<1>3. CASE Schedule
  <2>1. PICK t \in Task :
          /\ state[t] = "READY" /\ running' = t /\ cause' = [cause EXCEPT ![t] = NoCause]
          /\ call' = NoCall
          /\ UNCHANGED <<taskVars, value, lastSignaled>>
    BY <1>3 DEF Schedule, HighestPrioOf, Ready
  <2>2. TypeOK'
    BY <1>t, <2>1, Causes DEF TypeOK, taskVars
  <2>3. CallSound'
    BY <2>1 DEF CallSound, NoCall
  <2>4. TasksSound'
    <3>1. \A u \in Task \ {t} : Same(u)
      BY <1>t, <2>1 DEF Same, TypeOK, taskVars
    <3>2. Sound(t, StateOrSaved(t))'
      BY <2>1 DEF StateOrSaved, Sound, CanBeWoken, WaitsForEvent, WaitsForClock, taskVars
    <3> QED
      BY <1>t, <3>1, <3>2, OthersSound
  <2>5. RunningIsReady' /\ RunningFresh'
    BY <1>t, <2>1 DEF RunningIsReady, RunningFresh, TypeOK, taskVars
  <2> QED
    BY <2>2, <2>3, <2>4, <2>5 DEF IndInv
<1> QED
  BY <1>1, <1>2, <1>3

\* The steps of sem_wait and sem_signal.
LEMMA SemSteps ==
  ASSUME IndInv,
         \/ \E t \in Task, s \in Sem : SemWait(t, s) \/ SemSignal(t, s)
         \/ SemTake \/ SemBlock \/ SemEnter \/ SemIncrement \/ SemRelease
  PROVE  IndInv'
<1>t. TypeOK /\ TasksSound /\ CallSound /\ RunningFresh /\ RunningIsReady
  BY DEF IndInv
<1>1. ASSUME NEW t \in Task, NEW s \in Sem, SemWait(t, s) \/ SemSignal(t, s)
      PROVE  IndInv'
  <2>1. /\ running = t /\ call = NoCall
        /\ UNCHANGED <<taskVars, value, eventVars, running>>
    BY <1>1 DEF SemWait, SemSignal, Calling
  <2>2. value[s] \in Nat
    BY <1>t DEF TypeOK
  <2>3. /\ \/ call' \in [op : {"take", "block", "increment"}, sem : Sem, seen : Nat]
           \/ call' \in [op : {"release"}, sem : Sem, found : SUBSET Task]
        /\ call'.op = "take" => call'.seen > 0
    <3>1. CASE SemWait(t, s)
      BY <2>2, <3>1 DEF SemWait
    <3>2. CASE SemSignal(t, s)
      BY <2>2, <3>2 DEF SemSignal, HighestPrioOf, WaitersOf
    <3> QED
      BY <1>1, <3>1, <3>2
  <2>4. TypeOK'
    BY <1>t, <2>1, <2>3 DEF TypeOK, taskVars, eventVars
  <2>5. CallSound'
    BY <2>1, <2>3 DEF CallSound
  <2> QED
    BY <2>1, <2>4, <2>5, OnlyCallMoves DEF NoCall, eventVars
<1>2. CASE SemTake \/ SemIncrement
  <2>1. /\ call.op \in {"take", "increment"} /\ call' = NoCall
        /\ UNCHANGED <<taskVars, eventVars, running>>
    BY <1>2 DEF SemTake, SemIncrement
  <2>2. value' \in [Sem -> Nat]
    <3>1. CASE SemIncrement
      <4>1. call.sem \in Sem /\ call.seen \in Nat /\ MaxValue[call.sem] \in Nat
        BY <1>t, <2>1, CallTypes, SemAssumption
      <4>2. Incremented(call.sem, call.seen) \in Nat
        BY <4>1 DEF Incremented
      <4> QED
        BY <1>t, <3>1, <4>2 DEF SemIncrement, TypeOK
    <3>2. CASE SemTake
      <4>1. call.op = "take" /\ value' = [value EXCEPT ![call.sem] = call.seen - 1]
        BY <3>2 DEF SemTake
      <4>2. call.sem \in Sem /\ call.seen \in Nat \ {0}
        BY <1>t, <4>1, CallTypes DEF CallSound
      <4>3. call.seen - 1 \in Nat
        BY <4>2
      <4> QED
        BY <1>t, <4>1, <4>2, <4>3 DEF TypeOK
    <3> QED
      BY <1>2, <3>1, <3>2
  <2>3. TypeOK'
    BY <1>t, <2>1, <2>2 DEF TypeOK, taskVars, eventVars
  <2>4. CallSound'
    BY <2>1 DEF CallSound, NoCall
  <2> QED
    BY <2>1, <2>3, <2>4, OnlyCallMoves DEF eventVars
<1>3. CASE SemBlock
  <2>1. /\ call.op = "block" /\ call' = [call EXCEPT !.op = "enter"]
        /\ state' = [state EXCEPT ![running] = "WAITING_SEM"]
        /\ UNCHANGED <<savedState, time, clockId, semaphore, eventQueue, waitSingle,
                       value, eventVars, running>>
    BY <1>3 DEF SemBlock
  <2>2. running \in Task
    BY <1>t, <2>1 DEF CallSound
  <2>3. call' \in [op : {"enter"}, sem : Sem, seen : Nat]
    BY <1>t, <2>1, CallTypes
  <2>4. TypeOK'
    BY <1>t, <2>1, <2>2, <2>3 DEF TypeOK, TaskState, eventVars
  <2>5. CallSound'
    BY <2>1, <2>2, <2>3 DEF CallSound
  <2>6. /\ state'[running] = "WAITING_SEM"
        /\ \A t \in Task \ {running} : Same(t)
    BY <1>t, <2>1, <2>2 DEF Same, TypeOK, eventVars
  <2>7. Sound(running, StateOrSaved(running))'
    BY <2>1, <2>6 DEF StateOrSaved, Sound, CanBeWoken, WaitsForEvent, WaitsForClock
  <2> QED
    BY <2>1, <2>2, <2>3, <2>4, <2>5, <2>6, <2>7, OneTaskMoves DEF eventVars
<1>4. CASE SemEnter
  <2>1. /\ call.op = "enter" /\ running' = NO_TID /\ call' = NoCall
        /\ semaphore' = [semaphore EXCEPT ![running] = call.sem]
        /\ time' = [time EXCEPT ![running] = 0]
        /\ UNCHANGED <<state, savedState, clockId, eventQueue, waitSingle, value, eventVars>>
    BY <1>4 DEF SemEnter, Yield
  <2>2. running \in Task /\ call.sem \in Sem
    BY <1>t, <2>1, CallTypes DEF CallSound
  <2>3. TypeOK'
    BY <1>t, <2>1, <2>2 DEF TypeOK, eventVars
  <2>4. CallSound'
    BY <2>1 DEF CallSound, NoCall
  <2>5. PICK t \in Task : t = running
    BY <2>2
  <2>6. \A u \in Task \ {t} : Same(u)
    BY <1>t, <2>1, <2>5 DEF Same, TypeOK, eventVars
  <2>7. Sound(t, StateOrSaved(t))'
    <3>1. state[t] \in {"READY", "KILLED", "WAITING_SEM"}
      BY <1>t, <2>1, <2>5 DEF RunningIsReady
    <3> QED
      BY <2>1, <3>1 DEF StateOrSaved, Sound, CanBeWoken, WaitsForEvent, WaitsForClock
  <2> QED
    BY <2>1, <2>3, <2>4, <2>6, <2>7, OneTaskMoves
<1>5. CASE SemRelease
  <2>1. /\ call.op = "release" /\ running' = NO_TID /\ call' = NoCall
        /\ state' = [t \in Task |-> IF t \in call.found THEN "READY" ELSE state[t]]
        /\ UNCHANGED <<savedState, time, clockId, semaphore, eventQueue, waitSingle,
                       value, eventVars>>
    BY <1>5 DEF SemRelease, Yield
  <2>2. TypeOK'
    BY <1>t, <2>1 DEF TypeOK, TaskState, eventVars
  <2>3. CallSound'
    BY <2>1 DEF CallSound, NoCall
  <2>4. ASSUME NEW t \in Task PROVE Sound(t, StateOrSaved(t))'
    <3>1. CASE state'[t] = "READY"
      BY <3>1 DEF StateOrSaved, Sound, CanBeWoken, WaitsForEvent, WaitsForClock
    <3>2. CASE state'[t] = state[t]
      BY <1>t, <2>1, <3>2 DEF TasksSound, StateOrSaved, Sound, CanBeWoken, eventVars
    <3> QED
      BY <2>1, <3>1, <3>2
  <2>5. RunningIsReady' /\ RunningFresh'
    BY <2>1, NamesAssumption DEF RunningIsReady, RunningFresh
  <2> QED
    BY <2>2, <2>3, <2>4, <2>5 DEF IndInv, TasksSound
<1> QED
  BY <1>1, <1>2, <1>3, <1>4, <1>5

-----------------------------------------------------------------------------
\* event_wait, event_wait_multiple and the steps of the latter.
LEMMA EventWaitSteps ==
  ASSUME IndInv,
         \/ \E t \in Task, e \in Event, x \in Times \cup {0} : EventWait(t, e, x)
         \/ \E t \in Task, all \in BOOLEAN, events \in SUBSET Event :
              Cardinality(events) > 1 /\ EventWaitMultiple(t, all, events)
         \/ ReadQueue \/ AddEvent \/ SetWaiting
  PROVE  IndInv'
<1>t. TypeOK /\ TasksSound /\ CallSound /\ RunningFresh /\ RunningIsReady
  BY DEF IndInv
<1>1. ASSUME NEW t \in Task, NEW e \in Event, NEW x \in Times \cup {0}, EventWait(t, e, x)
      PROVE  IndInv'
  <2>1. /\ running = t /\ call = NoCall /\ running' = NO_TID /\ call' = NoCall
        /\ eventQueue' = [eventQueue EXCEPT ![t] = eventQueue[t] \cup {e}]
        /\ waitSingle' = [waitSingle EXCEPT ![t] = TRUE]
        /\ UNCHANGED <<savedState, semaphore, value, eventVars>>
    BY <1>1 DEF EventWait, Calling, Yield
  <2>2. \/ /\ x \in Nat \ {0}
           /\ clockId' = [clockId EXCEPT ![t] = 0]
           /\ time' = [time EXCEPT ![t] = x]
           /\ state' = [state EXCEPT ![t] = "WAITING_EVENT_TIMEOUT"]
        \/ /\ state' = [state EXCEPT ![t] = "WAITING_EVENT"]
           /\ UNCHANGED <<clockId, time>>
    BY <1>1, ClockAssumption DEF EventWait
  <2>3. TypeOK'
    <3>0. /\ state \in [Task -> TaskState] /\ time \in [Task -> Nat] /\ clockId \in [Task -> Clock]
          /\ {"WAITING_EVENT", "WAITING_EVENT_TIMEOUT"} \subseteq TaskState /\ 0 \in Clock
      BY <1>t, ClockAssumption DEF TypeOK, TaskState
    <3>1. state' \in [Task -> TaskState] /\ time' \in [Task -> Nat] /\ clockId' \in [Task -> Clock]
      <4>1. state' \in [Task -> TaskState]
        BY <2>2, <3>0
      <4>2. time' \in [Task -> Nat]
        BY <2>2, <3>0
      <4>3. clockId' \in [Task -> Clock]
        BY <2>2, <3>0
      <4> QED
        BY <4>1, <4>2, <4>3
    <3>2. waitSingle' \in [Task -> BOOLEAN]
      BY <1>t, <2>1, Zenon DEF TypeOK
    <3> QED
      BY <1>t, <2>1, <3>1, <3>2 DEF TypeOK, eventVars
  <2>4. CallSound'
    BY <2>1 DEF CallSound, NoCall
  <2>5. \A u \in Task \ {t} : Same(u)
    BY <1>t, <2>1, <2>2 DEF Same, TypeOK, eventVars
  <2>6. Sound(t, StateOrSaved(t))'
    <3>1. eventQueue'[t] # {} /\ (cause'[t] = NoCause \/ Preempt)
      BY <1>t, <2>1 DEF TypeOK, RunningFresh, eventVars
    <3>2. \/ state'[t] = "WAITING_EVENT_TIMEOUT" /\ time'[t] > 0
          \/ state'[t] = "WAITING_EVENT"
      BY <1>t, <2>2 DEF TypeOK
    <3> QED
      BY <3>1, <3>2 DEF StateOrSaved, Sound, CanBeWoken, WaitsForClock
  <2> QED
    BY <2>1, <2>3, <2>4, <2>5, <2>6, OneTaskMoves
<1>2. ASSUME NEW t \in Task, NEW all \in BOOLEAN, NEW events \in SUBSET Event,
             Cardinality(events) > 1, EventWaitMultiple(t, all, events)
      PROVE  IndInv'
  <2>1. /\ running = t /\ call = NoCall
        /\ eventQueue' = [eventQueue EXCEPT ![t] = {}]
        /\ waitSingle' = [waitSingle EXCEPT ![t] = FALSE]
        /\ call' = [op |-> "multiple", single |-> ~all, todo |-> events]
        /\ UNCHANGED <<state, savedState, time, clockId, semaphore, value, eventVars, running>>
    BY <1>2 DEF EventWaitMultiple, Calling
  <2>2. state[t] \in {"READY", "KILLED"}
    BY <1>t, <2>1 DEF RunningIsReady, NoCall
  <2>3. events # {}
    BY <1>2, FS_EmptySet
  <2>4. waitSingle' \in [Task -> BOOLEAN]
    BY <1>t, <2>1, Zenon DEF TypeOK
  <2>5. call' \in [op : {"multiple"}, single : BOOLEAN, todo : SUBSET Event]
    BY <2>1
  <2>6. TypeOK'
    BY <1>t, <2>1, <2>4, <2>5 DEF TypeOK, eventVars
  <2>7. CallSound'
    BY <2>1, <2>3 DEF CallSound
  <2>8. \A u \in Task \ {t} : Same(u)
    BY <1>t, <2>1 DEF Same, TypeOK, eventVars
  <2>9. Sound(t, StateOrSaved(t))'
    BY <2>1, <2>2 DEF StateOrSaved, Sound, CanBeWoken, WaitsForEvent, WaitsForClock
  <2> QED
    BY <2>1, <2>2, <2>6, <2>7, <2>8, <2>9, OneTaskMoves DEF eventVars
<1>3. CASE ReadQueue
  <2>1. PICK e \in call.todo :
          /\ call.op = "multiple"
          /\ call' = [op |-> "add", single |-> call.single, todo |-> call.todo \ {e},
                      event |-> e, seen |-> eventQueue[running]]
          /\ UNCHANGED <<taskVars, value, eventVars, running>>
    BY <1>3 DEF ReadQueue
  <2>2. running \in Task /\ call.todo \in SUBSET Event /\ call.single \in BOOLEAN
    BY <1>t, <2>1, CallTypes DEF CallSound
  <2>3. call' \in [op : {"add"}, single : BOOLEAN, todo : SUBSET Event,
                   event : Event, seen : SUBSET Event]
    BY <1>t, <2>1, <2>2 DEF TypeOK
  <2>4. TypeOK'
    BY <1>t, <2>1, <2>3 DEF TypeOK, taskVars, eventVars
  <2>5. CallSound'
    BY <2>1, <2>2 DEF CallSound
  <2> QED
    BY <2>1, <2>4, <2>5, OnlyCallMoves DEF eventVars
<1>4. CASE AddEvent
  <2>1. /\ call.op = "add"
        /\ eventQueue' = [eventQueue EXCEPT ![running] = call.seen \cup {call.event}]
        /\ call' = [op |-> "added", single |-> call.single, todo |-> call.todo]
        /\ UNCHANGED <<state, savedState, time, clockId, semaphore, waitSingle, value,
                       eventVars, running>>
    BY <1>4 DEF AddEvent
  <2>2. /\ running \in Task /\ call.todo \in SUBSET Event /\ call.single \in BOOLEAN
        /\ call.event \in Event /\ call.seen \in SUBSET Event
    BY <1>t, <2>1, CallTypes DEF CallSound
  <2>3. TypeOK'
    BY <1>t, <2>1, <2>2 DEF TypeOK, eventVars
  <2>4. \A u \in Task \ {running} : Same(u)
    BY <1>t, <2>1, <2>2 DEF Same, TypeOK, eventVars
  <2>5. eventQueue'[running] # {} /\ (cause[running] = NoCause \/ Preempt)
          /\ state[running] \in {"READY", "KILLED", "WAITING_EVENT"}
    BY <1>t, <2>1, <2>2 DEF TypeOK, RunningFresh, RunningIsReady
  <2>6. Sound(running, StateOrSaved(running))' /\ Sound(running, "WAITING_EVENT")'
    BY <2>1, <2>5 DEF StateOrSaved, Sound, CanBeWoken, WaitsForEvent, WaitsForClock, eventVars
  <2>7. CallSound'
    BY <2>1, <2>2, <2>6 DEF CallSound
  <2> QED
    BY <2>1, <2>2, <2>3, <2>4, <2>6, <2>7, OneTaskMoves DEF eventVars
<1>5. CASE SetWaiting
  <2>1. /\ call.op = "added"
        /\ waitSingle' = [waitSingle EXCEPT ![running] = call.single]
        /\ state' = [state EXCEPT ![running] = "WAITING_EVENT"]
        /\ UNCHANGED <<savedState, time, clockId, semaphore, eventQueue, value, eventVars>>
    BY <1>5 DEF SetWaiting
  <2>2. \/ running' = NO_TID /\ call' = NoCall
        \/ call.todo # {} /\ call' = [call EXCEPT !.op = "multiple"] /\ running' = running
    BY <1>5 DEF SetWaiting, Yield
  <2>3. PICK t \in Task : t = running /\ Sound(t, "WAITING_EVENT")
    BY <1>t, <2>1 DEF CallSound
  <2>4. call.single \in BOOLEAN
          /\ call \in [op : {"multiple", "added"}, single : BOOLEAN, todo : SUBSET Event]
    BY <1>t, <2>1, CallTypes
  <2>5. \/ call' = NoCall
        \/ /\ call' \in [op : {"multiple", "added"}, single : BOOLEAN, todo : SUBSET Event]
           /\ call'.op = "multiple" /\ call'.todo # {} /\ running' = running
    BY <2>2, <2>4
  <2>6. waitSingle' \in [Task -> BOOLEAN]
    BY <1>t, <2>1, <2>3, <2>4, Zenon DEF TypeOK
  <2>7. TypeOK'
    BY <1>t, <2>1, <2>2, <2>3, <2>5, <2>6 DEF TypeOK, TaskState, eventVars
  <2>8. CallSound'
    BY <2>3, <2>5 DEF CallSound, NoCall
  <2>9. state'[t] = "WAITING_EVENT" /\ \A u \in Task \ {t} : Same(u)
    BY <1>t, <2>1, <2>3 DEF Same, TypeOK, eventVars
  <2>10. Sound(t, StateOrSaved(t))'
    BY <2>1, <2>3, <2>9 DEF StateOrSaved, Sound, CanBeWoken, WaitsForClock, eventVars
  <2>11. \/ running' = NO_TID
         \/ /\ running' = running /\ t = running /\ cause' = cause
            /\ call'.op \in {"multiple", "add", "added"} /\ state'[t] = "WAITING_EVENT"
    <3>1. cause' = cause
      BY <2>1 DEF eventVars
    <3> QED
      BY <2>2, <2>3, <2>4, <2>9, <3>1
  <2> QED
    BY <2>7, <2>8, <2>9, <2>10, <2>11, OneTaskMoves
<1> QED
  BY <1>1, <1>2, <1>3, <1>4, <1>5

\* event_signal and its steps.
LEMMA EventSignalSteps ==
  ASSUME IndInv,
         \/ \E t \in Task, e \in Event : EventSignal(t, e)
         \/ Examine \/ WakeTask \/ EventSignaled
  PROVE  IndInv'
<1>t. TypeOK /\ TasksSound /\ CallSound /\ RunningFresh /\ RunningIsReady
  BY DEF IndInv
<1>1. ASSUME NEW t \in Task, NEW e \in Event, EventSignal(t, e)
      PROVE  IndInv'
  <2>1. /\ running = t /\ call = NoCall /\ lastSignaled' = e
        /\ call' = [op |-> "signal", event |-> e]
        /\ UNCHANGED <<taskVars, value, cause, running>>
    BY <1>1 DEF EventSignal, Calling
  <2>2. TypeOK'
    BY <1>t, <2>1 DEF TypeOK, taskVars
  <2>3. CallSound'
    BY <2>1 DEF CallSound
  <2> QED
    BY <2>1, <2>2, <2>3, OnlyCallMoves DEF NoCall
<1>2. CASE Examine
  <2>1. PICK t \in Hit(call.event) :
          /\ call.op = "signal"
          /\ call' = [op |-> "wake", event |-> call.event, task |-> t, seen |-> eventQueue[t]]
          /\ UNCHANGED <<taskVars, value, eventVars, running>>
    BY <1>2 DEF Examine
  <2>2. /\ call.event \in Event /\ t \in Task /\ call.event \in eventQueue[t]
        /\ state[t] \in WaitsForEvent /\ eventQueue[t] \in SUBSET Event
    BY <1>t, <2>1, CallTypes DEF Hit, TypeOK
  <2>3. running \in Task /\ t # running
    <3>1. running \in Task
      BY <1>t, <2>1 DEF CallSound
    <3> QED
      BY <1>t, <2>1, <2>2, <3>1 DEF RunningIsReady, WaitsForEvent
  <2>4. state[t] = "WAITING_EVENT_TIMEOUT" => time[t] > 0
    <3> SUFFICES ASSUME state[t] = "WAITING_EVENT_TIMEOUT" PROVE time[t] > 0
      OBVIOUS
    <3>1. Sound(t, "WAITING_EVENT_TIMEOUT")
      BY <1>t, <2>2 DEF TasksSound, StateOrSaved
    <3> QED
      BY <2>2, <3>1 DEF Sound
  <2>5. TypeOK'
    BY <1>t, <2>1, <2>2 DEF TypeOK, taskVars, eventVars
  <2>6. CallSound'
    BY <2>1, <2>2, <2>3, <2>4 DEF CallSound, taskVars
  <2> QED
    BY <2>1, <2>5, <2>6, OnlyCallMoves DEF eventVars
<1>3. CASE WakeTask
  <2>1. /\ call.op = "wake" /\ call' = [op |-> "signal", event |-> call.event]
        /\ UNCHANGED <<savedState, time, clockId, semaphore, value, lastSignaled, running>>
    BY <1>3 DEF WakeTask
  <2>2. PICK u \in Task : u = call.task
    BY <1>t, <2>1, CallTypes
  <2>3. /\ call.event \in Event /\ call.seen \in SUBSET Event /\ call.event \in call.seen
        /\ running \in Task /\ u # running
        /\ state[u] \in WaitsForEvent \cup {"READY"}
        /\ state[u] = "WAITING_EVENT_TIMEOUT" => time[u] > 0
    BY <1>t, <2>1, <2>2, CallTypes DEF CallSound
  <2>4. CallSound'
    BY <2>1, <2>3 DEF CallSound
  <2>5. CASE EndsWait(call.task, call.event, call.seen)
    <3>1. /\ state' = [state EXCEPT ![u] = "READY"]
          /\ eventQueue' = [eventQueue EXCEPT ![u] = {}]
          /\ waitSingle' = [waitSingle EXCEPT ![u] = FALSE]
          /\ cause' = [cause EXCEPT ![u] = ByEvent(call.event, call.seen)]
      BY <1>3, <2>2, <2>5 DEF WakeTask
    <3>2. waitSingle' \in [Task -> BOOLEAN]
      BY <1>t, <3>1, Zenon DEF TypeOK
    <3>3. cause' \in [Task -> [event : Event \cup {NoEvent, TheClock}, several : BOOLEAN]]
      BY <1>t, <2>3, <3>1, Causes DEF TypeOK
    <3>4. TypeOK'
      BY <1>t, <2>1, <2>3, <3>1, <3>2, <3>3 DEF TypeOK, TaskState
    <3>5. state'[u] = "READY" /\ \A v \in Task \ {u} : Same(v)
      BY <1>t, <2>1, <3>1 DEF Same, TypeOK
    <3>6. Sound(u, StateOrSaved(u))'
      BY <3>5 DEF StateOrSaved, Sound, CanBeWoken, WaitsForEvent, WaitsForClock
    <3> QED
      BY <2>1, <2>3, <2>4, <3>4, <3>5, <3>6, OneTaskMoves
  <2>6. CASE ~EndsWait(call.task, call.event, call.seen)
    <3>1. /\ eventQueue' = [eventQueue EXCEPT ![u] = call.seen \ {call.event}]
          /\ UNCHANGED <<state, waitSingle, cause>>
      BY <1>3, <2>2, <2>6 DEF WakeTask
    <3>2. call.seen # {call.event}
      BY <2>6 DEF EndsWait
    <3>3. eventQueue'[u] # {}
      BY <1>t, <2>3, <3>1, <3>2 DEF TypeOK
    <3>4. TypeOK'
      BY <1>t, <2>1, <2>3, <3>1 DEF TypeOK
    <3>5. \A v \in Task \ {u} : Same(v)
      BY <1>t, <2>1, <3>1 DEF Same, TypeOK
    <3>6. Sound(u, StateOrSaved(u))'
      <4>1. StateOrSaved(u) = state[u] /\ StateOrSaved(u)' = state[u]
        BY <2>1, <2>3, <3>1 DEF StateOrSaved, WaitsForEvent
      <4>2. Sound(u, state[u])
        BY <1>t, <4>1 DEF TasksSound
      <4> QED
        BY <2>1, <2>3, <3>1, <3>3, <4>1, <4>2
           DEF Sound, CanBeWoken, WaitsForEvent, WaitsForClock
    <3> QED
      BY <2>1, <2>3, <2>4, <3>4, <3>5, <3>6, OneTaskMoves
  <2> QED
    BY <2>5, <2>6
<1>4. CASE EventSignaled
  <2>1. /\ running' = NO_TID /\ call' = NoCall
        /\ UNCHANGED <<taskVars, value, eventVars>>
    BY <1>4 DEF EventSignaled, Yield
  <2>2. TypeOK'
    BY <1>t, <2>1 DEF TypeOK, taskVars, eventVars
  <2>3. CallSound'
    BY <2>1 DEF CallSound, NoCall
  <2> QED
    BY <2>1, <2>2, <2>3, OnlyCallMoves DEF eventVars
<1> QED
  BY <1>1, <1>2, <1>3, <1>4

-----------------------------------------------------------------------------
\* task_wait, task_wait_id and the calls about tasks.
LEMMA TaskSteps ==
  ASSUME IndInv,
         (\E t \in Task : TimeCall(t) \/ StateCall(t)) \/ Suspend
  PROVE  IndInv'
<1>t. TypeOK /\ TasksSound /\ CallSound /\ RunningFresh /\ RunningIsReady
  BY DEF IndInv
<1>1. ASSUME NEW t \in Task, NEW id \in Clock, NEW x \in Times, TaskWait(t, id, x)
      PROVE  IndInv'
  <2>1. /\ running = t /\ running' = NO_TID /\ call' = NoCall /\ x \in Nat \ {0}
        /\ clockId' = [clockId EXCEPT ![t] = id]
        /\ time' = [time EXCEPT ![t] = x]
        /\ state' = [state EXCEPT ![t] = "WAITING_TIME"]
        /\ UNCHANGED <<savedState, semaphore, eventQueue, waitSingle, value, eventVars>>
    BY <1>1, ClockAssumption DEF TaskWait, Calling, Yield
  <2>2. TypeOK'
    BY <1>t, <2>1 DEF TypeOK, TaskState, eventVars
  <2>3. CallSound'
    BY <2>1 DEF CallSound, NoCall
  <2>4. /\ state'[t] = "WAITING_TIME" /\ time'[t] > 0
        /\ \A u \in Task \ {t} : Same(u)
    BY <1>t, <2>1 DEF Same, TypeOK, eventVars
  <2>5. cause'[t] = NoCause \/ Preempt
    BY <1>t, <2>1 DEF RunningFresh, eventVars
  <2>6. Sound(t, StateOrSaved(t))'
    BY <2>4, <2>5 DEF StateOrSaved, Sound, CanBeWoken, WaitsForEvent
  <2> QED
    BY <2>1, <2>2, <2>3, <2>4, <2>6, OneTaskMoves
<1>2. ASSUME NEW t \in Task, NEW u \in Task, TaskSuspend(t, u)
      PROVE  IndInv'
  <2>1. /\ running = t /\ call = NoCall /\ UNCHANGED <<taskVars, value, eventVars>>
    BY <1>2 DEF TaskSuspend, Calling
  <2>2. \/ running' = NO_TID /\ call' = NoCall
        \/ UNCHANGED <<running, call>>
        \/ /\ running' = running /\ call' = [op |-> "suspend", task |-> u, seen |-> state[u]]
           /\ state[u] \notin {"SUSPENDED", "KILLED"}
    BY <1>2 DEF TaskSuspend, Yield, NotSuspendable
  <2>3. state[u] \in TaskState /\ Sound(u, StateOrSaved(u))
    BY <1>t DEF TypeOK, TasksSound
  <2>4. TypeOK'
    BY <1>t, <2>1, <2>2, <2>3 DEF TypeOK, taskVars, eventVars
  <2>5. CallSound'
    <3>1. CASE call' = NoCall
      BY <3>1 DEF CallSound, NoCall
    <3>2. CASE UNCHANGED <<running, call>>
      BY <2>1, <3>2 DEF CallSound, NoCall
    <3>3. CASE /\ running' = running /\ call' = [op |-> "suspend", task |-> u, seen |-> state[u]]
               /\ state[u] \notin {"SUSPENDED", "KILLED"}
      <4>1. Sound(u, state[u])
        BY <2>3, <3>3 DEF StateOrSaved
      <4>2. Sound(call.task, call.seen)'
        BY <2>1, <3>3, <4>1 DEF Sound, CanBeWoken, taskVars, eventVars
      <4> QED
        BY <2>1, <3>3, <4>2 DEF CallSound, taskVars
    <3> QED
      BY <2>2, <3>1, <3>2, <3>3
  <2> QED
    BY <2>1, <2>2, <2>4, <2>5, OnlyCallMoves DEF NoCall, eventVars
<1>3. CASE Suspend
  <2>1. /\ call.op = "suspend"
        /\ savedState' = [savedState EXCEPT ![call.task] =
                            IF call.seen = "WAITING_SEM" THEN "READY" ELSE call.seen]
        /\ state' = [state EXCEPT ![call.task] = "SUSPENDED"]
        /\ UNCHANGED <<time, clockId, semaphore, eventQueue, waitSingle, value, eventVars>>
    BY <1>3 DEF Suspend
  <2>2. /\ call' = NoCall
        /\ \/ running' = NO_TID
           \/ call.task # running /\ running' = running
    BY <1>3 DEF Suspend, Yield
  <2>3. PICK u \in Task : u = call.task /\ Sound(u, call.seen)
    BY <1>t, <2>1, CallTypes DEF CallSound
  <2>4. call.seen \in TaskState \ {"SUSPENDED", "KILLED"}
    BY <1>t, <2>1, CallTypes
  <2>5. TypeOK'
    BY <1>t, <2>1, <2>2, <2>3, <2>4 DEF TypeOK, TaskState, eventVars
  <2>6. CallSound'
    BY <2>2 DEF CallSound, NoCall
  <2>7. /\ state'[u] = "SUSPENDED" /\ savedState'[u] \in {"READY", call.seen}
        /\ \A v \in Task \ {u} : Same(v)
    BY <1>t, <2>1, <2>3 DEF Same, TypeOK, eventVars
  <2>8. Sound(u, StateOrSaved(u))'
    BY <2>1, <2>3, <2>7
       DEF StateOrSaved, Sound, CanBeWoken, WaitsForEvent, WaitsForClock, eventVars
  <2> QED
    BY <2>1, <2>2, <2>3, <2>5, <2>6, <2>7, <2>8, OneTaskMoves
<1>4. ASSUME NEW t \in Task, NEW u \in Task, TaskResume(t, u)
      PROVE  IndInv'
  <2>1. /\ running = t /\ call = NoCall
        /\ state' = [state EXCEPT ![u] = IF state[u] = "SUSPENDED" THEN savedState[u] ELSE state[u]]
        /\ UNCHANGED <<savedState, time, clockId, semaphore, eventQueue, waitSingle,
                       value, eventVars>>
    BY <1>4 DEF TaskResume, Calling
  <2>2. \/ running' = NO_TID /\ call' = NoCall
        \/ u # t /\ running' = running /\ call' = call
    BY <1>4 DEF TaskResume, Yield
  <2>3. /\ state'[u] = StateOrSaved(u) /\ state'[u] \in TaskState \ {"SUSPENDED"}
        /\ \A v \in Task \ {u} : Same(v)
    BY <1>t, <2>1 DEF StateOrSaved, Same, TypeOK, eventVars
  <2>4. TypeOK'
    BY <1>t, <2>1, <2>2, <2>3 DEF TypeOK, eventVars
  <2>5. CallSound'
    BY <2>1, <2>2 DEF CallSound, NoCall
  <2>6. Sound(u, StateOrSaved(u))'
    <3>1. StateOrSaved(u)' = StateOrSaved(u)
      BY <2>3 DEF StateOrSaved
    <3>2. Sound(u, StateOrSaved(u))
      BY <1>t DEF TasksSound
    <3> QED
      BY <2>1, <3>1, <3>2 DEF Sound, CanBeWoken, eventVars
  <2> QED
    BY <2>1, <2>2, <2>3, <2>4, <2>5, <2>6, OneTaskMoves DEF NoCall
<1>5. ASSUME NEW t \in Task, NEW u \in Task, TaskKill(t, u) \/ (TaskClose(t) /\ u = t)
      PROVE  IndInv'
  <2>1. /\ running = t /\ call = NoCall /\ call' = NoCall
        /\ state' = [state EXCEPT ![u] = "KILLED"]
        /\ running' = running \/ running' = NO_TID
        /\ UNCHANGED <<savedState, time, clockId, semaphore, eventQueue, waitSingle,
                       value, eventVars>>
    BY <1>5 DEF TaskKill, TaskClose, Calling, Yield
  <2>2. state'[u] = "KILLED" /\ \A v \in Task \ {u} : Same(v)
    BY <1>t, <2>1 DEF Same, TypeOK, eventVars
  <2>3. TypeOK'
    BY <1>t, <2>1 DEF TypeOK, TaskState, eventVars
  <2>4. CallSound'
    BY <2>1 DEF CallSound, NoCall
  <2>5. Sound(u, StateOrSaved(u))'
    BY <2>2 DEF StateOrSaved, Sound, CanBeWoken, WaitsForEvent, WaitsForClock
  <2> QED
    BY <2>1, <2>2, <2>3, <2>4, <2>5, OneTaskMoves DEF NoCall, eventVars
<1> QED
  BY <1>1, <1>2, <1>3, <1>4, <1>5 DEF TimeCall, StateCall

-----------------------------------------------------------------------------
\* The inductive step.
LEMMA NextIndInv == IndInv /\ [Next]_vars => IndInv'
<1> SUFFICES ASSUME IndInv, [Next]_vars PROVE IndInv'
  OBVIOUS
<1>1. CASE UNCHANGED vars
  BY <1>1 DEF vars, taskVars, eventVars, IndInv, TypeOK, TasksSound, StateOrSaved, Sound,
              CanBeWoken, CallSound, RunningFresh, RunningIsReady
<1>2. CASE Next
  <2>1. CASE Search \/ Schedule \/ Sleep
    BY <2>1, ScheduleSteps
  <2>2. CASE Interrupt
    BY <2>2, InterruptSteps
  <2>3. CASE \/ \E t \in Task, s \in Sem : SemWait(t, s) \/ SemSignal(t, s)
             \/ SemTake \/ SemBlock \/ SemEnter \/ SemIncrement \/ SemRelease
    BY <2>3, SemSteps
  <2>4. CASE \/ \E t \in Task, e \in Event, x \in Times \cup {0} : EventWait(t, e, x)
             \/ \E t \in Task, all \in BOOLEAN, events \in SUBSET Event :
                  Cardinality(events) > 1 /\ EventWaitMultiple(t, all, events)
             \/ ReadQueue \/ AddEvent \/ SetWaiting
    BY <2>4, EventWaitSteps
  <2>5. CASE \/ \E t \in Task, e \in Event : EventSignal(t, e)
             \/ Examine \/ WakeTask \/ EventSignaled
    BY <2>5, EventSignalSteps
  <2>6. CASE (\E t \in Task : TimeCall(t) \/ StateCall(t)) \/ Suspend
    BY <2>6, TaskSteps
  <2>7. ASSUME NEW t \in Task, SemCall(t)
        PROVE  \E s \in Sem : SemWait(t, s) \/ SemSignal(t, s)
    BY <2>7 DEF SemCall
  <2>8. ASSUME NEW t \in Task, EventCall(t)
        PROVE  \/ \E e \in Event : EventSignal(t, e)
               \/ \E e \in Event, x \in Times \cup {0} : EventWait(t, e, x)
               \/ \E all \in BOOLEAN, events \in SUBSET Event :
                    Cardinality(events) > 1 /\ EventWaitMultiple(t, all, events)
    BY <2>8 DEF EventCall
  <2> QED
    BY <1>2, <2>1, <2>2, <2>3, <2>4, <2>5, <2>6, <2>7, <2>8 DEF Next, Continue
<1> QED
  BY <1>1, <1>2

LEMMA Invariance == Spec => []IndInv
BY InitIndInv, NextIndInv, PTL DEF Spec

\* The control blocks, the semaphores and the call in progress are always of their
\* types, whatever calls the tasks make and wherever handlers land.
THEOREM TypeCorrect == Spec => []TypeOK
BY Invariance, PTL DEF IndInv

\* No task waits, or will wait when it is resumed, on an empty wait queue or on a
\* timer that has run out, unless an event or the clock has woken it since it last
\* ran, within a call that then stored the state or the queue it had read before.
THEOREM NobodyIsStranded == Spec => []WaitersCanBeWoken
<1>1. IndInv => WaitersCanBeWoken
  BY DEF IndInv, TasksSound, Sound, WaitersCanBeWoken
<1> QED
  BY <1>1, Invariance, PTL

\* The running task stays ready or killed by its own hand; but for its own
\* calls nothing makes it wait.
THEOREM Cooperative == Spec => []RunningIsReady
BY Invariance, PTL DEF IndInv

-----------------------------------------------------------------------------
(* What the steps do to the semaphores and to those that wait for them.    *)

SemOps == {"take", "block", "enter", "increment", "release"}

\* A step that is not about semaphores and wakes nobody but by resuming.
Aside ==
  /\ UNCHANGED <<semaphore, value>>
  /\ call.op \notin SemOps /\ call'.op \notin SemOps
  /\ \A t \in Task : \/ state'[t] = state[t]
                     \/ state'[t] \notin {"READY", "WAITING_SEM"}
                     \/ state[t] = "SUSPENDED" /\ state'[t] # "WAITING_SEM"

LEMMA StepKinds ==
  ASSUME IndInv, [Next]_vars
  PROVE  \/ UNCHANGED vars \/ Interrupt \/ WakeTask \/ Aside
         \/ SemTake \/ SemBlock \/ SemEnter \/ SemIncrement \/ SemRelease
         \/ \E t \in Task, s \in Sem : SemWait(t, s) \/ SemSignal(t, s)
<1>t. TypeOK /\ CallSound /\ RunningIsReady
  BY DEF IndInv
<1>o. \A op \in {"none", "schedule", "multiple", "add", "added", "signal", "wake", "suspend"} :
        op \notin SemOps
  BY DEF SemOps
<1>1. CASE Search \/ Schedule \/ Sleep
  <2>1. UNCHANGED <<state, semaphore, value>>
    BY <1>1 DEF Search, Schedule, Sleep, taskVars
  <2>2. call.op \in {"none", "schedule"} /\ call'.op \in {"none", "schedule"}
    BY <1>1 DEF Search, Schedule, Sleep, NoCall
  <2> QED
    BY <1>o, <2>1, <2>2 DEF Aside
<1>2. ASSUME NEW t \in Task, EventCall(t) \/ TimeCall(t)
      PROVE  Aside
  <2>1. /\ call = NoCall /\ UNCHANGED <<semaphore, value>>
        /\ \/ state' = state
           \/ \E w \in {"WAITING_EVENT", "WAITING_EVENT_TIMEOUT", "WAITING_TIME"} :
                 state' = [state EXCEPT ![t] = w]
    BY <1>2 DEF EventCall, TimeCall, EventSignal, EventWait, EventWaitMultiple, TaskWait,
                Calling, taskVars
  <2>2. call'.op \in {"none", "multiple", "signal"}
    <3>1. \/ call' = NoCall
          \/ \E e \in Event : call' = [op |-> "signal", event |-> e]
          \/ \E all \in BOOLEAN, events \in SUBSET Event :
                call' = [op |-> "multiple", single |-> ~all, todo |-> events]
      BY <1>2 DEF EventCall, TimeCall, EventSignal, EventWait, EventWaitMultiple, TaskWait,
                  Yield
    <3> QED
      BY <3>1 DEF NoCall
  <2> QED
    BY <1>t, <1>o, <2>1, <2>2 DEF Aside, NoCall, TypeOK
<1>3. ASSUME NEW t \in Task, StateCall(t)
      PROVE  Aside
  <2>1. ASSUME NEW u \in Task, TaskSuspend(t, u)
        PROVE  Aside
    BY <1>o, <2>1 DEF TaskSuspend, Calling, Yield, Aside, NoCall, taskVars
  <2>2. ASSUME NEW u \in Task, TaskResume(t, u)
        PROVE  Aside
    <3>1. /\ call = NoCall /\ call' = NoCall /\ UNCHANGED <<semaphore, value>>
          /\ state' = [state EXCEPT ![u] = IF state[u] = "SUSPENDED" THEN savedState[u]
                                                                     ELSE state[u]]
      BY <2>2 DEF TaskResume, Calling, Yield
    <3>2. savedState[u] # "WAITING_SEM"
      BY <1>t DEF TypeOK
    <3> QED
      BY <1>t, <1>o, <3>1, <3>2 DEF Aside, NoCall, TypeOK
  <2>3. ASSUME NEW u \in Task, TaskKill(t, u) \/ (TaskClose(t) /\ u = t)
        PROVE  Aside
    BY <1>t, <1>o, <2>3 DEF TaskKill, TaskClose, Calling, Yield, Aside, NoCall, TypeOK
  <2> QED
    BY <1>3, <2>1, <2>2, <2>3 DEF StateCall
<1>4. CASE \/ ReadQueue \/ AddEvent \/ SetWaiting \/ Examine \/ EventSignaled \/ Suspend
  <2>1. CASE ReadQueue \/ AddEvent \/ Examine \/ EventSignaled
    BY <1>o, <2>1 DEF ReadQueue, AddEvent, Examine, EventSignaled, Yield, Aside, NoCall, taskVars
  <2>2. CASE Suspend
    <3>1. /\ call.op = "suspend" /\ call' = NoCall /\ UNCHANGED <<semaphore, value>>
          /\ state' = [state EXCEPT ![call.task] = "SUSPENDED"]
      BY <2>2 DEF Suspend, Yield
    <3> QED
      BY <1>t, <1>o, <3>1 DEF Aside, NoCall, TypeOK
  <2>3. CASE SetWaiting
    <3>1. /\ call.op = "added" /\ UNCHANGED <<semaphore, value>>
          /\ state' = [state EXCEPT ![running] = "WAITING_EVENT"]
          /\ call' = NoCall \/ call' = [call EXCEPT !.op = "multiple"]
      BY <2>3 DEF SetWaiting, Yield
    <3>2. call'.op \in {"none", "multiple"}
      BY <1>t, <1>o, <3>1, CallTypes DEF NoCall
    <3> QED
      BY <1>t, <1>o, <3>1, <3>2 DEF Aside, TypeOK
  <2> QED
    BY <1>4, <2>1, <2>2, <2>3
<1> QED
  BY <1>1, <1>2, <1>3, <1>4 DEF Next, SemCall, Continue

\* A handler's step.
LEMMA InterruptKinds ==
  ASSUME IndInv, Interrupt
  PROVE  /\ UNCHANGED <<savedState, semaphore, running, call>>
         /\ \/ \E id \in Clock, n \in Nat : TickTasks(id, n) /\ value' = value
            \/ \E e \in Event : SignalEvent(e) /\ UNCHANGED <<time, value>>
            \/ \E s \in Sem : /\ UNCHANGED <<time, cause>>
                              /\ \/ ReleaseWaitingTask(s) /\ value' = value
                                 \/ /\ WaitersOf(s) = {} /\ state' = state
                                    /\ value' = [value EXCEPT ![s] = Incremented(s, value[s])]
<1>1. CASE OsTick \/ \E id \in Clock, n \in Steps : OsSubTick(id, n)
  BY <1>1, ClockAssumption DEF OsTick, OsSubTick
<1>2. ASSUME NEW e \in Event, EventISRSignal(e)
      PROVE  /\ UNCHANGED <<savedState, semaphore, running, call, time, value>>
             /\ SignalEvent(e)
  BY <1>2 DEF EventISRSignal
<1>3. ASSUME NEW s \in Sem, SemISRSignal(s)
      PROVE  /\ UNCHANGED <<savedState, semaphore, running, call, time, cause>>
             /\ \/ ReleaseWaitingTask(s) /\ value' = value
                \/ /\ WaitersOf(s) = {} /\ state' = state
                   /\ value' = [value EXCEPT ![s] = Incremented(s, value[s])]
  BY <1>3 DEF SemISRSignal, WaitingThisSemaphore, eventVars
<1> QED
  BY <1>1, <1>2, <1>3 DEF Interrupt

\* It wakes tasks, makes none wait and takes no token.
LEMMA HandlersOnlyWake ==
  ASSUME IndInv, Interrupt
  PROVE  /\ \A t \in Task : state'[t] = state[t] \/ state'[t] = "READY"
         /\ \A s : WaitersOf(s)' \subseteq WaitersOf(s)
         /\ \A s \in Sem : value[s] <= value'[s]
<1>t. TypeOK
  BY DEF IndInv
<1>1. \A t \in Task : state'[t] = state[t] \/ state'[t] = "READY"
  BY <1>t, InterruptKinds DEF TickTasks, SignalEvent, ReleaseWaitingTask
<1>2. \A s : WaitersOf(s)' \subseteq WaitersOf(s)
  BY <1>1, InterruptKinds DEF WaitersOf
<1>3. ASSUME NEW s \in Sem PROVE value[s] <= value'[s]
  <2>1. \A q \in Sem : value[q] \in Nat /\ value[q] <= Incremented(q, value[q])
                       /\ value[q] <= value[q]
    BY <1>t, SemAssumption DEF TypeOK, Incremented
  <2>2. \/ value' = value
        \/ \E q \in Sem : value' = [value EXCEPT ![q] = Incremented(q, value[q])]
    BY InterruptKinds
  <2>3. value'[s] = value[s] \/ value'[s] = Incremented(s, value[s])
    BY <1>t, <2>2 DEF TypeOK
  <2> QED
    BY <2>1, <2>3
<1> QED
  BY <1>1, <1>2, <1>3

\* Nobody comes to wait but by the storing of the semaphore at the end of sem_wait.
LEMMA WaitersShrink ==
  ASSUME IndInv, [Next]_vars, ~SemEnter
  PROVE  \A s : /\ (WaitersOf(s) \ {running})' \subseteq WaitersOf(s) \ {running}
                /\ ~SemBlock => WaitersOf(s)' \subseteq WaitersOf(s)
<1>t. TypeOK /\ CallSound /\ RunningIsReady
  BY DEF IndInv
<1>0. call.op # "enter" => \A s : running \notin WaitersOf(s)
  BY <1>t DEF RunningIsReady, WaitersOf
<1>1. CASE Aside
  <2>1. call.op # "enter" /\ \A s : WaitersOf(s)' \subseteq WaitersOf(s)
    BY <1>1 DEF Aside, SemOps, WaitersOf
  <2>2. call'.op # "enter"
    BY <1>1 DEF Aside, SemOps
  <2> QED
    BY <1>0, <2>1
<1>2. CASE UNCHANGED vars
  BY <1>2 DEF vars, taskVars, WaitersOf
<1>3. CASE Interrupt
  BY <1>3, HandlersOnlyWake, InterruptKinds
<1>4. CASE WakeTask \/ SemRelease
  <2>1. call.op # "enter" /\ \A s : WaitersOf(s)' \subseteq WaitersOf(s)
    <3>1. /\ call.op # "enter" /\ semaphore' = semaphore
          /\ \A t \in Task : state'[t] = state[t] \/ state'[t] = "READY"
      BY <1>t, <1>4 DEF WakeTask, SemRelease, TypeOK
    <3> QED
      BY <3>1 DEF WaitersOf
  <2> QED
    BY <1>0, <2>1
<1>5. CASE \/ SemTake \/ SemIncrement
           \/ \E t \in Task, s \in Sem : SemWait(t, s) \/ SemSignal(t, s)
  BY <1>5 DEF SemTake, SemIncrement, SemWait, SemSignal, taskVars, WaitersOf
<1>6. CASE SemBlock
  <2>1. /\ UNCHANGED <<running, semaphore>>
        /\ state' = [state EXCEPT ![running] = "WAITING_SEM"]
    BY <1>6 DEF SemBlock
  <2> QED
    BY <1>t, <1>6, <2>1 DEF WaitersOf, TypeOK
<1> QED
  BY <1>1, <1>2, <1>3, <1>4, <1>5, <1>6, StepKinds

-----------------------------------------------------------------------------
(* The release of semaphores.                                              *)

\* Whatever handlers do after the search, the task found is still waiting and the
\* most urgent one, or has been readied.
FoundSound ==
  call.op = "release" =>
    \A t \in call.found :
      /\ state[t] \in {"READY", "WAITING_SEM"}
      /\ semaphore[t] = call.sem
      /\ \A u \in WaitersOf(call.sem) \cup call.found : u # t => Prio[t] < Prio[u]

\* os_task_release_waiting_task finds one task, the most urgent of those waiting.
LEMMA MostUrgent ==
  ASSUME NEW S \in SUBSET Task, NEW t \in HighestPrioOf(S)
  PROVE  /\ t \in S
         /\ \A u \in S : u # t => Prio[t] < Prio[u]
         /\ HighestPrioOf(S) = {t}
<1>1. t \in S
  BY DEF HighestPrioOf
<1>2. ASSUME NEW u \in S, u # t PROVE Prio[t] < Prio[u]
  <2>1. Prio[t] <= Prio[u] /\ Prio[t] \in Int /\ Prio[u] \in Int /\ Prio[t] # Prio[u]
    BY <1>1, <1>2, PrioAssumption DEF HighestPrioOf
  <2> QED
    BY <2>1
<1>3. ASSUME NEW u \in HighestPrioOf(S), u # t PROVE FALSE
  <2>1. u \in S /\ Prio[u] <= Prio[t] /\ Prio[t] < Prio[u] /\ Prio[t] \in Int /\ Prio[u] \in Int
    BY <1>1, <1>2, <1>3, PrioAssumption DEF HighestPrioOf
  <2> QED
    BY <2>1
<1> QED
  BY <1>1, <1>2, <1>3

LEMMA FoundStep ==
  ASSUME IndInv, FoundSound, [Next]_vars
  PROVE  FoundSound'
<1>t. TypeOK
  BY DEF IndInv
<1>1. CASE UNCHANGED vars
  BY <1>1 DEF vars, taskVars, FoundSound, WaitersOf
<1>2. CASE Interrupt
  BY <1>2, InterruptKinds, HandlersOnlyWake, CallTypes, <1>t DEF FoundSound
<1>3. ASSUME NEW t \in Task, NEW s \in Sem, SemSignal(t, s), call'.op = "release"
      PROVE  FoundSound'
  <2>1. /\ call'.sem = s /\ call'.found = HighestPrioOf(WaitersOf(s))
        /\ UNCHANGED <<state, semaphore>>
    BY <1>3 DEF SemSignal, taskVars
  <2>2. WaitersOf(s)' = WaitersOf(s) /\ WaitersOf(s) \in SUBSET Task
    BY <2>1 DEF WaitersOf
  <2>3. \A u \in HighestPrioOf(WaitersOf(s)) :
          /\ u \in WaitersOf(s) /\ HighestPrioOf(WaitersOf(s)) = {u}
          /\ \A v \in WaitersOf(s) : v # u => Prio[u] < Prio[v]
    BY <2>2, MostUrgent
  <2> QED
    BY <2>1, <2>2, <2>3 DEF FoundSound, WaitersOf
<1>4. CASE call'.op # "release"
  BY <1>4 DEF FoundSound
<1>5. CASE \/ Aside \/ WakeTask \/ SemTake \/ SemBlock \/ SemEnter \/ SemIncrement \/ SemRelease
           \/ \E t \in Task, s \in Sem : SemWait(t, s)
  <2>1. call'.op # "release"
    <3>1. CASE SemBlock
      BY <1>t, <3>1, CallTypes DEF SemBlock
    <3>2. CASE Aside \/ WakeTask \/ SemTake \/ SemEnter \/ SemIncrement \/ SemRelease
               \/ \E t \in Task, s \in Sem : SemWait(t, s)
      BY <3>2 DEF Aside, SemOps, WakeTask, SemTake, SemEnter, SemIncrement, SemRelease,
                  SemWait, Yield, NoCall
    <3> QED
      BY <1>5, <3>1, <3>2
  <2> QED
    BY <2>1, <1>4
<1> QED
  BY <1>1, <1>2, <1>3, <1>4, <1>5, StepKinds

LEMMA FoundInvariance == Spec => []FoundSound
<1>1. Init => FoundSound
  BY DEF Init, FoundSound, NoCall
<1> QED
  BY <1>1, FoundStep, Invariance, PTL DEF Spec

\* How a waiting task becomes ready.
LEMMA WakeSteps ==
  ASSUME IndInv, [Next]_vars, NEW t \in Task,
         state[t] \notin {"READY", "SUSPENDED"}, state'[t] = "READY"
  PROVE  \/ \E id \in Clock, n \in Nat : TickTasks(id, n)
         \/ \E e \in Event : SignalEvent(e) /\ time' = time
         \/ WakeTask /\ t = call.task
         \/ \E s \in Sem : ReleaseWaitingTask(s) /\ UNCHANGED <<semaphore, value>>
         \/ SemRelease /\ t \in call.found
<1>t. TypeOK /\ CallSound
  BY DEF IndInv
<1>0. state' # state
  OBVIOUS
<1>1. CASE Interrupt
  BY <1>0, <1>1, InterruptKinds
<1>2. CASE WakeTask
  <2>1. state' = state \/ state' = [state EXCEPT ![call.task] = "READY"]
    BY <1>2 DEF WakeTask
  <2>2. t = call.task
    BY <1>t, <2>1 DEF TypeOK
  <2> QED
    BY <1>2, <2>2
<1>3. CASE SemRelease
  BY <1>3 DEF SemRelease
<1>4. CASE SemBlock
  <2>1. state' = [state EXCEPT ![running] = "WAITING_SEM"]
    BY <1>4 DEF SemBlock
  <2> QED
    BY <1>t, <2>1 DEF TypeOK
<1>5. ~Aside
  BY DEF Aside
<1>6. CASE \/ UNCHANGED vars \/ SemTake \/ SemEnter \/ SemIncrement
           \/ \E u \in Task, s \in Sem : SemWait(u, s) \/ SemSignal(u, s)
  BY <1>0, <1>6 DEF vars, taskVars, SemTake, SemEnter, SemIncrement, SemWait, SemSignal
<1> QED
  BY <1>1, <1>2, <1>3, <1>4, <1>5, <1>6, StepKinds

\* A task freed from a semaphore is the only one freed, and no token is added.
LEMMA FreedAlone ==
  ASSUME IndInv, FoundSound, [Next]_vars, NEW t \in Task,
         state[t] = "WAITING_SEM", state'[t] = "READY"
  PROVE  /\ value' = value
         /\ \A u \in Task \ {t} : state'[u] = state[u]
         /\ \A u \in WaitersOf(semaphore[t]) : u # t => Prio[t] < Prio[u]
<1>t. TypeOK /\ CallSound
  BY DEF IndInv
<1>1. ~\E id \in Clock, n \in Nat : TickTasks(id, n)
  BY DEF TickTasks, DueBy, WaitsForClock
<1>2. ~\E e \in Event : SignalEvent(e)
  BY DEF SignalEvent, EndsWaitOf, Hit, WaitsForEvent
<1>3. ~(WakeTask /\ t = call.task)
  BY <1>t DEF WakeTask, CallSound, WaitsForEvent
<1>4. ASSUME NEW s \in Sem, ReleaseWaitingTask(s), UNCHANGED <<semaphore, value>>
      PROVE  /\ value' = value
             /\ \A u \in Task \ {t} : state'[u] = state[u]
             /\ \A u \in WaitersOf(semaphore[t]) : u # t => Prio[t] < Prio[u]
  <2>1. state' = [u \in Task |-> IF u \in HighestPrioOf(WaitersOf(s)) THEN "READY" ELSE state[u]]
    BY <1>4 DEF ReleaseWaitingTask
  <2>2. t \in HighestPrioOf(WaitersOf(s)) /\ WaitersOf(s) \in SUBSET Task
    BY <2>1 DEF WaitersOf
  <2>3. /\ t \in WaitersOf(s) /\ HighestPrioOf(WaitersOf(s)) = {t}
        /\ \A u \in WaitersOf(s) : u # t => Prio[t] < Prio[u]
    BY <2>2, MostUrgent
  <2>4. semaphore[t] = s
    BY <2>3 DEF WaitersOf
  <2> QED
    BY <1>4, <2>1, <2>3, <2>4
<1>5. ASSUME SemRelease, t \in call.found
      PROVE  /\ value' = value
             /\ \A u \in Task \ {t} : state'[u] = state[u]
             /\ \A u \in WaitersOf(semaphore[t]) : u # t => Prio[t] < Prio[u]
  <2>1. /\ call.op = "release" /\ value' = value
        /\ state' = [u \in Task |-> IF u \in call.found THEN "READY" ELSE state[u]]
    BY <1>5 DEF SemRelease
  <2>2. /\ semaphore[t] = call.sem
        /\ \A u \in WaitersOf(call.sem) \cup call.found : u # t => Prio[t] < Prio[u]
    BY <1>5, <2>1 DEF FoundSound
  <2>3. ASSUME NEW u \in call.found, u # t PROVE FALSE
    <3>1. Prio[t] < Prio[u] /\ Prio[u] < Prio[t] /\ u \in Task
      BY <1>t, <1>5, <2>1, <2>3, CallTypes DEF FoundSound
    <3>2. Prio[t] \in Int /\ Prio[u] \in Int
      BY <3>1, PrioAssumption
    <3> QED
      BY <3>1, <3>2
  <2> QED
    BY <2>1, <2>2, <2>3
<1> QED
  BY <1>1, <1>2, <1>3, <1>4, <1>5, WakeSteps

\* Wherever handlers land, every release of a semaphore goes to its most urgent
\* waiting task, and only to that one.
THEOREM HandsOver == Spec => HandOff
<1> DEFINE Handed ==
      \A t, u \in Task :
        /\ state[t] = "WAITING_SEM" /\ state'[t] = "READY"
        /\ u \in WaitersOf(semaphore[t]) /\ u # t
        => Prio[t] < Prio[u] /\ state'[u] = "WAITING_SEM" /\ value' = value
<1>1. IndInv /\ FoundSound /\ [Next]_vars => [Handed]_vars
  <2> SUFFICES ASSUME IndInv, FoundSound, [Next]_vars, NEW t \in Task, NEW u \in Task,
                      state[t] = "WAITING_SEM", state'[t] = "READY",
                      u \in WaitersOf(semaphore[t]), u # t
               PROVE  Prio[t] < Prio[u] /\ state'[u] = "WAITING_SEM" /\ value' = value
    OBVIOUS
  <2> QED
    BY FreedAlone DEF WaitersOf
<1> QED
  BY <1>1, FoundInvariance, Invariance, PTL DEF Spec, HandOff

\* Wherever handlers land, event_get_timeout tells a task whether the clock ended
\* its wait; and a wait ends only once unless a handler ended it in the midst of a
\* call that then put the old state back.
THEOREM TimeoutsAreKnown == Spec => TimeoutTellsApart
<1> DEFINE Known ==
      \A t \in Task :
        state[t] = "WAITING_EVENT_TIMEOUT" /\ state'[t] = "READY" =>
          /\ time'[t] = 0 <=> cause'[t] = ByClock
          /\ cause[t] # NoCause => Preempt
<1>1. IndInv /\ FoundSound /\ [Next]_vars => [Known]_vars
  <2> SUFFICES ASSUME IndInv, FoundSound, [Next]_vars, NEW t \in Task,
                      state[t] = "WAITING_EVENT_TIMEOUT", state'[t] = "READY"
               PROVE  /\ time'[t] = 0 <=> cause'[t] = ByClock
                      /\ cause[t] # NoCause => Preempt
    OBVIOUS
  <2>t. TypeOK /\ CallSound /\ Sound(t, "WAITING_EVENT_TIMEOUT")
    BY DEF IndInv, TasksSound, StateOrSaved
  <2>1. cause[t] # NoCause => Preempt
    BY <2>t DEF Sound, WaitsForEvent
  <2>2. time[t] \in Nat
    BY <2>t DEF TypeOK
  <2>3. ASSUME NEW id \in Clock, NEW n \in Nat, TickTasks(id, n)
        PROVE  time'[t] = 0 /\ cause'[t] = ByClock
    BY <2>2, <2>3 DEF TickTasks, DueBy, WaitsForClock
  <2>4. ASSUME NEW e \in Event, SignalEvent(e), time' = time
        PROVE  time'[t] # 0 /\ cause'[t] # ByClock
    <3>1. t \in EndsWaitOf(e) /\ cause'[t] = ByEvent(e, eventQueue[t])
      BY <2>4 DEF SignalEvent
    <3>2. eventQueue[t] # {}
      BY <3>1 DEF EndsWaitOf, Hit
    <3> QED
      BY <2>t, <2>2, <2>4, <3>1, <3>2, Causes DEF Sound
  <2>5. ASSUME WakeTask, t = call.task
        PROVE  time'[t] # 0 /\ cause'[t] # ByClock
    <3>1. call.op = "wake" /\ time' = time /\ time[t] > 0 /\ call.event \in Event
      BY <2>t, <2>5, CallTypes DEF WakeTask, CallSound
    <3>2. cause' = [cause EXCEPT ![t] = ByEvent(call.event, call.seen)]
      BY <2>5 DEF WakeTask
    <3> QED
      BY <2>t, <2>2, <3>1, <3>2, Causes DEF TypeOK
  <2>6. ~\E s \in Sem : ReleaseWaitingTask(s)
    BY DEF ReleaseWaitingTask, HighestPrioOf, WaitersOf
  <2>7. ~(SemRelease /\ t \in call.found)
    BY DEF SemRelease, FoundSound
  <2> QED
    BY <2>1, <2>3, <2>4, <2>5, <2>6, <2>7, WakeSteps
<1> QED
  BY <1>1, FoundInvariance, Invariance, PTL DEF Spec, TimeoutTellsApart

-----------------------------------------------------------------------------
(* Semaphores when handlers run between calls only.                        *)

\* What a call has read of its semaphore is still so.
SeenIsFresh ==
  /\ call.op \in {"take", "increment"} => call.seen = value[call.sem]
  /\ call.op \in {"block", "enter"} => value[call.sem] = 0
  /\ call.op = "enter" => state[running] = "WAITING_SEM"
  /\ call.op = "increment" => WaitersOf(call.sem) = {}
  /\ call.op = "release" => call.found = HighestPrioOf(WaitersOf(call.sem))

LEMMA QuietStep ==
  ASSUME ~Preempt, IndInv, NoIdleToken, SeenIsFresh, [Next]_vars
  PROVE  (NoIdleToken /\ SeenIsFresh)'
<1>t. TypeOK /\ TypeOK' /\ CallSound
  BY NextIndInv DEF IndInv
<1>0. \A s \in Sem : value[s] \in Nat /\ value'[s] \in Nat
  BY <1>t DEF TypeOK
<1>n. ASSUME value' = value, ~SemEnter
      PROVE  NoIdleToken'
  BY <1>n, WaitersShrink DEF NoIdleToken
<1>1. CASE UNCHANGED vars
  BY <1>1 DEF vars, taskVars, NoIdleToken, SeenIsFresh, WaitersOf
<1>2. CASE Interrupt
  <2>1. call' = NoCall
    BY <1>2, InterruptKinds DEF Interrupt, OsTick, OsSubTick, SemISRSignal, EventISRSignal,
                                Interruptible
  <2>2. SeenIsFresh'
    BY <2>1 DEF SeenIsFresh, NoCall
  <2>3. NoIdleToken'
    <3>1. ~SemEnter
      BY <2>1, <1>2, InterruptKinds DEF SemEnter, NoCall
    <3>2. ASSUME NEW s \in Sem, WaitersOf(s) = {},
                 value' = [value EXCEPT ![s] = Incremented(s, value[s])]
          PROVE  NoIdleToken'
      <4>1. \A q \in Sem \ {s} : value'[q] = value[q]
        BY <1>t, <3>2 DEF TypeOK
      <4>2. \A q : (WaitersOf(q) \ {running})' \subseteq WaitersOf(q) \ {running}
        BY <3>1, WaitersShrink
      <4> QED
        BY <3>2, <4>1, <4>2 DEF NoIdleToken
    <3> QED
      BY <1>2, <1>n, <3>1, <3>2, InterruptKinds
  <2> QED
    BY <2>2, <2>3
<1>3. CASE Aside \/ WakeTask \/ SemRelease
  <2>1. value' = value /\ ~SemEnter /\ call'.op \notin SemOps
    BY <1>3 DEF Aside, WakeTask, SemRelease, SemEnter, SemOps, Yield, NoCall
  <2>2. SeenIsFresh'
    BY <2>1 DEF SeenIsFresh, SemOps
  <2> QED
    BY <1>n, <2>1, <2>2
<1>4. CASE SemTake \/ SemIncrement
  <2>1. /\ call.op \in {"take", "increment"} /\ call' = NoCall
        /\ UNCHANGED <<taskVars, running>>
        /\ call.sem \in Sem
    BY <1>t, <1>4, CallTypes DEF SemTake, SemIncrement
  <2>2. SeenIsFresh'
    BY <2>1 DEF SeenIsFresh, NoCall
  <2>3. \A q \in Sem \ {call.sem} : value'[q] = value[q]
    BY <1>t, <1>4, <2>1 DEF SemTake, SemIncrement, TypeOK
  <2>4. \/ WaitersOf(call.sem) = {}
        \/ value'[call.sem] > 0 => value[call.sem] > 0
    <3>1. CASE SemIncrement
      BY <3>1 DEF SemIncrement, SeenIsFresh
    <3>2. CASE SemTake
      <4>1. call.op = "take" /\ value' = [value EXCEPT ![call.sem] = call.seen - 1]
        BY <3>2 DEF SemTake
      <4>2. call.seen = value[call.sem] /\ value[call.sem] \in Nat
        BY <1>0, <2>1, <4>1 DEF SeenIsFresh
      <4>3. value'[call.sem] = value[call.sem] - 1
        BY <1>t, <2>1, <4>1, <4>2 DEF TypeOK
      <4> QED
        BY <4>2, <4>3
    <3> QED
      BY <1>4, <3>1, <3>2
  <2>5. \A q \in Sem : (WaitersOf(q) \ {running})' = WaitersOf(q) \ {running}
    BY <2>1 DEF WaitersOf, taskVars
  <2>6. NoIdleToken'
    BY <2>1, <2>3, <2>4, <2>5 DEF NoIdleToken
  <2> QED
    BY <2>2, <2>6
<1>5. CASE SemBlock
  <2>1. /\ call.op = "block" /\ value' = value /\ ~SemEnter
        /\ call' = [call EXCEPT !.op = "enter"]
    BY <1>5 DEF SemBlock, SemEnter
  <2>2. call'.op = "enter" /\ call'.sem = call.sem
    BY <1>t, <2>1, CallTypes
  <2>3. state'[running'] = "WAITING_SEM"
    BY <1>t, <1>5, <2>1 DEF SemBlock, CallSound, TypeOK
  <2>4. SeenIsFresh'
    BY <2>1, <2>2, <2>3 DEF SeenIsFresh
  <2> QED
    BY <1>n, <2>1, <2>4
<1>6. CASE SemEnter
  <2>1. /\ call.op = "enter" /\ call' = NoCall /\ value' = value /\ state' = state
        /\ semaphore' = [semaphore EXCEPT ![running] = call.sem]
        /\ running \in Task /\ call.sem \in Sem /\ value[call.sem] = 0
    BY <1>t, <1>6, CallTypes DEF SemEnter, Yield, CallSound, SeenIsFresh
  <2>2. SeenIsFresh'
    BY <2>1 DEF SeenIsFresh, NoCall
  <2>3. \A q \in Sem \ {call.sem} : WaitersOf(q)' \subseteq WaitersOf(q) \ {running}
    BY <1>t, <2>1 DEF WaitersOf, TypeOK
  <2>4. NoIdleToken'
    BY <2>1, <2>3 DEF NoIdleToken
  <2> QED
    BY <2>2, <2>4
<1>7. ASSUME NEW t \in Task, NEW s \in Sem, SemWait(t, s) \/ SemSignal(t, s)
      PROVE  (NoIdleToken /\ SeenIsFresh)'
  <2>1. value' = value /\ call = NoCall /\ UNCHANGED <<taskVars, running>>
    BY <1>7 DEF SemWait, SemSignal, Calling
  <2>2. ~SemEnter
    BY <2>1 DEF SemEnter, NoCall
  <2>3. \A q : WaitersOf(q)' = WaitersOf(q)
    BY <2>1 DEF WaitersOf, taskVars
  <2>4. SeenIsFresh'
    <3>1. CASE SemWait(t, s)
      <4>1. /\ call'.sem = s /\ call'.seen = value[s]
            /\ \/ value[s] > 0 /\ call'.op = "take"
               \/ ~(value[s] > 0) /\ call'.op = "block"
        BY <3>1 DEF SemWait
      <4>2. ~(value[s] > 0) => value[s] = 0
        BY <1>0
      <4> QED
        BY <2>1, <4>1, <4>2 DEF SeenIsFresh
    <3>2. CASE SemSignal(t, s)
      <4>1. \/ /\ call'.op = "release" /\ call'.sem = s
               /\ call'.found = HighestPrioOf(WaitersOf(s))
            \/ /\ call'.op = "increment" /\ call'.sem = s /\ call'.seen = value[s]
               /\ WaitersOf(s) = {}
        BY <3>2 DEF SemSignal, WaitingThisSemaphore
      <4>2. HighestPrioOf(WaitersOf(s))' = HighestPrioOf(WaitersOf(s))
        BY <2>3 DEF HighestPrioOf
      <4>3. call'.sem = s => WaitersOf(call.sem)' = WaitersOf(s)
                /\ HighestPrioOf(WaitersOf(call.sem))' = HighestPrioOf(WaitersOf(s))
        BY <2>3, <4>2 DEF WaitersOf, HighestPrioOf
      <4> QED
        BY <2>1, <4>1, <4>3 DEF SeenIsFresh
    <3> QED
      BY <1>7, <3>1, <3>2
  <2> QED
    BY <1>n, <2>1, <2>2, <2>4
<1> QED
  BY <1>1, <1>2, <1>3, <1>4, <1>5, <1>6, <1>7, StepKinds

\* As long as no handler runs within a kernel call, no task waits for a semaphore
\* that has a token.
THEOREM NoTokenIsIdle ==
  ASSUME ~Preempt
  PROVE  Spec => []NoIdleToken
<1>1. Init => NoIdleToken /\ SeenIsFresh
  BY DEF Init, NoIdleToken, SeenIsFresh, WaitersOf, NoCall
<1>2. IndInv /\ (NoIdleToken /\ SeenIsFresh) /\ [Next]_vars => (NoIdleToken /\ SeenIsFresh)'
  BY QuietStep
<1> QED
  BY <1>1, <1>2, Invariance, PTL DEF Spec
=============================================================================
