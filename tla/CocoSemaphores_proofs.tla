------------------------ MODULE CocoSemaphores_proofs ------------------------
(***************************************************************************)
(* What the kernel's semaphores promise, for every set of tasks and of     *)
(* semaphores: with interrupt handlers between calls only they implement   *)
(* Semaphore; with handlers anywhere they still give nothing that was not  *)
(* signalled.                                                              *)
(***************************************************************************)
EXTENDS CocoSemaphores, CocoKernel_proofs

-----------------------------------------------------------------------------
(* What a change of the tasks' states is to Semaphore.                      *)

SemStates == {"WAITING_SEM", "SUSPENDED", "KILLED"}

AllWaiting == [s \in Sem |-> WaitersOf(s)]

\* The running task is left out of those that wait only while it is within sem_wait.
Plain == WaitingBar = AllWaiting

LEMMA OutsideIsPlain ==
  ASSUME RunningIsReady, call.op # "enter"
  PROVE  Plain
BY DEF RunningIsReady, Plain, WaitingBar, AllWaiting, WaitersOf

\* A change that is not about semaphores.
LEMMA StatesAside ==
  ASSUME Plain, Plain', semaphore' = semaphore,
         \A t \in Task : state'[t] = state[t] \/ {state[t], state'[t]} \cap SemStates = {}
  PROVE  WaitingBar' = WaitingBar /\ StoppedBar' = StoppedBar
<1>1. \A t \in Task : \A w \in SemStates : state'[t] = w <=> state[t] = w
  OBVIOUS
<1>2. \A s : WaitersOf(s)' = WaitersOf(s)
  BY <1>1 DEF WaitersOf, SemStates
<1>3. StoppedBar' = StoppedBar
  BY <1>1 DEF StoppedBar, SemStates
<1> QED
  BY <1>2, <1>3 DEF Plain, AllWaiting

\* One task is suspended or killed.
LEMMA OneStops ==
  ASSUME Plain, Plain', TypeOK, NEW u \in Task, NEW w \in {"SUSPENDED", "KILLED"}, UNCHANGED <<semaphore, value>>,
         state' = [state EXCEPT ![u] = w]
  PROVE  Abstract!Stop(u)
<1>1. \A t \in Task : state'[t] = IF t = u THEN w ELSE state[t]
  BY DEF TypeOK
<1>2. \A s : WaitersOf(s)' = WaitersOf(s) \ {u}
  BY <1>1 DEF WaitersOf
<1>3. StoppedBar' = StoppedBar \cup {u}
  BY <1>1 DEF StoppedBar
<1>4. WaitingBar' = [s \in Sem |-> WaitingBar[s] \ {u}]
  BY <1>2 DEF Plain, AllWaiting
<1> QED
  BY <1>3, <1>4 DEF Abstract!Stop

\* One task that waits for no semaphore goes on or waits for something else.
LEMMA OneGoesOn ==
  ASSUME Plain, Plain', TypeOK, NEW u \in Task, state[u] # "WAITING_SEM", NEW w, w \notin SemStates,
         UNCHANGED <<semaphore, value>>, state' = [state EXCEPT ![u] = w]
  PROVE  Abstract!Resume(u)
<1>1. \A t \in Task : state'[t] = IF t = u THEN w ELSE state[t]
  BY DEF TypeOK
<1>2. \A s : WaitersOf(s)' = WaitersOf(s)
  BY <1>1 DEF WaitersOf, SemStates
<1>3. StoppedBar' = StoppedBar \ {u}
  BY <1>1 DEF StoppedBar, SemStates
<1>4. WaitingBar' = WaitingBar
  BY <1>2 DEF Plain, AllWaiting
<1> QED
  BY <1>3, <1>4 DEF Abstract!Resume

\* os_task_release_waiting_task frees the most urgent waiting task, or none.
LEMMA ReleaseIsHandOver ==
  ASSUME Plain, Plain', TypeOK, NEW s \in Sem, ReleaseWaitingTask(s), UNCHANGED <<semaphore, value>>
  PROVE  Abstract!HandOver(s) \/ UNCHANGED <<value, WaitingBar, StoppedBar>>
<1> DEFINE W == WaitersOf(s)
<1>1. state' = [t \in Task |-> IF t \in HighestPrioOf(W) THEN "READY" ELSE state[t]]
  BY DEF ReleaseWaitingTask
<1>2. HighestPrioOf(W) \subseteq W /\ W \subseteq Task
  BY DEF HighestPrioOf, WaitersOf
<1>3. CASE HighestPrioOf(W) = {}
  <2>1. \A t \in Task : state'[t] = state[t]
    BY <1>1, <1>3
  <2> QED
    BY <2>1, StatesAside
<1>4. ASSUME NEW t \in HighestPrioOf(W)
      PROVE  Abstract!HandOver(s)
  <2>1. t \in W /\ t \in Task
    BY <1>2, <1>4
  <2>2. \A u \in W : u # t => Prio[t] < Prio[u]
    <3> SUFFICES ASSUME NEW u \in W, u # t PROVE Prio[t] < Prio[u]
      OBVIOUS
    <3>1. /\ Prio[t] <= Prio[u] /\ Prio[t] \in Int /\ Prio[u] \in Int
          /\ Prio[t] # Prio[u]
      BY <1>2, <1>4, <2>1, PrioAssumption DEF HighestPrioOf
    <3> QED
      BY <3>1
  <2>3. \A u \in HighestPrioOf(W) : u = t
    <3> SUFFICES ASSUME NEW u \in HighestPrioOf(W), u # t PROVE FALSE
      OBVIOUS
    <3>1. /\ Prio[u] <= Prio[t] /\ Prio[t] < Prio[u]
          /\ Prio[t] \in Int /\ Prio[u] \in Int
      BY <1>2, <2>1, <2>2, PrioAssumption DEF HighestPrioOf
    <3> QED
      BY <3>1
  <2>4. \A u \in Task : state'[u] = IF u = t THEN "READY" ELSE state[u]
    BY <1>1, <1>4, <2>3
  <2>5. state[t] = "WAITING_SEM" /\ semaphore[t] = s
    BY <2>1 DEF WaitersOf
  <2>6. \A q : WaitersOf(q)' = WaitersOf(q) \ {t}
    BY <2>4 DEF WaitersOf
  <2>7. \A q : q # s => t \notin WaitersOf(q)
    BY <2>5 DEF WaitersOf
  <2>8. StoppedBar' = StoppedBar
    BY <2>4, <2>5 DEF StoppedBar
  <2>9. WaitingBar' = [WaitingBar EXCEPT ![s] = @ \ {t}]
    BY <2>6, <2>7 DEF Plain, AllWaiting
  <2>10. t \in WaitingBar[s] /\ \A u \in WaitingBar[s] : u # t => Prio[t] < Prio[u]
    BY <2>1, <2>2 DEF Plain, AllWaiting
  <2> QED
    BY <2>8, <2>9, <2>10 DEF Abstract!HandOver
<1> QED
  BY <1>3, <1>4

\* os_sem_increment adds a token, or none to a full semaphore.
LEMMA IncrementIsAdd ==
  ASSUME Plain, Plain', TypeOK, NEW s \in Sem, WaitersOf(s) = {}, UNCHANGED <<state, semaphore>>,
         value' = [value EXCEPT ![s] = Incremented(s, value[s])]
  PROVE  Abstract!Add(s) \/ UNCHANGED <<value, WaitingBar, StoppedBar>>
<1>1. UNCHANGED <<WaitingBar, StoppedBar>>
  BY StatesAside
<1>2. WaitingBar[s] = {}
  BY DEF Plain, AllWaiting
<1>3. CASE value[s] < MaxValue[s]
  BY <1>1, <1>2, <1>3 DEF Abstract!Add, Incremented
<1>4. CASE ~(value[s] < MaxValue[s])
  <2>1. value' = value
    BY <1>4 DEF Incremented, TypeOK
  <2> QED
    BY <1>1, <2>1
<1> QED
  BY <1>3, <1>4
-----------------------------------------------------------------------------
(* The refinement, with handlers between calls only.                        *)

\* A semaphore's call that has been tested takes effect.
LEMMA SemCallsRefine ==
  ASSUME IndInv, IndInv', SeenIsFresh, SemTake \/ SemIncrement \/ SemRelease
  PROVE  Abstract!Next \/ UNCHANGED <<value, WaitingBar, StoppedBar>>
<1>t. TypeOK /\ CallSound
  BY DEF IndInv
<1>p. Plain /\ Plain'
  <2>1. call.op # "enter" /\ call'.op # "enter"
    BY DEF SemTake, SemIncrement, SemRelease, Yield, NoCall
  <2> QED
    BY <2>1, OutsideIsPlain DEF IndInv, RunningIsReady, Plain, WaitingBar, AllWaiting, WaitersOf
<1>1. CASE SemTake
  <2>1. /\ call.op = "take" /\ call.sem \in Sem /\ call.seen = value[call.sem]
        /\ call.seen > 0
        /\ value' = [value EXCEPT ![call.sem] = call.seen - 1]
        /\ UNCHANGED <<state, semaphore>>
    BY <1>t, <1>1, CallTypes DEF SemTake, SeenIsFresh, CallSound, taskVars
  <2>2. UNCHANGED <<WaitingBar, StoppedBar>>
    BY <1>p, <2>1, StatesAside
  <2>3. Abstract!Take(call.sem)
    BY <2>1, <2>2 DEF Abstract!Take
  <2> QED
    BY <2>1, <2>3 DEF Abstract!Next
<1>2. CASE SemIncrement
  <2>1. /\ call.op = "increment" /\ call.sem \in Sem /\ call.seen = value[call.sem]
        /\ WaitersOf(call.sem) = {}
        /\ value' = [value EXCEPT ![call.sem] = Incremented(call.sem, call.seen)]
        /\ UNCHANGED <<state, semaphore>>
    BY <1>t, <1>2, CallTypes DEF SemIncrement, SeenIsFresh, taskVars
  <2>2. Abstract!Add(call.sem) \/ UNCHANGED <<value, WaitingBar, StoppedBar>>
    BY <1>t, <1>p, <2>1, IncrementIsAdd
  <2> QED
    BY <2>1, <2>2 DEF Abstract!Next
<1>3. CASE SemRelease
  <2>1. /\ call.sem \in Sem /\ ReleaseWaitingTask(call.sem)
        /\ UNCHANGED <<semaphore, value>>
    BY <1>t, <1>3, CallTypes DEF SemRelease, SeenIsFresh, ReleaseWaitingTask
  <2>2. Abstract!HandOver(call.sem) \/ UNCHANGED <<value, WaitingBar, StoppedBar>>
    BY <1>t, <1>p, <2>1, ReleaseIsHandOver
  <2> QED
    BY <2>1, <2>2 DEF Abstract!Next
<1> QED
  BY <1>1, <1>2, <1>3

\* os_task_wait_sem_set: the task stops what it was and then is one that waits.
LEMMA SemBlocks ==
  ASSUME IndInv, IndInv', SeenIsFresh, SemBlock \/ SemEnter
  PROVE  Abstract!Next
<1>t. TypeOK /\ CallSound /\ RunningIsReady
  BY DEF IndInv
<1>1. call.op \in {"block", "enter"} /\ call.sem \in Sem /\ running \in Task
        /\ value[call.sem] = 0 /\ value' = value
  BY <1>t, CallTypes DEF SemBlock, SemEnter, SeenIsFresh, CallSound
<1>2. CASE SemBlock
  <2>1. /\ UNCHANGED <<running, semaphore>>
        /\ \A t \in Task : state'[t] = IF t = running THEN "WAITING_SEM" ELSE state[t]
    BY <1>t, <1>2 DEF SemBlock, TypeOK
  <2>2. WaitingBar' = WaitingBar
    <3>1. \A s \in Sem : (WaitersOf(s) \ {running})' = WaitersOf(s) \ {running}
      BY <2>1 DEF WaitersOf
    <3> QED
      BY <3>1 DEF WaitingBar
  <2>3. StoppedBar' = StoppedBar \ {running}
    BY <2>1 DEF StoppedBar
  <2> QED
    BY <1>1, <2>2, <2>3 DEF Abstract!Next, Abstract!Resume
<1>3. CASE SemEnter
  <2>1. /\ state' = state /\ running' \notin Task /\ state[running] = "WAITING_SEM"
        /\ \A t \in Task : semaphore'[t] = IF t = running THEN call.sem ELSE semaphore[t]
    BY <1>t, <1>3, NamesAssumption DEF SemEnter, SeenIsFresh, Yield, TypeOK
  <2>2. \A s \in Sem : (WaitersOf(s) \ {running})' =
                          IF s = call.sem THEN (WaitersOf(s) \ {running}) \cup {running}
                                          ELSE WaitersOf(s) \ {running}
    BY <1>1, <2>1 DEF WaitersOf
  <2>3. WaitingBar' = [WaitingBar EXCEPT ![call.sem] = @ \cup {running}]
    BY <1>1, <2>2 DEF WaitingBar
  <2>4. StoppedBar' = StoppedBar \ {running}
    BY <2>1 DEF StoppedBar
  <2>5. \A q \in Sem : running \notin WaitingBar[q]
    BY DEF WaitingBar
  <2>6. Abstract!Wait(running, call.sem)
    BY <1>1, <2>3, <2>4, <2>5 DEF Abstract!Wait
  <2> QED
    BY <1>1, <2>6 DEF Abstract!Next
<1> QED
  BY <1>2, <1>3

LEMMA InterruptRefines ==
  ASSUME Plain, Plain', IndInv, Interrupt
  PROVE  Abstract!Next \/ UNCHANGED <<value, WaitingBar, StoppedBar>>
<1>t. TypeOK
  BY DEF IndInv
<1>0. semaphore' = semaphore
  BY InterruptKinds
<1>1. ASSUME NEW id \in Clock, NEW n \in Nat, TickTasks(id, n), value' = value
      PROVE  UNCHANGED <<value, WaitingBar, StoppedBar>>
  <2>1. \A t \in Task : state'[t] = state[t] \/ {state[t], state'[t]} \cap SemStates = {}
    BY <1>1 DEF TickTasks, DueBy, WaitsForClock, SemStates
  <2> QED
    BY <1>0, <1>1, <2>1, StatesAside
<1>2. ASSUME NEW e \in Event, SignalEvent(e), value' = value
      PROVE  UNCHANGED <<value, WaitingBar, StoppedBar>>
  <2>1. \A t \in Task : state'[t] = state[t] \/ {state[t], state'[t]} \cap SemStates = {}
    BY <1>2 DEF SignalEvent, EndsWaitOf, Hit, WaitsForEvent, SemStates
  <2> QED
    BY <1>0, <1>2, <2>1, StatesAside
<1>3. ASSUME NEW s \in Sem,
             \/ ReleaseWaitingTask(s) /\ value' = value
             \/ /\ WaitersOf(s) = {} /\ state' = state
                /\ value' = [value EXCEPT ![s] = Incremented(s, value[s])]
      PROVE  Abstract!Next \/ UNCHANGED <<value, WaitingBar, StoppedBar>>
  <2>1. Abstract!HandOver(s) \/ Abstract!Add(s) \/ UNCHANGED <<value, WaitingBar, StoppedBar>>
    BY <1>t, <1>0, <1>3, ReleaseIsHandOver, IncrementIsAdd
  <2> QED
    BY <2>1 DEF Abstract!Next
<1> QED
  BY <1>1, <1>2, <1>3, InterruptKinds

\* The calls that are not about semaphores: those about tasks stop and resume.
LEMMA OtherCallsRefine ==
  ASSUME Plain, Plain', IndInv,
         NEW t \in Task, EventCall(t) \/ TimeCall(t) \/ StateCall(t)
  PROVE  Abstract!Next \/ UNCHANGED <<value, WaitingBar, StoppedBar>>
<1>t. TypeOK
  BY DEF IndInv
<1>0. Calling(t) /\ state[t] # "WAITING_SEM" /\ UNCHANGED <<semaphore, value>>
  <2>1. Calling(t) /\ UNCHANGED <<semaphore, value>>
    BY DEF EventCall, EventSignal, EventWait, EventWaitMultiple, TimeCall, TaskWait, StateCall,
           TaskSuspend, TaskResume, TaskKill, TaskClose, taskVars
  <2>2. state[t] # "WAITING_SEM"
    BY <2>1 DEF Calling, NoCall, IndInv, RunningIsReady
  <2> QED
    BY <2>1, <2>2
<1>1. CASE state' = state
  BY <1>0, <1>1, StatesAside
<1>3. ASSUME NEW w \in {"WAITING_EVENT", "WAITING_EVENT_TIMEOUT", "WAITING_TIME"},
             state' = [state EXCEPT ![t] = w]
      PROVE  Abstract!Resume(t)
  BY <1>t, <1>0, <1>3, OneGoesOn DEF SemStates
<1>4. ASSUME NEW u \in Task, state' = [state EXCEPT ![u] = "KILLED"]
      PROVE  Abstract!Stop(u)
  BY <1>t, <1>0, <1>4, OneStops
<1>5. ASSUME NEW u \in Task, TaskResume(t, u), state[u] = "SUSPENDED"
      PROVE  Abstract!Resume(u)
  <2>1. savedState[u] \in TaskState \ {"SUSPENDED", "KILLED", "WAITING_SEM"}
    BY <1>t DEF TypeOK
  <2>2. savedState[u] \notin SemStates
    BY <2>1 DEF SemStates
  <2>3. state' = [state EXCEPT ![u] = savedState[u]]
    BY <1>5 DEF TaskResume
  <2> QED
    BY <1>t, <1>0, <1>5, <2>2, <2>3, OneGoesOn
<1>6. CASE EventCall(t)
  <2>1. \/ state' = state
        \/ \E w \in {"WAITING_EVENT", "WAITING_EVENT_TIMEOUT"} : state' = [state EXCEPT ![t] = w]
    BY <1>6 DEF EventCall, EventSignal, EventWait, EventWaitMultiple, taskVars
  <2> QED
    BY <1>1, <1>3, <2>1 DEF Abstract!Next
<1>7. CASE TimeCall(t)
  <2>1. state' = [state EXCEPT ![t] = "WAITING_TIME"]
    BY <1>7 DEF TimeCall, TaskWait
  <2> QED
    BY <1>3, <2>1 DEF Abstract!Next
<1>8. CASE StateCall(t)
  <2>1. ASSUME NEW u \in Task, TaskSuspend(t, u)
        PROVE  Abstract!Next \/ UNCHANGED <<value, WaitingBar, StoppedBar>>
    BY <1>1, <2>1 DEF TaskSuspend, taskVars
  <2>2. ASSUME NEW u \in Task, TaskResume(t, u)
        PROVE  Abstract!Next \/ UNCHANGED <<value, WaitingBar, StoppedBar>>
    <3>1. CASE state[u] = "SUSPENDED"
      BY <1>5, <2>2, <3>1 DEF Abstract!Next
    <3>2. CASE state[u] # "SUSPENDED"
      <4>1. \A v \in Task : state'[v] = state[v]
        BY <1>t, <2>2, <3>2 DEF TaskResume, TypeOK
      <4> QED
        BY <1>0, <4>1, StatesAside
    <3> QED
      BY <3>1, <3>2
  <2>3. ASSUME NEW u \in Task, TaskKill(t, u)
        PROVE  Abstract!Next
    BY <1>4, <2>3 DEF TaskKill, Abstract!Next
  <2>4. CASE TaskClose(t)
    BY <1>4, <2>4 DEF TaskClose, Abstract!Next
  <2> QED
    BY <1>8, <2>1, <2>2, <2>3, <2>4 DEF StateCall
<1> QED
  BY <1>6, <1>7, <1>8

\* The rest of such a call.
LEMMA OtherStepsRefine ==
  ASSUME Plain, Plain', IndInv, WakeTask \/ SetWaiting \/ Suspend
  PROVE  Abstract!Next \/ UNCHANGED <<value, WaitingBar, StoppedBar>>
<1>t. TypeOK /\ CallSound /\ RunningIsReady
  BY DEF IndInv
<1>0. UNCHANGED <<semaphore, value>>
  BY DEF WakeTask, SetWaiting, Suspend
<1>1. CASE WakeTask
  <2>1. call.task \in Task /\ state[call.task] \in WaitsForEvent \cup {"READY"}
    BY <1>t, <1>1, CallTypes DEF WakeTask, CallSound
  <2>2. state' = state \/ state' = [state EXCEPT ![call.task] = "READY"]
    BY <1>1 DEF WakeTask
  <2>3. \A t \in Task : state'[t] = state[t] \/ {state[t], state'[t]} \cap SemStates = {}
    BY <1>t, <2>1, <2>2 DEF TypeOK, SemStates, WaitsForEvent
  <2> QED
    BY <1>0, <2>3, StatesAside
<1>2. CASE SetWaiting
  <2>1. /\ call.op = "added" /\ state' = [state EXCEPT ![running] = "WAITING_EVENT"]
        /\ running \in Task
    BY <1>t, <1>2 DEF SetWaiting, CallSound
  <2>2. state[running] # "WAITING_SEM"
    BY <1>t, <2>1 DEF RunningIsReady
  <2>3. Abstract!Resume(running)
    BY <1>t, <1>0, <2>1, <2>2, OneGoesOn DEF SemStates
  <2> QED
    BY <2>1, <2>3 DEF Abstract!Next
<1>3. CASE Suspend
  <2>1. call.task \in Task /\ state' = [state EXCEPT ![call.task] = "SUSPENDED"]
    BY <1>t, <1>3, CallTypes DEF Suspend
  <2>2. Abstract!Stop(call.task)
    BY <1>t, <1>0, <2>1, OneStops
  <2> QED
    BY <2>1, <2>2 DEF Abstract!Next
<1> QED
  BY <1>1, <1>2, <1>3

LEMMA NextRefinesSemaphore ==
  ASSUME ~Preempt, IndInv, SeenIsFresh, [Next]_vars
  PROVE  [Abstract!Next]_<<value, WaitingBar, StoppedBar>>
<1>t. TypeOK /\ CallSound /\ RunningIsReady /\ IndInv'
  BY NextIndInv DEF IndInv
<1>u. RunningIsReady'
  BY <1>t DEF IndInv
<1>1. CASE UNCHANGED vars
  BY <1>1 DEF vars, taskVars, WaitingBar, StoppedBar, WaitersOf
<1>2. CASE SemBlock \/ SemEnter
  BY <1>t, <1>2, SemBlocks
<1>3. CASE SemTake \/ SemIncrement \/ SemRelease
  BY <1>t, <1>3, SemCallsRefine
<1>4. CASE /\ ~(UNCHANGED vars \/ SemBlock \/ SemEnter \/ SemTake \/ SemIncrement \/ SemRelease)
           /\ \/ Interrupt \/ Search \/ Schedule \/ Sleep
              \/ \E t \in Task : SemCall(t) \/ EventCall(t) \/ TimeCall(t) \/ StateCall(t)
              \/ ReadQueue \/ AddEvent \/ SetWaiting \/ Examine \/ WakeTask \/ EventSignaled
              \/ Suspend
  <2>1. call.op # "enter" /\ call'.op # "enter"
    <3>1. CASE Interrupt
      <4>1. call = NoCall /\ call' = NoCall
        BY <3>1, InterruptKinds DEF Interrupt, OsTick, OsSubTick, SemISRSignal,
                                    EventISRSignal, Interruptible
      <4> QED
        BY <4>1 DEF NoCall
    <3>2. ASSUME NEW t \in Task, NEW s \in Sem, SemWait(t, s) \/ SemSignal(t, s)
          PROVE  call.op # "enter" /\ call'.op # "enter"
      BY <3>2 DEF SemWait, SemSignal, Calling, NoCall
    <3>3. CASE WakeTask
      BY <3>3 DEF WakeTask
    <3>4. CASE Aside
      BY <3>4 DEF Aside, SemOps
    <3> QED
      BY <1>4, <3>1, <3>2, <3>3, <3>4, StepKinds
  <2>2. Plain /\ Plain'
    BY <1>t, <1>u, <2>1, OutsideIsPlain
       DEF RunningIsReady, Plain, WaitingBar, AllWaiting, WaitersOf
  <2>3. CASE UNCHANGED <<state, semaphore, value>>
    BY <2>2, <2>3, StatesAside
  <2>4. CASE \/ Search \/ Schedule \/ Sleep \/ \E t \in Task : SemCall(t)
             \/ ReadQueue \/ AddEvent \/ Examine \/ EventSignaled
    BY <2>3, <2>4 DEF Search, Schedule, Sleep, SemCall, SemWait, SemSignal, ReadQueue,
                      AddEvent, Examine, EventSignaled, taskVars
  <2>5. CASE Interrupt
    BY <2>2, <2>5, InterruptRefines
  <2>6. CASE \E t \in Task : EventCall(t) \/ TimeCall(t) \/ StateCall(t)
    BY <2>2, <2>6, OtherCallsRefine
  <2>7. CASE WakeTask \/ SetWaiting \/ Suspend
    BY <2>2, <2>7, OtherStepsRefine
  <2> QED
    BY <1>4, <2>4, <2>5, <2>6, <2>7
<1> QED
  BY <1>1, <1>2, <1>3, <1>4 DEF Next, Continue

\* As long as no interrupt handler runs within a kernel call, the semaphores of
\* any tasks do what Semaphore says: a wait takes a token or waits only when there
\* is none, a signal goes to the most urgent waiting task or, if nobody waits, is
\* a token, and nobody leaves otherwise but suspended or killed.
THEOREM SemaphoreRefinement ==
  ASSUME ~Preempt
  PROVE  Spec => ImplementsSemaphore
<1>1. Init => Abstract!Init
  BY DEF Init, Abstract!Init, WaitingBar, StoppedBar, WaitersOf
<1>2. Init => NoIdleToken /\ SeenIsFresh
  BY DEF Init, NoIdleToken, SeenIsFresh, WaitersOf, NoCall
<1>3. IndInv /\ (NoIdleToken /\ SeenIsFresh) /\ [Next]_vars => (NoIdleToken /\ SeenIsFresh)'
  BY QuietStep
<1>4. IndInv /\ SeenIsFresh /\ [Next]_vars => [Abstract!Next]_<<value, WaitingBar, StoppedBar>>
  BY NextRefinesSemaphore
<1> QED
  BY <1>1, <1>2, <1>3, <1>4, Invariance, PTL
     DEF Spec, ImplementsSemaphore, Abstract!Spec, Abstract!vars

-----------------------------------------------------------------------------
(* Handlers anywhere.                                                       *)

\* What a call has read of its semaphore may be out of date, but only in one
\* direction: handlers add tokens and free waiting tasks.
SeenIsCovered ==
  /\ call.op \in {"take", "increment"} => call.seen <= value[call.sem]
  /\ call.op = "increment" => WaitersOf(call.sem) = {}
  /\ \A s \in Sem : value[s] <= MaxValue[s]

LEMMA Values ==
  ASSUME TypeOK
  PROVE  \A s \in Sem : value[s] \in Nat /\ MaxValue[s] \in Nat
BY SemAssumption DEF TypeOK

\* How the values can change.
LEMMA ValueSteps ==
  ASSUME IndInv, SeenIsCovered, [Next]_vars
  PROVE  \/ value' = value
         \/ /\ call.op = "take" /\ call' = NoCall
            /\ value' = [value EXCEPT ![call.sem] = call.seen - 1]
         \/ \E s \in Sem, v \in Nat :
              /\ v <= value[s] /\ WaitersOf(s) = {}
              /\ value' = [value EXCEPT ![s] = Incremented(s, v)]
              /\ call.op = "increment" \/ call' = call
<1>t. TypeOK
  BY DEF IndInv
<1>1. CASE SemTake
  BY <1>1 DEF SemTake
<1>2. CASE SemIncrement
  <2>1. /\ call.op = "increment"
        /\ call.sem \in Sem /\ call.seen \in Nat
        /\ call.seen <= value[call.sem] /\ WaitersOf(call.sem) = {}
        /\ value' = [value EXCEPT ![call.sem] = Incremented(call.sem, call.seen)]
    BY <1>t, <1>2, CallTypes DEF SemIncrement, SeenIsCovered
  <2> QED
    BY <2>1
<1>3. CASE Interrupt
  <2>1. call' = call
    BY <1>3, InterruptKinds
  <2>2. \A s \in Sem : value[s] \in Nat /\ value[s] <= value[s]
    BY <1>t, Values
  <2> QED
    BY <1>3, <2>1, <2>2, InterruptKinds
<1>4. CASE \/ UNCHANGED vars \/ WakeTask \/ Aside \/ SemBlock \/ SemEnter \/ SemRelease
           \/ \E t \in Task, s \in Sem : SemWait(t, s) \/ SemSignal(t, s)
  BY <1>4 DEF vars, WakeTask, Aside, SemBlock, SemEnter, SemRelease, SemWait, SemSignal
<1> QED
  BY <1>1, <1>2, <1>3, <1>4, StepKinds

\* A step that leaves a semaphore's call in progress is a handler's, or none.
LEMMA InProgress ==
  ASSUME IndInv, [Next]_vars, call'.op \in {"take", "increment"}
  PROVE  \/ UNCHANGED vars \/ Interrupt
         \/ \E t \in Task, s \in Sem : SemWait(t, s) \/ SemSignal(t, s)
<1>t. TypeOK
  BY DEF IndInv
<1>1. ~SemBlock
  BY <1>t, CallTypes DEF SemBlock
<1>2. ~(WakeTask \/ Aside \/ SemTake \/ SemEnter \/ SemIncrement \/ SemRelease)
  BY DEF WakeTask, Aside, SemOps, SemTake, SemEnter, SemIncrement, SemRelease, Yield, NoCall
<1> QED
  BY <1>1, <1>2, StepKinds

\* The values stay below their maximum.
LEMMA ValuesBounded ==
  ASSUME IndInv, SeenIsCovered, [Next]_vars, NEW s \in Sem
  PROVE  value'[s] <= MaxValue[s]
<1>t. TypeOK
  BY DEF IndInv
<1>0. \A q \in Sem : /\ value[q] \in Nat /\ MaxValue[q] \in Nat
                     /\ value[q] <= MaxValue[q]
  BY <1>t, Values DEF SeenIsCovered
<1>1. CASE value' = value
  BY <1>0, <1>1
<1>2. CASE call.op = "take" /\ value' = [value EXCEPT ![call.sem] = call.seen - 1]
  <2>1. call.sem \in Sem /\ call.seen \in Nat /\ call.seen <= value[call.sem]
    BY <1>t, <1>2, CallTypes DEF SeenIsCovered
  <2>2. value'[s] = IF s = call.sem THEN call.seen - 1 ELSE value[s]
    BY <1>t, <1>2 DEF TypeOK
  <2> QED
    BY <1>0, <2>1, <2>2
<1>3. ASSUME NEW q \in Sem, NEW v \in Nat, v <= value[q],
             value' = [value EXCEPT ![q] = Incremented(q, v)]
      PROVE  value'[s] <= MaxValue[s]
  <2>1. value'[s] = IF s = q THEN Incremented(q, v) ELSE value[s]
    BY <1>t, <1>3 DEF TypeOK
  <2>2. Incremented(q, v) <= MaxValue[q]
    BY <1>0, <1>3 DEF Incremented
  <2> QED
    BY <1>0, <2>1, <2>2
<1> QED
  BY <1>1, <1>2, <1>3, ValueSteps

LEMMA CoveredStep ==
  ASSUME IndInv, SeenIsCovered, [Next]_vars
  PROVE  SeenIsCovered'
<1>t. TypeOK
  BY DEF IndInv
<1>1. \A s \in Sem : value'[s] <= MaxValue[s]
  BY ValuesBounded
<1>2. CASE call'.op \notin {"take", "increment"}
  BY <1>1, <1>2 DEF SeenIsCovered
<1>3. ASSUME NEW t \in Task, NEW s \in Sem, SemWait(t, s) \/ SemSignal(t, s),
             call'.op \in {"take", "increment"}
      PROVE  SeenIsCovered'
  <2>1. UNCHANGED <<state, semaphore, value>> /\ call'.sem = s /\ call'.seen = value[s]
    BY <1>3 DEF SemWait, SemSignal, taskVars
  <2>2. value[s] \in Nat
    BY <1>t, Values
  <2>3. call'.op = "increment" => WaitersOf(s) = {}
    BY <1>3 DEF SemWait, SemSignal, WaitingThisSemaphore
  <2>4. call'.seen <= value'[call'.sem]
    BY <2>1, <2>2
  <2>5. call'.op = "increment" => WaitersOf(call.sem)' = {}
    BY <2>1, <2>3 DEF WaitersOf
  <2> QED
    BY <1>1, <2>4, <2>5 DEF SeenIsCovered
<1>4. CASE Interrupt /\ call'.op \in {"take", "increment"}
  <2>0. call' = call
    BY <1>4, InterruptKinds
  <2>1. call.sem \in Sem /\ call.seen \in Nat /\ call.seen <= value[call.sem]
    BY <1>t, <1>4, <2>0, CallTypes DEF SeenIsCovered
  <2>2. value[call.sem] \in Nat /\ value'[call.sem] \in Nat
    BY <1>t, <2>1, NextIndInv DEF TypeOK, IndInv
  <2>3. /\ value[call.sem] <= value'[call.sem]
        /\ WaitersOf(call.sem)' \subseteq WaitersOf(call.sem)
    BY <1>4, <2>0, <2>1, HandlersOnlyWake DEF WaitersOf
  <2>4. call'.seen <= value'[call'.sem]
    BY <2>0, <2>1, <2>2, <2>3
  <2>5. call'.op = "increment" => WaitersOf(call.sem)' = {}
    BY <2>0, <2>3 DEF SeenIsCovered
  <2> QED
    BY <1>1, <2>4, <2>5 DEF SeenIsCovered
<1>5. CASE UNCHANGED vars
  BY <1>5 DEF vars, taskVars, SeenIsCovered, WaitersOf
<1> QED
  BY <1>2, <1>3, <1>4, <1>5, InProgress

LEMMA NothingFromNothing ==
  ASSUME IndInv, SeenIsCovered, FoundSound, Next
  PROVE  /\ call.op = "take" /\ call' = NoCall => value'[call.sem] < value[call.sem]
         /\ \A s \in Sem : value'[s] > value[s] =>
              /\ value'[s] = value[s] + 1 /\ value'[s] <= MaxValue[s]
              /\ WaitersOf(s) = {}
              /\ \A q \in Sem \ {s} : value'[q] = value[q]
         /\ \A t \in Task : state[t] = "WAITING_SEM" /\ state'[t] = "READY" =>
              /\ value' = value
              /\ \A u \in Task \ {t} : state'[u] = state[u]
<1>t. TypeOK /\ CallSound
  BY DEF IndInv
<1>0. \A s \in Sem : value[s] \in Nat /\ MaxValue[s] \in Nat /\ value[s] <= MaxValue[s]
  BY <1>t, Values DEF SeenIsCovered
<1>1. ASSUME call.op = "take"
      PROVE  /\ call.sem \in Sem /\ call.seen \in Nat
             /\ call.seen > 0 /\ call.seen <= value[call.sem]
  BY <1>t, <1>1, CallTypes DEF SeenIsCovered, CallSound
<1>2. ASSUME call.op = "take", call' = NoCall
      PROVE  value'[call.sem] < value[call.sem]
  <2>0. call # NoCall
    BY <1>2 DEF NoCall
  <2>1. SemTake
    <3>1. ~(UNCHANGED vars \/ Interrupt)
      BY <1>2, <2>0, InterruptKinds DEF vars
    <3>2. \A t \in Task, s \in Sem : ~(SemWait(t, s) \/ SemSignal(t, s))
      BY <2>0 DEF SemWait, SemSignal, Calling
    <3>3. ~(WakeTask \/ Aside \/ SemBlock \/ SemEnter \/ SemIncrement \/ SemRelease)
      BY <1>2 DEF WakeTask, Aside, SemOps, SemBlock, SemEnter, SemIncrement, SemRelease
    <3> QED
      BY <3>1, <3>2, <3>3, StepKinds
  <2>2. value'[call.sem] = call.seen - 1
    BY <1>t, <1>1, <1>2, <2>1 DEF SemTake, TypeOK
  <2> QED
    BY <1>0, <1>1, <1>2, <2>2
<1>3. ASSUME NEW s \in Sem, value'[s] > value[s]
      PROVE  /\ value'[s] = value[s] + 1 /\ value'[s] <= MaxValue[s]
             /\ WaitersOf(s) = {}
             /\ \A q \in Sem \ {s} : value'[q] = value[q]
  <2>1. value' # value
    BY <1>0, <1>3
  <2>2. ~(call.op = "take" /\ value' = [value EXCEPT ![call.sem] = call.seen - 1])
    <3> SUFFICES ASSUME call.op = "take",
                        value' = [value EXCEPT ![call.sem] = call.seen - 1]
                 PROVE  FALSE
      OBVIOUS
    <3>1. value'[s] = IF s = call.sem THEN call.seen - 1 ELSE value[s]
      BY <1>t DEF TypeOK
    <3> QED
      BY <1>0, <1>1, <1>3, <3>1
  <2>3. PICK q \in Sem, v \in Nat :
          /\ v <= value[q] /\ WaitersOf(q) = {}
          /\ value' = [value EXCEPT ![q] = Incremented(q, v)]
    BY <2>1, <2>2, ValueSteps
  <2>4. \A r \in Sem : value'[r] = IF r = q THEN Incremented(q, v) ELSE value[r]
    BY <1>t, <2>3 DEF TypeOK
  <2>5. s = q
    BY <1>0, <1>3, <2>4
  <2> QED
    BY <1>0, <1>3, <2>3, <2>4, <2>5 DEF Incremented
<1> QED
  BY <1>2, <1>3, FreedAlone

\* Wherever the handlers land, a sem_wait that takes a token lowers the value, and a
\* signal adds one token at most, up to the maximum and only where nobody waits, or
\* frees one waiting task and adds none: signals may be lost, never doubled.
THEOREM NothingUnsignalled == Spec => NoTokenFromNothing
<1> DEFINE Earned ==
      /\ call.op = "take" /\ call' = NoCall => value'[call.sem] < value[call.sem]
      /\ \A s \in Sem : value'[s] > value[s] =>
           /\ value'[s] = value[s] + 1 /\ value'[s] <= MaxValue[s]
           /\ WaitersOf(s) = {}
           /\ \A q \in Sem \ {s} : value'[q] = value[q]
      /\ \A t \in Task : state[t] = "WAITING_SEM" /\ state'[t] = "READY" =>
           /\ value' = value
           /\ \A u \in Task \ {t} : state'[u] = state[u]
<1>1. Init => SeenIsCovered
  BY SemAssumption DEF Init, SeenIsCovered, NoCall
<1>2. IndInv /\ SeenIsCovered /\ [Next]_vars => SeenIsCovered'
  BY CoveredStep
<1>3. IndInv /\ SeenIsCovered /\ FoundSound /\ [Next]_vars => [Earned]_vars
  BY NothingFromNothing
<1> QED
  BY <1>1, <1>2, <1>3, FoundInvariance, Invariance, PTL DEF Spec, NoTokenFromNothing
=============================================================================
