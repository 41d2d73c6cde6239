----------------------------- MODULE Semaphore -----------------------------
(***************************************************************************)
(* What semaphores promise the tasks that use them (docSemaphores.h): a    *)
(* wait takes a token or, if there is none, waits.  A signal frees the most*)
(* urgent waiting task; it is a token only if nobody waits.  A task that   *)
(* is suspended or killed waits no more.                                   *)
(***************************************************************************)
EXTENDS Integers

CONSTANTS
  Sem,       \* the semaphores
  Task,      \* the tasks
  Prio,      \* their priorities: smaller is more urgent
  MaxValue,  \* the most tokens a semaphore has
  InitValue  \* the tokens it has at first

VARIABLES
  tokens,    \* the tokens of each semaphore
  waiting,   \* the tasks that wait for each semaphore
  stopped    \* the tasks that are suspended or killed

vars == <<tokens, waiting, stopped>>

Init ==
  /\ tokens = InitValue
  /\ waiting = [s \in Sem |-> {}]
  /\ stopped = {}

Take(s) ==
  /\ tokens[s] > 0
  /\ tokens' = [tokens EXCEPT ![s] = @ - 1]
  /\ UNCHANGED <<waiting, stopped>>

\* A task waits for one semaphore at a time.  One that has killed itself is no
\* longer stopped.
Wait(t, s) ==
  /\ tokens[s] = 0
  /\ \A q \in Sem : t \notin waiting[q]
  /\ waiting' = [waiting EXCEPT ![s] = @ \cup {t}]
  /\ stopped' = stopped \ {t}
  /\ UNCHANGED tokens

HandOver(s) ==
  /\ \E t \in waiting[s] :
       /\ \A u \in waiting[s] : u # t => Prio[t] < Prio[u]
       /\ waiting' = [waiting EXCEPT ![s] = @ \ {t}]
  /\ UNCHANGED <<tokens, stopped>>

Add(s) ==
  /\ waiting[s] = {}
  /\ tokens[s] < MaxValue[s]
  /\ tokens' = [tokens EXCEPT ![s] = @ + 1]
  /\ UNCHANGED <<waiting, stopped>>

Stop(t) ==
  /\ stopped' = stopped \cup {t}
  /\ waiting' = [s \in Sem |-> waiting[s] \ {t}]
  /\ UNCHANGED tokens

Resume(t) ==
  /\ stopped' = stopped \ {t}
  /\ UNCHANGED <<tokens, waiting>>

Next ==
  \/ \E s \in Sem : Take(s) \/ HandOver(s) \/ Add(s) \/ \E t \in Task : Wait(t, s)
  \/ \E t \in Task : Stop(t) \/ Resume(t)

Spec == Init /\ [][Next]_vars
=============================================================================
