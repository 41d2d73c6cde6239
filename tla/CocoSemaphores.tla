--------------------------- MODULE CocoSemaphores ---------------------------
(***************************************************************************)
(* The kernel's semaphores implement Semaphore as long as no interrupt     *)
(* handler runs within a kernel call.  A call takes effect with its last   *)
(* step.                                                                   *)
(***************************************************************************)
EXTENDS CocoKernel

WaitingBar == [s \in Sem |-> WaitersOf(s) \ {running}]

StoppedBar == {t \in Task : state[t] \in {"SUSPENDED", "KILLED"}}

Abstract == INSTANCE Semaphore
              WITH tokens <- value, waiting <- WaitingBar, stopped <- StoppedBar

\* The kernel's semaphores do what Semaphore says: no wait while there is a token,
\* no token while somebody waits, the most urgent waiting task first, and nobody
\* leaves but by a signal or by being suspended or killed (os_sem.c and os_task.c
\* against docSemaphores.h).
ImplementsSemaphore == Abstract!Spec
=============================================================================
