----------------------------- MODULE SensorPort -----------------------------
(***************************************************************************)
(* The port semaphore as SensorNet has it, one number and the tasks that   *)
(* stand in front of it, is a semaphore as Semaphore describes it, which   *)
(* is what CocoSemaphores shows of the kernel's.  No sensor task is ever   *)
(* suspended or killed.                                                    *)
(***************************************************************************)
EXTENDS SensorNet

PORT == "port"

Alone(x) == [p \in {PORT} |-> x]

Port == INSTANCE Semaphore
          WITH Sem <- {PORT}, Task <- Sensor, MaxValue <- Alone(1), InitValue <- Alone(1),
               tokens <- Alone(port), waiting <- Alone(Queued), stopped <- {}

\* The sensors use the port semaphore as Semaphore allows and nothing else moves
\* it: a token is taken or waited for, and given back to the most urgent waiting
\* sensor or, if there is none, to the semaphore (sensor.cpp:61-98).
PortIsSemaphore == Port!Spec
=============================================================================
