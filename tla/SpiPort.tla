------------------------------- MODULE SpiPort -------------------------------
(***************************************************************************)
(* One SPI port (spiint.cpp): a transceive is carried out by two DMA       *)
(* channels, one that feeds the transmitter and one that empties the       *)
(* receiver.  Each raises a flag when its transfer is complete or has      *)
(* failed; the interrupt handlers count the completions in one status and  *)
(* signal the semaphore of the task that waits for the received bytes.     *)
(*                                                                         *)
(* A channel is "off" after a reset, "on" while it has bytes to move,      *)
(* "complete" or "error" while its flag is up, "done" or "failed" when the *)
(* handler has taken the flag down.  Half-transfer flags only go to the    *)
(* history, and tx_semaphore is always NULL: neither is modelled.          *)
(***************************************************************************)
EXTENDS Naturals

CONSTANTS
  Sensor,   \* the tasks that use the port, each with a completion semaphore
  NoSem,    \* a NULL semaphore
  Faults    \* may a DMA transfer fail?

ASSUME SensorAssumption == NoSem \notin Sensor /\ Faults \in BOOLEAN

VARIABLES
  status,     \* transceive_status
  rxSem,      \* rx_semaphore: signalled and erased when the reception ends
  remainder,  \* rx_remainder > 0: bytes are to be received after the last sent
  tx, rx,     \* the DMA channels
  irq,        \* are the channels' interrupts enabled (NVIC)?
  token       \* value of each task's completion semaphore, a binary one

portVars == <<status, rxSem, remainder, tx, rx, irq, token>>

Status == {"none", "tx complete", "rx complete", "timeout", "tx error", "rx error"}
Channel == {"off", "on", "complete", "error", "done", "failed"}

Flagged(channel) == channel \in {"complete", "error"}

\* A task runs only when no interrupt handler has to.
Quiet == irq => ~Flagged(tx) /\ ~Flagged(rx)

\* spi_is_transceive_complete.
Complete == status \in {"rx complete", "timeout", "tx error", "rx error"}

PortInit ==
  /\ status = "none"
  /\ rxSem = NoSem
  /\ remainder = FALSE
  /\ tx = "off" /\ rx = "off"
  /\ irq = FALSE
  /\ token = [s \in Sensor |-> 0]

-----------------------------------------------------------------------------
(* What tasks call. *)

\* A reset of the SPI peripheral ends its requests to the DMA; a flag stays up.
Unclocked(channel) == IF channel = "on" THEN "off" ELSE channel

SpiOpen ==
  /\ rxSem' = NoSem
  /\ status' = "none"
  /\ tx' = Unclocked(tx)
  /\ rx' = Unclocked(rx)
  /\ irq' = TRUE
  /\ UNCHANGED <<remainder, token>>

\* The semaphore goes first; then the port waits for the end of the bytes on
\* the wire, or for the timeout.
SpiClose ==
  /\ rxSem' = NoSem
  /\ irq' = FALSE
  /\ UNCHANGED <<status, remainder, tx, rx, token>>

NotReset(channel) == channel

\* dma_channel_reset: a transfer of before is given up and its flag is down.
Reset(channel) == "off"

Started(channel) == IF channel = "off" THEN "on" ELSE channel

\* spi_transceive when it is not simulated, for packets of equal lengths or,
\* with "longer", of more bytes to receive than to send (and some to send).
SpiTransceive(longer, sem) ==
  /\ rxSem' = sem
  /\ status' = "none"
  /\ remainder' = longer
  /\ tx' = Started(Reset(tx))
  /\ rx' = Started(Reset(rx))
  /\ UNCHANGED <<irq, token>>

\* spi_wait gives up, on the status or on the last byte on the wire: the
\* transfer itself goes on.
SpiTimeout ==
  /\ status' = "timeout"
  /\ UNCHANGED <<rxSem, remainder, tx, rx, irq, token>>

-----------------------------------------------------------------------------
(* The hardware. *)

TxDone ==
  /\ tx = "on"
  /\ tx' = "complete"
  /\ UNCHANGED <<status, rxSem, remainder, rx, irq, token>>

\* The last byte is received after the last one was fetched for sending.
RxDone ==
  /\ rx = "on"
  /\ tx \in {"complete", "done"} /\ ~remainder
  /\ rx' = "complete"
  /\ UNCHANGED <<status, rxSem, remainder, tx, irq, token>>

TxFault ==
  /\ Faults
  /\ tx = "on"
  /\ tx' = "error"
  /\ UNCHANGED <<status, rxSem, remainder, rx, irq, token>>

RxFault ==
  /\ Faults
  /\ rx = "on"
  /\ rx' = "error"
  /\ UNCHANGED <<status, rxSem, remainder, tx, irq, token>>

-----------------------------------------------------------------------------
(* The interrupt handlers.  They do not interrupt each other. *)

HalfDoneIsStored(s) == IF s = "none" THEN "tx half done" ELSE "rx complete"

OneCompletionIsEnough(s) == IF s = "none" THEN "rx complete" ELSE s

FirstIsNotCounted(s) == IF s = "tx complete" THEN "rx complete" ELSE s

\* update_transceive_status without a new status.
NextStatus(s) ==
  CASE s = "none" -> "tx complete"
    [] s = "tx complete" -> "rx complete"
    [] OTHER -> s

\* sem_ISR_signal(*rx_semaphore), if there is one.
Signalled(sem) == [s \in Sensor |-> IF s = sem THEN 1 ELSE token[s]]

NotErased(sem) == sem

\* The semaphore is erased so that it won't be signalled twice.
Erased(sem) == NoSem

EndReception ==
  /\ token' = Signalled(rxSem)
  /\ rxSem' = Erased(rxSem)

\* Transmit complete: that counts if nothing remains to be received;
\* otherwise a dummy transfer clocks in the rest.
TxCompleteInterrupt ==
  /\ irq /\ tx = "complete"
  /\ \/ /\ ~remainder
        /\ tx' = "done"
        /\ status' = NextStatus(status)
        /\ UNCHANGED remainder
     \/ /\ remainder
        /\ tx' = "on"
        /\ remainder' = FALSE
        /\ UNCHANGED status
  /\ UNCHANGED <<rxSem, rx, irq, token>>

TxErrorInterrupt ==
  /\ irq /\ tx = "error"
  /\ tx' = "failed"
  /\ status' = "tx error"
  /\ EndReception
  /\ UNCHANGED <<remainder, rx, irq>>

RxCompleteInterrupt ==
  /\ irq /\ rx = "complete"
  /\ rx' = "done"
  /\ status' = NextStatus(status)
  /\ EndReception
  /\ UNCHANGED <<remainder, tx, irq>>

RxErrorInterrupt ==
  /\ irq /\ rx = "error"
  /\ rx' = "failed"
  /\ status' = "rx error"
  /\ EndReception
  /\ UNCHANGED <<remainder, tx, irq>>

Hardware == TxDone \/ TxFault \/ RxFault  \* RxDone brings data: see its users

Interrupt ==
  \/ TxCompleteInterrupt \/ TxErrorInterrupt
  \/ RxCompleteInterrupt \/ RxErrorInterrupt

PortTypeOK ==
  /\ status \in Status
  /\ rxSem \in Sensor \cup {NoSem}
  /\ remainder \in BOOLEAN
  /\ tx \in Channel /\ rx \in Channel
  /\ irq \in BOOLEAN
  /\ token \in [Sensor -> {0, 1}]

=============================================================================
