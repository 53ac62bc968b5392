---------------------------- MODULE CmdTransfer ----------------------------
(***************************************************************************)
(* What the interrupt driven transmit path promises the engine above it:   *)
(* a command list is opened, filled, closed and then handed over to the    *)
(* chip exactly once, the chip's write pointer moving by the bytes counted *)
(* into it.  Bytes, the ring buffer, the SPI and the interrupt handler are *)
(* below this level.  ItApi is shown to implement this module, and         *)
(* GpuEngine, which is built on it, to use it only as it may be used.      *)
(***************************************************************************)
EXTENDS Naturals

CONSTANTS FifoSize,   \* FT_CMDFIFO_SIZE
          MaxBytes    \* longest command list, in bytes

ASSUME TransferAssumption == /\ FifoSize \in Nat
                             /\ MaxBytes \in Nat
                             /\ MaxBytes < FifoSize

VARIABLES status,          \* m_sendingStatus
          open,            \* a list is being filled
          bytes,           \* bytes counted into the list
          chipWr, chipRd   \* REG_CMD_WRITE, REG_CMD_READ

transferVars == <<status, open, bytes, chipWr, chipRd>>

Init == /\ status = "ReadyToSend"
        /\ open = FALSE
        /\ bytes = 0
        /\ chipWr = 0 /\ chipRd = 0

(* A list may be opened only on a quiet path and an idle chip. *)
MayPrepare == status = "ReadyToSend" /\ ~open /\ chipRd = chipWr

(* What prepare does whoever calls it. *)
Reopen == /\ open' = TRUE
          /\ status' = "ReadyToSend"
          /\ bytes' = 0
          /\ UNCHANGED <<chipWr, chipRd>>

Prepare == MayPrepare /\ Reopen

Count(n) == /\ open
            /\ bytes + n <= MaxBytes
            /\ bytes' = bytes + n
            /\ UNCHANGED <<status, open, chipWr, chipRd>>

Start == /\ open
         /\ status = "ReadyToSend"
         /\ bytes > 0
         /\ status' = "SendingData"
         /\ UNCHANGED <<open, bytes, chipWr, chipRd>>

Flush == /\ open
         /\ status = "SendingData"
         /\ open' = FALSE
         /\ UNCHANGED <<status, bytes, chipWr, chipRd>>

(* A list is never closed under the client's feet. *)
ListSent == /\ status = "SendingData"
            /\ ~open
            /\ status' = "SentData"
            /\ UNCHANGED <<open, bytes, chipWr, chipRd>>

SendReg == /\ status = "SentData"
           /\ status' = "SendingRegData"
           /\ UNCHANGED <<open, bytes, chipWr, chipRd>>

(* Faulty: the offset is not taken modulo the FIFO's size. *)
RegSentNoWrap == /\ status = "SendingRegData"
                 /\ status' = "SentRegData"
                 /\ chipWr' = chipWr + bytes
                 /\ UNCHANGED <<open, bytes, chipRd>>

RegSent == /\ status = "SendingRegData"
           /\ status' = "SentRegData"
           /\ chipWr' = (chipWr + bytes) % FifoSize
           /\ UNCHANGED <<open, bytes, chipRd>>

Done == /\ status = "SentRegData"
        /\ status' = "ReadyToSend"
        /\ UNCHANGED <<open, bytes, chipWr, chipRd>>

Process == /\ chipRd # chipWr
           /\ chipRd' = chipWr
           /\ UNCHANGED <<status, open, bytes, chipWr>>

Next == \/ Prepare
        \/ \E n \in 1..MaxBytes : Count(n)
        \/ Start \/ Flush
        \/ ListSent \/ SendReg \/ RegSent \/ Done \/ Process

Spec == Init /\ [][Next]_transferVars
=============================================================================
