------------------------------- MODULE ItApi -------------------------------
(***************************************************************************)
(* The interrupt driven transmit path: ft80x_it_api.c, the command builder *)
(* of ft80x_it_api_cmd.c and the SPI4 interrupt handler of main.c.         *)
(*                                                                         *)
(* The main thread builds a command list (prepare, appends, flush) and     *)
(* later polls ft80x_it_check; SPI4_IRQHandler sends the bytes meanwhile   *)
(* and may run between any two of the main thread's steps.  pc is the main *)
(* thread's place inside the API, "idle" between two calls; every access   *)
(* to shared state is a step of its own.                                   *)
(*                                                                         *)
(* A list travels in two SPI frames (SPE set to SPE cleared): the command  *)
(* bytes behind a 3-byte FIFO address, then, when check finds SentData,    *)
(* the new value of REG_CMD_WRITE behind the address of that register.     *)
(*                                                                         *)
(* A byte is a record of what it is: n is its number in the list for a     *)
(* "data" byte, the offset for a "cmdAddr" byte, the value for a "val"     *)
(* byte.  The ring buffer is the bounded queue of ByteFifo, which          *)
(* ItRingBuffer implements.                                                *)
(***************************************************************************)
EXTENDS Naturals, Sequences, SequencesExt

CONSTANTS RingSize,   \* FT801_RINGBUFFER_SIZE, one cell of it is never used
          FifoSize,   \* FT_CMDFIFO_SIZE
          WordLen,    \* bytes of a command word or register value (4)
          MaxBytes,   \* longest command list the client builds, in bytes
          StrLens     \* the lengths, with the final 0, of the client's strings

ASSUME RingAssumption == RingSize \in Nat /\ WordLen \in Nat \ {0}
                         /\ RingSize > 3 + WordLen
ASSUME ListAssumption == /\ MaxBytes \in Nat
                         /\ FifoSize \in Nat
                         /\ MaxBytes < FifoSize
                         /\ StrLens \subseteq Nat \ {0}

VARIABLES
  status,             \* m_sendingStatus
  cmd_buffer_status,  \* is the list still being appended to?
  chip_fifo_write,    \* value to store in REG_CMD_WRITE
  reg_cmd_write_val,  \* value read from REG_CMD_WRITE by prepare
  bytes_in_transaction,
  ring,               \* the transmit ring buffer
  accepted,           \* what the last call of a ring buffer append returned
  pc, todo,           \* the main thread's place, and its local byte count
  painting,           \* the client is between prepare and the end of flush
  nvic,               \* SPI4_IRQn enabled
  spe, txe, dr, shift,\* SPE, TXE, the data register and the shift register
  frame,              \* the bytes sent since SPE was set
  landed, landedAt,   \* the bytes in the chip's command FIFO, and where
  chipWr, chipRd,     \* REG_CMD_WRITE and REG_CMD_READ
  refused             \* history: a byte of this list found the ring full

mcu   == <<status, cmd_buffer_status, chip_fifo_write>>
list  == <<reg_cmd_write_val, bytes_in_transaction, painting, refused>>
queue == <<ring, accepted>>
main  == <<pc, todo>>
spi   == <<spe, txe, dr, shift, frame>>
chip  == <<landed, landedAt, chipWr, chipRd>>
vars  == <<mcu, list, queue, main, nvic, spi, chip>>

Statuses == {"ReadyToSend", "SendingData", "SendingRegData", "SentData",
             "SentRegData"}
Token == [kind : {"cmdAddr", "data", "regAddr", "val"}, n : 0..FifoSize-1]
Tok(k, i) == [kind |-> k, n |-> i]

Ring == INSTANCE ByteFifo WITH Byte <- Token, Strings <- Seq(Token),
                               Capacity <- RingSize - 1, arg <- <<>>,
                               queue <- ring, result <- accepted,
                               out <- dr

(* A call of one of the ring buffer's appends, whose result the callers of *)
(* this layer ignore.                                                      *)
RingAppend(s) == /\ Ring!Put(s) \/ Ring!Refuse(s)
                 /\ refused' = (refused \/ ~accepted')

(* Bytes first..last of the list being built. *)
Data(first, last) == [i \in 1..(last + 1 - first) |-> Tok("data", first + i - 1)]

-----------------------------------------------------------------------------
Init == /\ status = "ReadyToSend"
        /\ cmd_buffer_status = "AppendStarted"
        /\ chip_fifo_write = 0 /\ reg_cmd_write_val = 0
        /\ bytes_in_transaction = 0
        /\ ring = <<>> /\ accepted = TRUE /\ refused = FALSE
        /\ pc = "idle" /\ todo = 0 /\ painting = FALSE
        /\ nvic = FALSE
        /\ spe = FALSE /\ txe = TRUE /\ dr = Tok("data", 0)
        /\ shift = <<>> /\ frame = <<>>
        /\ landed = <<>> /\ landedAt = 0 /\ chipWr = 0 /\ chipRd = 0

-----------------------------------------------------------------------------
(* The SPI peripheral and the chip behind it. *)

(* The end of a frame, SPE cleared: the chip has stored the bytes it got.  *)
(* A byte still in the shift register may be lost.                         *)
Land(f) ==
  CASE f # <<>> /\ f[1].kind = "cmdAddr" ->
         /\ landed' = SubSeq(f, 4, Len(f))
         /\ landedAt' = f[1].n
         /\ UNCHANGED <<chipWr, chipRd>>
    [] Len(f) = 3 + WordLen /\ f[1].kind = "regAddr" ->
         /\ chipWr' = f[4].n
         /\ UNCHANGED <<landed, landedAt, chipRd>>
    [] OTHER -> UNCHANGED chip

SpiOff == /\ spe' = FALSE
          /\ shift' = <<>>
          /\ frame' = <<>>
          /\ Land(frame) \/ Land(frame \o shift)

Load == /\ spe /\ ~txe /\ shift = <<>>
        /\ shift' = <<dr>>
        /\ txe' = TRUE
        /\ UNCHANGED <<mcu, list, queue, main, nvic, spe, dr, frame, chip>>

ShiftOut == /\ spe /\ shift # <<>>
            /\ frame' = frame \o shift
            /\ shift' = <<>>
            /\ UNCHANGED <<mcu, list, queue, main, nvic, spe, txe, dr, chip>>

(* The graphics engine executes the commands up to REG_CMD_WRITE. *)
Process == /\ chipRd # chipWr
           /\ chipRd' = chipWr
           /\ UNCHANGED <<mcu, list, queue, main, nvic, spi, landed, landedAt,
                          chipWr>>

-----------------------------------------------------------------------------
(* SPI4_IRQHandler and ft80x_it_rountine: taken when the data register is  *)
(* empty and the interrupt enabled, never preempted by the main thread.    *)

Take == /\ nvic /\ txe
        /\ Ring!Get
        /\ txe' = FALSE
        /\ UNCHANGED <<mcu, list, main, nvic, spe, shift, frame, chip>>

(* Faulty: the handler closes whenever the ring is empty. *)
CloseEarly == /\ nvic /\ txe
              /\ ring = <<>>
              /\ shift = <<>>
              /\ status' = CASE status = "SendingData"    -> "SentData"
                             [] status = "SendingRegData" -> "SentRegData"
                             [] OTHER                     -> status
              /\ nvic' = FALSE
              /\ SpiOff
              /\ UNCHANGED <<cmd_buffer_status, chip_fifo_write, list, queue,
                             main, txe, dr>>

(* Faulty: the handler stays enabled after the end of a frame. *)
CloseKeepsNvic == /\ nvic /\ txe
                  /\ ring = <<>>
                  /\ cmd_buffer_status = "AppendFinished"
                  /\ shift = <<>>
                  /\ status' = CASE status = "SendingData"    -> "SentData"
                                 [] status = "SendingRegData" -> "SentRegData"
                                 [] OTHER                     -> status
                  /\ SpiOff
                  /\ UNCHANGED <<cmd_buffer_status, chip_fifo_write, list,
                                 queue, main, nvic, txe, dr>>

(* The ring is empty and the list complete: the transmission is closed.    *)
(* BSY is not looked at; the handler's way here from its entry takes       *)
(* longer than the 32 cycles in which the last byte leaves.                *)
Close == /\ nvic /\ txe
         /\ ring = <<>>
         /\ cmd_buffer_status = "AppendFinished"
         /\ shift = <<>>
         /\ status' = CASE status = "SendingData"    -> "SentData"
                        [] status = "SendingRegData" -> "SentRegData"
                        [] OTHER                     -> status
         /\ nvic' = FALSE
         /\ SpiOff
         /\ UNCHANGED <<cmd_buffer_status, chip_fifo_write, list, queue, main,
                        txe, dr>>

(* Faulty: a pause ends the SPI frame. *)
PauseStopsSpi == /\ nvic /\ txe
                 /\ ring = <<>>
                 /\ cmd_buffer_status = "AppendStarted"
                 /\ nvic' = FALSE
                 /\ SpiOff
                 /\ UNCHANGED <<mcu, list, queue, main, txe, dr>>

(* The ring is empty but more will be appended: the handler only silences  *)
(* itself, SPE stays set.                                                  *)
Pause == /\ nvic /\ txe
         /\ ring = <<>>
         /\ cmd_buffer_status = "AppendStarted"
         /\ nvic' = FALSE
         /\ UNCHANGED <<mcu, list, queue, main, spi, chip>>

Handler == Take \/ Close \/ Pause

-----------------------------------------------------------------------------
(* The main thread.  At(p, q): it is at place p and goes on at q. *)
At(p, q) == pc = p /\ pc' = q

NvicOn(p, q) == /\ At(p, q)
                /\ nvic' = TRUE
                /\ UNCHANGED <<mcu, list, queue, todo, spi, chip>>

SpeOn(p, q) == /\ At(p, q)
               /\ spe' = TRUE
               /\ UNCHANGED <<mcu, list, queue, todo, nvic, txe, dr, shift,
                              frame, chip>>

(* ft801_api_cmd_prepare_it: a forced reset, the ring emptied, a blocking  *)
(* read of REG_CMD_WRITE, three address bytes.                             *)
PrepareCall == /\ At("idle", "resetNvic")
               /\ cmd_buffer_status' = "AppendStarted"
               /\ painting' = TRUE
               /\ UNCHANGED <<status, chip_fifo_write, reg_cmd_write_val,
                              bytes_in_transaction, refused, queue, todo, nvic,
                              spi, chip>>

ResetNvic == /\ At("resetNvic", "resetSpe")
             /\ nvic' = FALSE
             /\ UNCHANGED <<mcu, list, queue, todo, spi, chip>>

ResetSpe == /\ At("resetSpe", "resetStatus")
            /\ SpiOff
            /\ UNCHANGED <<mcu, list, queue, todo, nvic, txe, dr>>

ResetStatus == /\ At("resetStatus", "read")
               /\ status' = "ReadyToSend"
               /\ ring' = <<>>
               /\ bytes_in_transaction' = 0
               /\ refused' = FALSE
               /\ UNCHANGED <<cmd_buffer_status, chip_fifo_write,
                              reg_cmd_write_val, painting, accepted, todo,
                              nvic, spi, chip>>

ReadCmdWrite == /\ At("read", "addr")
                /\ reg_cmd_write_val' = chipWr
                /\ todo' = 3
                /\ UNCHANGED <<mcu, bytes_in_transaction, painting, refused,
                               queue, nvic, spi, chip>>

AppendAddr == /\ pc = "addr"
              /\ RingAppend(<<Tok("cmdAddr", reg_cmd_write_val)>>)
              /\ todo' = todo - 1
              /\ pc' = IF todo = 1 THEN "idle" ELSE "addr"
              /\ UNCHANGED <<mcu, reg_cmd_write_val, bytes_in_transaction,
                             painting, nvic, spe, txe, shift, frame, chip>>

(* ft801_api_cmd_append_it: whatever the ring answers, the word is counted *)
(* and TRUE returned.                                                      *)
AppendIt == /\ painting /\ At("idle", "count")
            /\ bytes_in_transaction + WordLen <= MaxBytes
            /\ RingAppend(Data(bytes_in_transaction + 1,
                               bytes_in_transaction + WordLen))
            /\ todo' = WordLen
            /\ UNCHANGED <<mcu, reg_cmd_write_val, bytes_in_transaction, painting,
                           nvic, spe, txe, shift, frame, chip>>

(* Faulty: only an append whose last bytes were accepted is counted. *)
CountAccepted(p, q) ==
  /\ At(p, q)
  /\ bytes_in_transaction' = bytes_in_transaction + (IF accepted THEN todo ELSE 0)
  /\ UNCHANGED <<mcu, reg_cmd_write_val, painting, refused, queue, todo, nvic,
                 spi, chip>>

Count(p, q) == /\ At(p, q)
               /\ bytes_in_transaction' = bytes_in_transaction + todo
               /\ UNCHANGED <<mcu, reg_cmd_write_val, painting, refused, queue,
                              todo, nvic, spi, chip>>

(* ft80x_it_cmds_start_tx: only the first word of a list starts the SPI;   *)
(* the interrupt is enabled again after every word.                        *)
StartTx == /\ IF status = "ReadyToSend"
              THEN At("start", "startNvic") /\ status' = "SendingData"
              ELSE At("start", "resume") /\ UNCHANGED status
           /\ UNCHANGED <<cmd_buffer_status, chip_fifo_write, list, queue, todo,
                          nvic, spi, chip>>

(* _cmd_append_str: the string and its padding are two ring appends, and   *)
(* both are counted whatever the ring answers.                             *)
Pad(n) == (WordLen - (n % WordLen)) % WordLen

AppendStr(n) == /\ painting /\ At("idle", "pad")
                /\ status # "ReadyToSend"   \* a list begins with CMD_DLSTART
                /\ bytes_in_transaction + n + Pad(n) <= MaxBytes
                /\ RingAppend(Data(bytes_in_transaction + 1,
                                   bytes_in_transaction + n))
                /\ todo' = n
                /\ UNCHANGED <<mcu, reg_cmd_write_val, bytes_in_transaction,
                               painting, nvic, spe, txe, shift, frame, chip>>

AppendPad == /\ At("pad", "countStr")
             /\ IF Pad(todo) > 0
                THEN RingAppend(Data(bytes_in_transaction + todo + 1,
                                     bytes_in_transaction + todo + Pad(todo)))
                ELSE UNCHANGED <<queue, refused, dr>>
             /\ todo' = todo + Pad(todo)
             /\ UNCHANGED <<mcu, reg_cmd_write_val, bytes_in_transaction,
                            painting, nvic, spe, txe, shift, frame, chip>>

(* ft801_api_cmd_flush_it and ft80x_it_cmds_append_finished: the list is   *)
(* declared complete before the register value is stored, then the         *)
(* interrupt is enabled so that the handler can close.                     *)
Flush == /\ painting /\ At("idle", "finished")
         /\ status # "ReadyToSend"
         /\ cmd_buffer_status' = "AppendFinished"
         /\ UNCHANGED <<status, chip_fifo_write, list, queue, todo, nvic, spi,
                        chip>>

(* Faulty: the offset is not taken modulo the FIFO's size. *)
StoreNoWrap ==
  /\ At("finished", "finishNvic")
  /\ chip_fifo_write' = bytes_in_transaction + reg_cmd_write_val
  /\ painting' = FALSE
  /\ UNCHANGED <<status, cmd_buffer_status, reg_cmd_write_val,
                 bytes_in_transaction, refused, queue, todo, nvic, spi, chip>>

(* Faulty: the list is taken to begin at the start of the FIFO. *)
StoreNoBase ==
  /\ At("finished", "finishNvic")
  /\ chip_fifo_write' = bytes_in_transaction % FifoSize
  /\ painting' = FALSE
  /\ UNCHANGED <<status, cmd_buffer_status, reg_cmd_write_val,
                 bytes_in_transaction, refused, queue, todo, nvic, spi, chip>>

(* Faulty: flush does not enable the interrupt again. *)
StoreNoResume ==
  /\ At("finished", "idle")
  /\ chip_fifo_write' = (bytes_in_transaction + reg_cmd_write_val) % FifoSize
  /\ painting' = FALSE
  /\ UNCHANGED <<status, cmd_buffer_status, reg_cmd_write_val,
                 bytes_in_transaction, refused, queue, todo, nvic, spi, chip>>

StoreFifoWrite ==
  /\ At("finished", "finishNvic")
  /\ chip_fifo_write' = (bytes_in_transaction + reg_cmd_write_val) % FifoSize
  /\ painting' = FALSE
  /\ UNCHANGED <<status, cmd_buffer_status, reg_cmd_write_val,
                 bytes_in_transaction, refused, queue, todo, nvic, spi, chip>>

(* ft80x_it_check: after the list, the frame that moves REG_CMD_WRITE. *)
CheckSentData == /\ ~painting /\ At("idle", "reg")
                 /\ status = "SentData"
                 /\ cmd_buffer_status' = "AppendStarted"
                 /\ todo' = 0
                 /\ UNCHANGED <<status, chip_fifo_write, list, queue, nvic, spi,
                                chip>>

AppendReg == /\ pc = "reg"
             /\ RingAppend(<<IF todo < 3 THEN Tok("regAddr", 0)
                                         ELSE Tok("val", chip_fifo_write)>>)
             /\ todo' = todo + 1
             /\ pc' = IF todo' = 3 + WordLen THEN "regStatus" ELSE "reg"
             /\ UNCHANGED <<mcu, reg_cmd_write_val, bytes_in_transaction,
                            painting, nvic, spe, txe, shift, frame, chip>>

RegStatus == /\ At("regStatus", "regFinished")
             /\ status' = "SendingRegData"
             /\ UNCHANGED <<cmd_buffer_status, chip_fifo_write, list, queue,
                            todo, nvic, spi, chip>>

RegFinished == /\ At("regFinished", "regNvic")
               /\ cmd_buffer_status' = "AppendFinished"
               /\ UNCHANGED <<status, chip_fifo_write, list, queue, todo, nvic,
                              spi, chip>>

CheckSentRegData == /\ ~painting /\ pc = "idle"
                    /\ status = "SentRegData"
                    /\ status' = "ReadyToSend"
                    /\ UNCHANGED <<cmd_buffer_status, chip_fifo_write, list,
                                   queue, main, nvic, spi, chip>>

-----------------------------------------------------------------------------
(* The client paints only when the path is ready and the chip has executed *)
(* the last list: what the engine's looper guarantees (GpuEngine).         *)
Prepare == /\ ~painting
           /\ status = "ReadyToSend"
           /\ chipRd = chipWr
           /\ PrepareCall

Painter == \/ Prepare \/ ResetNvic \/ ResetSpe \/ ResetStatus \/ ReadCmdWrite
           \/ AppendAddr
           \/ AppendIt \/ Count("count", "start") \/ StartTx
           \/ NvicOn("startNvic", "startSpe") \/ SpeOn("startSpe", "resume")
           \/ NvicOn("resume", "idle")
           \/ \E n \in StrLens : AppendStr(n)
           \/ AppendPad \/ Count("countStr", "idle")
           \/ Flush \/ StoreFifoWrite \/ NvicOn("finishNvic", "idle")

Checker == \/ CheckSentData \/ AppendReg \/ RegStatus \/ RegFinished
           \/ NvicOn("regNvic", "regSpe") \/ SpeOn("regSpe", "idle")
           \/ CheckSentRegData

Next == Painter \/ Checker \/ Handler \/ Load \/ ShiftOut \/ Process

(* The main thread never stops between two lists for good, a pending       *)
(* interrupt is served, and the SPI and the chip do not stand still.       *)
Spec == /\ Init /\ [][Next]_vars
        /\ WF_vars(Painter \/ Checker) /\ WF_vars(Handler)
        /\ WF_vars(Load) /\ WF_vars(ShiftOut) /\ WF_vars(Process)

-----------------------------------------------------------------------------
(* The variables keep their types. *)
TypeOK ==
  /\ status \in Statuses
  /\ cmd_buffer_status \in {"AppendStarted", "AppendFinished"}
  /\ chip_fifo_write \in 0..FifoSize-1 /\ reg_cmd_write_val \in 0..FifoSize-1
  /\ bytes_in_transaction \in 0..MaxBytes
  /\ ring \in Seq(Token) /\ Len(ring) < RingSize
  /\ {accepted, painting, nvic, spe, txe, refused} \subseteq BOOLEAN
  /\ todo \in Nat
  /\ dr \in Token
  /\ shift \in Seq(Token) /\ Len(shift) <= 1
  /\ frame \in Seq(Token) /\ landed \in Seq(Token)
  /\ landedAt \in 0..FifoSize-1 /\ chipWr \in 0..FifoSize-1
  /\ chipRd \in 0..FifoSize-1

Quiet == ~nvic /\ ~spe /\ txe /\ shift = <<>> /\ frame = <<>>

(* A blocking register read shares the SPI with the interrupt handler and  *)
(* has no protection of its own: when prepare reads REG_CMD_WRITE, and     *)
(* whenever isSending() answers false between two lists (the engine then   *)
(* reads REG_INT_FLAGS, the tasks REG_TOUCH_TAG), the handler is off and   *)
(* no byte of an earlier frame is left in the peripheral.                  *)
BlockingReadAlone ==
  /\ pc = "read" => Quiet
  /\ pc = "idle" /\ ~painting /\ status = "ReadyToSend" => Quiet /\ ring = <<>>

(* Everything sent or waiting to be sent in the current frame. *)
Stream == frame \o shift \o (IF txe THEN <<>> ELSE <<dr>>) \o ring

CmdFrame == [i \in 1..3 |-> Tok("cmdAddr", reg_cmd_write_val)]
            \o Data(1, MaxBytes)
RegFrame == [i \in 1..3 |-> Tok("regAddr", 0)]
            \o [i \in 1..WordLen |-> Tok("val", chip_fifo_write)]

(* However the handler and the appends interleave, what is on the wire and *)
(* behind it is the beginning of one well-formed frame: the address, then  *)
(* the list's bytes in order with none missing or sent twice (unless the   *)
(* ring refused some), or the register frame, and never a mix of the two.  *)
OneFrame ==
  /\ ~refused => IsPrefix(Stream, CmdFrame) \/ IsPrefix(Stream, RegFrame)
  /\ \E i \in 0..Len(Stream) :
        \A j \in 1..Len(Stream) :
           (j <= i) = (Stream[j].kind \in {"cmdAddr", "regAddr"})

(* Also when the ring is full and words, strings or their padding are      *)
(* refused, what is left of the list stays in its order: no byte of it is  *)
(* sent twice or before an earlier one, and none comes from another list.  *)
Ordered(s) == \A i, j \in DOMAIN s :
                i < j /\ {s[i].kind, s[j].kind} = {"data"} => s[i].n < s[j].n
OrderKept == /\ Ordered(Stream)
             /\ Ordered(landed)
             /\ \A i \in DOMAIN landed : landed[i].kind = "data"

(* When the chip is told to execute up to a new REG_CMD_WRITE, the list is *)
(* in its FIFO: at the place execution continues from, every byte of it in *)
(* order, and exactly as many as the pointer moved (unless the ring        *)
(* refused some).                                                          *)
ListWhole ==
  chipRd # chipWr /\ ~refused =>
    /\ landedAt = chipRd
    /\ landed = Data(1, bytes_in_transaction)
    /\ (chipRd + bytes_in_transaction) % FifoSize = chipWr

(* A list that is begun is eventually handed over to the chip: no          *)
(* interleaving of the handler with flush or check leaves the interrupt    *)
(* disabled with bytes, or the closing, still to come.                     *)
Delivered == painting ~> (chipRd # chipWr)

(* The transmit path keeps the promise of CmdTransfer: a list opened by    *)
(* prepare is closed only by flush, however often the handler drains the   *)
(* ring before; it is handed over once; and the chip's pointer moves by    *)
(* the bytes counted into this list, not into an earlier one.              *)
Transfer == INSTANCE CmdTransfer WITH
              open  <- pc \notin {"resetNvic", "resetSpe", "resetStatus"}
                       /\ painting /\ cmd_buffer_status = "AppendStarted",
              bytes <- bytes_in_transaction
ImplementsTransfer == Transfer!Spec
=============================================================================
