---------------------------- MODULE BlockingApi ----------------------------
(***************************************************************************)
(* The blocking way to the chip: ft801_api_cmd.c builds a command list in  *)
(* a buffer of the client's and flushes it into the chip's command FIFO    *)
(* when that is empty; ft801_api_dl.c does the same for the display list   *)
(* memory.  There is one client and nothing else uses the SPI, so a call   *)
(* is a step, but for the flush of a command list: it polls the chip, and  *)
(* each of its transfers is a step.                                        *)
(*                                                                         *)
(* Everything appended is padded to words of four bytes.  Pointers and     *)
(* offsets count bytes; the contents of the list and of the FIFO are its   *)
(* words, and these are numbered in the order in which they are handed     *)
(* over, so that a word is told from the ones around and before it.        *)
(***************************************************************************)
EXTENDS Integers, Sequences

CONSTANTS BuffSizes,  \* sizes of the client's command buffers, in bytes
          DlSizes,    \* sizes of its display list buffers, in words
          StrLens,    \* lengths of its strings, with the final 0
          FifoSize,   \* FT_CMDFIFO_SIZE
          UInt,       \* 2^32: pointer differences are unsigned words
          Stamps      \* how many numbers there are for words

(* Strings are in memory; the largest buffer in main.c has 60 words, and   *)
(* the FIFO 1024: a list that filled it would look executed.               *)
ASSUME SizeAssumption ==
  /\ FifoSize \in Nat \ {0} /\ FifoSize % 4 = 0
  /\ UInt \in Nat /\ UInt % 4 = 0 /\ FifoSize <= UInt
  /\ Stamps \in Nat /\ 4 * Stamps > FifoSize
  /\ \A n \in BuffSizes : n \in Nat /\ n >= 3 /\ n - 3 < FifoSize
  /\ StrLens \subseteq 1..UInt-4
  /\ DlSizes \subseteq Nat \ {0}

VARIABLES
  m_buffSize,  \* of the command buffer; 0 before the first prepare
  m_pNextPtr,  \* where the next byte goes, from the start of the buffer
  list,        \* the words in it, behind the address
  pc,          \* place in flush
  cmd_rd_reg, cmd_wr_reg,      \* flush's locals
  result,      \* what the last call returned
  fifo, rd, wr,\* the chip: command FIFO, REG_CMD_READ, REG_CMD_WRITE
  pending,     \* history: the words handed over and not executed yet
  stamp,       \* history: the number of the first word of list
  dlSize, dlNext               \* the display list descriptor

cmd   == <<m_buffSize, m_pNextPtr, list>>
flush == <<pc, cmd_rd_reg, cmd_wr_reg>>
chip  == <<fifo, rd, wr, pending, stamp>>
dl    == <<dlSize, dlNext>>
vars  == <<cmd, flush, chip, result, dl>>

U(n) == n % UInt
Cells == 0..(FifoSize \div 4)-1
Numbers(n) == [i \in 1..n |-> (stamp + Len(list) + i - 1) % Stamps]

Init == /\ m_buffSize = 0 /\ m_pNextPtr = 0 /\ list = <<>> /\ stamp = 0
        /\ pc = "idle" /\ cmd_rd_reg = 0 /\ cmd_wr_reg = 0 /\ result = "done"
        /\ fifo = [i \in Cells |-> 0]
        /\ rd = 0 /\ wr = 0 /\ pending = <<>>
        /\ dlSize = 0 /\ dlNext = 0

-----------------------------------------------------------------------------
(* Space in the buffer, the three bytes of the address left out.  Before   *)
(* the first prepare m_pNextPtr is NULL like m_pBuff: the differences wrap *)
(* and every append is refused.                                            *)
used_space    == U(m_pNextPtr - 3)
buff_cmd_size == U(m_buffSize - 3)
Padded(n)     == IF n % 4 > 0 THEN n + 4 - (n % 4) ELSE n

(* A prepare without a size keeps the buffer. *)
prepare(size) ==
  /\ pc = "idle"
  /\ size > 0 \/ m_buffSize > 0
  /\ m_buffSize' = IF size > 0 THEN size ELSE m_buffSize
  /\ m_pNextPtr' = 3
  /\ list' = <<>>
  /\ UNCHANGED <<flush, chip, result, dl>>

(* n bytes go into the buffer, or into what a word or string leaves of it. *)
Put(n) == /\ list' = list \o Numbers(n \div 4)
          /\ m_pNextPtr' = m_pNextPtr + n

Answer(n, room) ==
  /\ pc = "idle"
  /\ IF room THEN Put(n) /\ result' = "done"
             ELSE UNCHANGED <<list, m_pNextPtr>> /\ result' = "no place"
  /\ UNCHANGED <<m_buffSize, flush, chip, dl>>

(* Places for words. *)
words_left == IF used_space \div 4 < buff_cmd_size \div 4
              THEN buff_cmd_size \div 4 - used_space \div 4 ELSE 0

append == Answer(4, words_left > 0)

(* Faulty: the string is measured without its padding. *)
StrFitsUnpadded(len, used) == len <= buff_cmd_size /\ len <= U(buff_cmd_size - used)

(* Is there room for a string behind the first used bytes? *)
StrFits(len, used) == /\ Padded(len) <= buff_cmd_size
                      /\ Padded(len) <= U(buff_cmd_size - used)

append_str(len) == Answer(Padded(len), StrFits(len, used_space))

(* A widget: n words and, for some of them, a string.  Nothing looks at    *)
(* the results, so that a widget that meets the end of the buffer is cut.  *)
widget(n, len) ==
  LET words == IF n < words_left THEN n ELSE words_left
      str   == IF len > 0 /\ StrFits(len, U(used_space + 4 * words))
               THEN Padded(len) ELSE 0
  IN  /\ pc = "idle"
      /\ Put(4 * words + str)
      /\ UNCHANGED <<m_buffSize, flush, chip, result, dl>>

-----------------------------------------------------------------------------
(* Flush.  A prepared buffer is never found empty: m_pNextPtr is 3 then.   *)
flush_call ==
  /\ pc = "idle"
  /\ IF m_buffSize = 0 THEN result' = "no buffer" /\ UNCHANGED pc
     ELSE IF m_pNextPtr = 0 THEN result' = "empty" /\ UNCHANGED pc
     ELSE pc' = "read" /\ UNCHANGED result
  /\ UNCHANGED <<cmd, cmd_rd_reg, cmd_wr_reg, chip, dl>>

flush_read ==
  /\ pc = "read"
  /\ cmd_rd_reg' = rd
  /\ pc' = "write"
  /\ UNCHANGED <<cmd, cmd_wr_reg, chip, result, dl>>

(* Faulty: the registers are compared once and for all. *)
flush_writeStuck ==
  /\ pc = "write"
  /\ cmd_wr_reg' = wr
  /\ pc' = IF wr = cmd_rd_reg THEN "send" ELSE "write"
  /\ UNCHANGED <<cmd, cmd_rd_reg, chip, result, dl>>

flush_write ==
  /\ pc = "write"
  /\ cmd_wr_reg' = wr
  /\ pc' = IF wr = cmd_rd_reg THEN "send" ELSE "read"
  /\ UNCHANGED <<cmd, cmd_rd_reg, chip, result, dl>>

(* Faulty: the list goes to the start of the FIFO. *)
flush_sendAtStart ==
  /\ pc = "send"
  /\ fifo' = [i \in Cells |->
                IF i < Len(list) THEN list[i + 1] ELSE fifo[i]]
  /\ pc' = "tell"
  /\ UNCHANGED <<cmd, cmd_rd_reg, cmd_wr_reg, rd, wr, pending, stamp, result, dl>>

(* spi_write_stream: the chip stores the words from cmd_wr_reg on, around  *)
(* the end of the FIFO.                                                    *)
flush_send ==
  /\ pc = "send"
  /\ fifo' = [i \in Cells |->
                LET k == (i - cmd_wr_reg \div 4) % (FifoSize \div 4)
                IN  IF k < Len(list) THEN list[k + 1] ELSE fifo[i]]
  /\ pc' = "tell"
  /\ UNCHANGED <<cmd, cmd_rd_reg, cmd_wr_reg, rd, wr, pending, stamp, result, dl>>

(* Faulty: the write offset runs past the end of the FIFO. *)
flush_tellNoWrap ==
  /\ pc = "tell"
  /\ wr' = cmd_wr_reg + (m_pNextPtr - 3)
  /\ pending' = pending \o list
  /\ stamp' = (stamp + Len(list)) % Stamps
  /\ m_pNextPtr' = 3 /\ list' = <<>>
  /\ result' = "done"
  /\ pc' = "idle"
  /\ UNCHANGED <<m_buffSize, cmd_rd_reg, cmd_wr_reg, fifo, rd, dl>>

(* The new value of REG_CMD_WRITE hands the list over. *)
flush_tell ==
  /\ pc = "tell"
  /\ wr' = (cmd_wr_reg + (m_pNextPtr - 3)) % FifoSize
  /\ pending' = pending \o list
  /\ stamp' = (stamp + Len(list)) % Stamps
  /\ m_pNextPtr' = 3 /\ list' = <<>>
  /\ result' = "done"
  /\ pc' = "idle"
  /\ UNCHANGED <<m_buffSize, cmd_rd_reg, cmd_wr_reg, fifo, rd, dl>>

(* The chip executes the next command word. *)
Execute ==
  /\ rd # wr
  /\ rd' = (rd + 4) % FifoSize
  /\ pending' = Tail(pending)
  /\ UNCHANGED <<cmd, flush, fifo, wr, stamp, result, dl>>

-----------------------------------------------------------------------------
(* The display list: sizes and places in words. *)
dl_prepare(size) ==
  /\ pc = "idle"
  /\ dlSize' = IF size > 0 THEN size ELSE dlSize
  /\ dlNext' = 0
  /\ UNCHANGED <<cmd, flush, chip, result>>

dl_append ==
  /\ pc = "idle" /\ dlSize > 0
  /\ IF dlNext > dlSize THEN result' = "no place" /\ UNCHANGED dlNext
                        ELSE result' = "done" /\ dlNext' = dlNext + 1
  /\ UNCHANGED <<cmd, flush, chip, dlSize>>

(* The list is sent and swapped in; the descriptor stays as it is. *)
dl_flush ==
  /\ pc = "idle"
  /\ result' = IF dlSize = 0 THEN "no buffer"
               ELSE IF dlNext = 0 THEN "empty" ELSE "done"
  /\ UNCHANGED <<cmd, flush, chip, dl>>

Next == \/ \E size \in BuffSizes \cup {0} : prepare(size)
        \/ append
        \/ \E len \in StrLens : append_str(len)
        \/ \E n \in 2..4, len \in StrLens \cup {0} : widget(n, len)
        \/ flush_call \/ flush_read \/ flush_write \/ flush_send \/ flush_tell
        \/ Execute
        \/ \E size \in DlSizes \cup {0} : dl_prepare(size)
        \/ dl_append
        \/ dl_flush

(* A call that was made runs to its end, and the chip executes. *)
Fairness == /\ WF_vars(flush_read) /\ WF_vars(flush_write)
            /\ WF_vars(flush_send) /\ WF_vars(flush_tell)
            /\ WF_vars(Execute)

Spec == Init /\ [][Next]_vars /\ Fairness

-----------------------------------------------------------------------------
(* The variables keep their types; the registers stay inside the FIFO. *)
TypeOK == /\ m_buffSize \in BuffSizes \cup {0}
          /\ list \in Seq(0..Stamps-1) /\ stamp \in 0..Stamps-1
          /\ pc \in {"idle", "read", "write", "send", "tell"}
          /\ {cmd_rd_reg, cmd_wr_reg, rd, wr} \subseteq 0..FifoSize-1
          /\ fifo \in [Cells -> 0..Stamps-1]
          /\ result \in {"done", "no place", "empty", "no buffer"}
          /\ dlSize \in DlSizes \cup {0}

(* Whatever the size of the buffer and the order of words and strings,     *)
(* every word appended is inside the buffer the client gave.               *)
InBuffer == m_pNextPtr <= m_buffSize

(* What is between the chip's two offsets is what the flushed lists held,  *)
(* in order, none of it overwritten by a later list.                       *)
FlushedWhole == /\ 4 * Len(pending) = (wr - rd) % FifoSize
                /\ \A k \in 1..Len(pending) :
                     fifo[(rd \div 4 + k - 1) % (FifoSize \div 4)] = pending[k]

(* A flush that was begun returns: waiting for the chip is not for ever. *)
FlushReturns == pc = "read" ~> pc = "idle"

(* ft801_api_dl.h:25, "@return false if there is no place in the buffer":  *)
(* a word that was accepted has its place.                                 *)
DlInBuffer == dlNext <= dlSize
=============================================================================
