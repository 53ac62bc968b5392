---------------------------- MODULE ItApiProofs ----------------------------
(***************************************************************************)
(* Proofs about ItApi for every ring buffer with room for the register     *)
(* frame, every FIFO, word and list length and every set of strings: its   *)
(* type invariant, its four safety invariants, and that every step is a    *)
(* step of CmdTransfer or none.                                            *)
(*                                                                         *)
(* The inductive invariant says, for each place of the main thread and     *)
(* each status, who may be at work (PlaceInv, StatusInv), whether the      *)
(* handler and the SPI are on (HandlerInv), which bytes are between the    *)
(* main thread and the chip (StreamInv) and what the chip has got          *)
(* (ChipInv).  Stream is what makes it short: the handler and the SPI move *)
(* bytes along it and leave it as it is.                                   *)
(***************************************************************************)
EXTENDS ItApi, SequenceTheorems, TLAPS

Resetting == {"resetNvic", "resetSpe", "resetStatus"}
Starting  == {"startNvic", "startSpe"}
Appending == {"count", "start", "resume", "pad", "countStr"} \cup Starting
Asking    == {"reg", "regStatus"}
Telling   == {"regFinished", "regNvic", "regSpe"}
PaintPlaces  == Resetting \cup {"read", "addr", "finished"} \cup Appending
Places    == PaintPlaces \cup Asking \cup Telling \cup {"idle", "finishNvic"}

PlaceInv == /\ pc \in Places
            /\ pc \in PaintPlaces => painting
            /\ pc \in Asking \cup Telling \cup {"finishNvic"} => ~painting

(* The bytes of the list that are in Stream but not counted yet. *)
Uncounted == IF pc \in {"count", "pad", "countStr"} THEN todo ELSE 0

CountInv ==
  /\ pc \in {"read", "addr"} => bytes_in_transaction = 0
  /\ pc = "addr" => todo \in 1..3
  /\ pc \in {"count", "countStr"} =>
       todo > 0 /\ bytes_in_transaction + todo <= MaxBytes
  /\ pc = "pad" =>
       todo > 0 /\ bytes_in_transaction + todo + Pad(todo) <= MaxBytes
  /\ pc = "start" => bytes_in_transaction > 0
  /\ pc = "reg" => todo < 3 + WordLen

StatusInv ==
  /\ painting => status \in {"ReadyToSend", "SendingData"} \/ pc = "finished"
  /\ pc \in Resetting \cup {"read", "addr"} => status = "ReadyToSend"
  /\ pc \in Starting \cup {"resume", "pad", "countStr"}
       => status = "SendingData"
  /\ pc \in {"finished", "finishNvic"}
       => status \in {"SendingData", "SentData"}
  /\ pc \in Asking  => status = "SentData"
  /\ pc \in Telling => status = "SendingRegData"
  /\ painting /\ pc # "finished" => cmd_buffer_status = "AppendStarted"
  /\ pc \in {"finished", "finishNvic", "regNvic", "regSpe"}
       => cmd_buffer_status = "AppendFinished"
  /\ status \in {"SendingData", "SentData"} /\ ~painting /\ pc \notin Asking
       => cmd_buffer_status = "AppendFinished"
  /\ pc \in Asking \cup {"regFinished"} => cmd_buffer_status = "AppendStarted"
  /\ status \in {"SendingRegData", "SentRegData"} /\ pc = "idle"
       => cmd_buffer_status = "AppendFinished"

HandlerInv ==
  /\ nvic => status \notin {"ReadyToSend", "SentRegData"}
  /\ spe <=> \/ status = "SendingData" /\ pc \notin Starting
             \/ status = "SendingRegData" /\ pc = "idle"
  /\ ~spe => shift = <<>> /\ frame = <<>>
  /\ status \in {"ReadyToSend", "SentRegData"} => txe

(* n bytes of the address at, of the list that goes there, and of the      *)
(* register frame for val.  Bytes of the list may be missing when it is    *)
(* not whole.                                                              *)
AddrBytes(s, n, at) == /\ Len(s) = n
                       /\ \A i \in 1..n : s[i] = Tok("cmdAddr", at)
ListBytes(s, n, at, whole) ==
  /\ Len(s) >= 3
  /\ \A i \in 1..3 : s[i] = Tok("cmdAddr", at)
  /\ \A i \in 4..Len(s) : s[i].kind = "data" /\ s[i].n \in 1..n
  /\ \A i, j \in 4..Len(s) : i < j => s[i].n < s[j].n
  /\ whole => Len(s) = 3 + n /\ \A i \in 4..Len(s) : s[i] = Tok("data", i - 3)
RegBytes(s, n, val) ==
  /\ Len(s) = n
  /\ \A i \in 1..n : s[i] = IF i <= 3 THEN Tok("regAddr", 0)
                                      ELSE Tok("val", val)

Listing == \/ status = "SendingData"
           \/ /\ status = "ReadyToSend" /\ painting
              /\ pc \in {"idle", "count", "start"}
Register == pc \in Asking \/ status = "SendingRegData"

StreamInv ==
  /\ pc = "addr" => AddrBytes(Stream, 3 - todo, reg_cmd_write_val)
  /\ Listing     => ListBytes(Stream, bytes_in_transaction + Uncounted,
                               reg_cmd_write_val, ~refused)
  /\ Register    => RegBytes(Stream, IF pc = "reg" THEN todo ELSE 3 + WordLen,
                              chip_fifo_write)
  /\ pc # "addr" /\ ~Listing /\ ~Register => Stream = <<>>

Whole == ~refused => /\ landed = Data(1, bytes_in_transaction)
                     /\ landedAt = reg_cmd_write_val
NewWrite == (bytes_in_transaction + reg_cmd_write_val) % FifoSize
Sending == status \in {"SendingData", "SentData", "SendingRegData"}

ChipInv ==
  /\ painting \/ Sending => chipRd = chipWr
  /\ (painting /\ pc \notin Resetting \cup {"read"}) \/ Sending
       => chipWr = reg_cmd_write_val
  /\ Sending /\ ~painting => chip_fifo_write = NewWrite
  /\ status \in {"SentData", "SendingRegData"} => Whole
  /\ chipRd # chipWr
       => Whole /\ chipRd = reg_cmd_write_val /\ chipWr = NewWrite

LandedInv == \A i \in DOMAIN landed :
               /\ landed[i].kind = "data"
               /\ \A j \in DOMAIN landed : i < j => landed[i].n < landed[j].n

IInv == PlaceInv /\ CountInv /\ StatusInv /\ HandlerInv /\ StreamInv /\ ChipInv
        /\ LandedInv
-----------------------------------------------------------------------------
(* Stream as the handler and the SPI see it. *)
InDr == IF txe THEN <<>> ELSE <<dr>>

LEMMA Parts ==
  ASSUME TypeOK
  PROVE  /\ frame \in Seq(Token) /\ shift \in Seq(Token) /\ InDr \in Seq(Token)
         /\ ring \in Seq(Token)
         /\ Stream = ((frame \o shift) \o InDr) \o ring
         /\ Stream \in Seq(Token)
<1>1. frame \in Seq(Token) /\ ring \in Seq(Token)
  BY DEF TypeOK
<1>2. shift \in Seq(Token)
  BY DEF TypeOK
<1>3. InDr \in Seq(Token)
  BY DEF TypeOK, InDr
<1>4. Stream = ((frame \o shift) \o InDr) \o ring
  BY DEF Stream, InDr
<1>5. QED
  BY <1>1, <1>2, <1>3, <1>4, ConcatProperties

(* What is put into the ring comes after everything in front of it. *)
LEMMA StreamPut ==
  ASSUME TypeOK, NEW s \in Seq(Token), ring' = ring \o s,
         UNCHANGED <<frame, shift, txe, dr>>
  PROVE  Stream' = Stream \o s
<1> DEFINE front == (frame \o shift) \o InDr
<1>1. front \in Seq(Token) /\ ring \in Seq(Token)
  BY Parts, ConcatProperties
<1>2. Stream' = front \o (ring \o s)
  BY DEF Stream, InDr
<1>3. Stream = front \o ring
  BY Parts
<1> HIDE DEF front
<1>4. QED
  BY <1>1, <1>2, <1>3, ConcatAssociative

LEMMA StreamSame ==
  ASSUME UNCHANGED <<frame, shift, txe, dr, ring>>
  PROVE  Stream' = Stream
BY DEF Stream

LEMMA StreamTake ==
  ASSUME TypeOK, Take PROVE Stream' = Stream
<1> DEFINE done == frame \o shift
<1>1. done \in Seq(Token) /\ ring \in Seq(Token) /\ ring # <<>>
  BY Parts, ConcatProperties DEF Take, Ring!Get
<1>2. ring = <<Head(ring)>> \o Tail(ring)
  BY <1>1, HeadTailProperties, SMT
<1>3. Head(ring) \in Token /\ Tail(ring) \in Seq(Token)
  BY <1>1, HeadTailProperties
<1>4. Stream = (done \o <<>>) \o ring
  BY DEF Stream, Take
<1>5. Stream' = (done \o <<Head(ring)>>) \o Tail(ring)
  BY DEF Stream, Take, Ring!Get
<1>6. Stream = done \o ring
  BY <1>1, <1>4, ConcatEmptySeq
<1>7. <<Head(ring)>> \in Seq(Token)
  BY <1>3
<1> HIDE DEF done
<1>8. Stream' = done \o (<<Head(ring)>> \o Tail(ring))
  BY <1>1, <1>3, <1>5, <1>7, ConcatAssociative
<1>9. QED
  BY <1>2, <1>6, <1>8

LEMMA StreamLoad ==
  ASSUME TypeOK, Load PROVE Stream' = Stream
<1>1. frame \in Seq(Token) /\ dr \in Token /\ <<dr>> \in Seq(Token)
  BY DEF TypeOK
<1>2. Stream = ((frame \o <<>>) \o <<dr>>) \o ring
  BY DEF Stream, Load, queue
<1>3. Stream' = ((frame \o <<dr>>) \o <<>>) \o ring
  BY DEF Stream, Load, queue
<1>4. (frame \o <<>>) \o <<dr>> = (frame \o <<dr>>) \o <<>>
  BY <1>1, ConcatEmptySeq, ConcatProperties
<1>5. QED
  BY <1>2, <1>3, <1>4

LEMMA StreamShiftOut ==
  ASSUME TypeOK, ShiftOut PROVE Stream' = Stream
<1>1. frame \o shift \in Seq(Token)
  BY Parts, ConcatProperties
<1>2. (frame \o shift) \o <<>> = frame \o shift
  BY <1>1, ConcatEmptySeq
<1>3. QED
  BY <1>2 DEF Stream, ShiftOut, queue

(* A call of an append takes all of the string or nothing, and notes it. *)
LEMMA AppendEffect ==
  ASSUME TypeOK, NEW s \in Seq(Token), RingAppend(s),
         UNCHANGED <<frame, shift, txe>>
  PROVE  \/ /\ Stream' = Stream \o s
            /\ ring' = ring \o s /\ Len(ring) + Len(s) < RingSize
            /\ accepted' = TRUE /\ refused' = refused /\ dr' = dr
         \/ /\ Stream' = Stream
            /\ ring' = ring /\ Len(ring) + Len(s) >= RingSize
            /\ accepted' = FALSE /\ refused' = TRUE /\ dr' = dr
<1>1. Len(ring) \in Nat /\ Len(s) \in Nat /\ RingSize \in Nat
  BY RingAssumption, Parts, LenProperties
<1>2. refused \in BOOLEAN
  BY DEF TypeOK
<1>3. CASE Ring!Put(s)
  <2>1. /\ ring' = ring \o s /\ Len(ring) + Len(s) <= RingSize - 1
        /\ accepted' = TRUE /\ dr' = dr
    BY <1>3 DEF Ring!Put, Ring!Fits
  <2>2. refused' = refused
    BY <1>2, <2>1, Zenon DEF RingAppend
  <2>3. Stream' = Stream \o s
    BY <2>1, StreamPut
  <2>4. QED
    BY <1>1, <2>1, <2>2, <2>3
<1>4. CASE Ring!Refuse(s)
  <2>1. /\ ring' = ring /\ ~(Len(ring) + Len(s) <= RingSize - 1)
        /\ accepted' = FALSE /\ dr' = dr
    BY <1>4 DEF Ring!Refuse, Ring!Fits
  <2>2. refused' = TRUE
    BY <2>1, Zenon DEF RingAppend
  <2>3. Stream' = Stream
    BY <2>1 DEF Stream
  <2>4. Len(ring) + Len(s) >= RingSize
    BY <1>1, <2>1
  <2>5. QED
    BY <2>1, <2>2, <2>3, <2>4, Zenon
<1>5. QED
  BY <1>3, <1>4 DEF RingAppend

(* The ring holds a part of the stream. *)
LEMMA RingInStream == ASSUME TypeOK PROVE Len(ring) <= Len(Stream)
<1> DEFINE front == (frame \o shift) \o InDr
<1>1. front \in Seq(Token) /\ ring \in Seq(Token) /\ Stream = front \o ring
  BY Parts, ConcatProperties
<1> HIDE DEF front
<1>2. QED
  BY <1>1, ConcatProperties, LenProperties
-----------------------------------------------------------------------------
(* The handler closes only a complete frame, when the main thread is done  *)
(* with it.                                                                *)
LEMMA CloseTime ==
  ASSUME TypeOK, IInv, Close
  PROVE  /\ Stream = frame
         /\ pc \in {"idle", "finished", "finishNvic"}
<1>1. Stream = frame
  <2>1. Stream = ((frame \o <<>>) \o <<>>) \o <<>>
    BY DEF Close, Stream
  <2>2. QED
    BY <2>1, Parts, ConcatEmptySeq
<1>2. pc \notin Telling
  <2> SUFFICES ASSUME pc \in Telling PROVE FALSE
    OBVIOUS
  <2>1. Len(Stream) = 3 + WordLen
    BY DEF IInv, StatusInv, StreamInv, Register, RegBytes, Telling
  <2>2. frame = <<>>
    BY DEF IInv, StatusInv, HandlerInv, Telling, Starting
  <2>3. QED
    BY <1>1, <2>1, <2>2, EmptySeq, RingAssumption
<1>3. QED
  BY <1>1, <1>2 DEF Close, IInv, PlaceInv, StatusInv, Places, PaintPlaces,
                    Resetting, Starting, Appending, Asking, Telling

CtlInv == PlaceInv /\ StatusInv /\ HandlerInv

LEMMA CtlStep ==
  ASSUME CtlInv, [Next]_vars,
         Close => pc \in {"idle", "finished", "finishNvic"}
  PROVE  CtlInv'
<1> USE
DEF CtlInv, PlaceInv, StatusInv, HandlerInv, Places, PaintPlaces, Resetting,
    Starting,
        Appending, Asking, Telling, At, mcu, list, queue, main, spi, chip
<1>1. CASE Prepare
  BY <1>1 DEF Prepare, PrepareCall
<1>2. CASE ResetNvic
  BY <1>2 DEF ResetNvic
<1>3. CASE ResetSpe
  BY <1>3 DEF ResetSpe, SpiOff
<1>4. CASE ResetStatus
  BY <1>4 DEF ResetStatus
<1>5. CASE ReadCmdWrite
  BY <1>5 DEF ReadCmdWrite
<1>6. CASE AppendAddr
  BY <1>6 DEF AppendAddr
<1>7. CASE AppendIt
  BY <1>7 DEF AppendIt
<1>8. CASE Count("count", "start")
  BY <1>8 DEF Count
<1>9. CASE StartTx
  BY <1>9 DEF StartTx
<1>10. CASE NvicOn("startNvic", "startSpe")
  BY <1>10 DEF NvicOn
<1>11. CASE SpeOn("startSpe", "resume")
  BY <1>11 DEF SpeOn
<1>12. CASE NvicOn("resume", "idle")
  BY <1>12 DEF NvicOn
<1>13. CASE \E n \in StrLens : AppendStr(n)
  BY <1>13 DEF AppendStr
<1>14. CASE AppendPad
  BY <1>14 DEF AppendPad
<1>15. CASE Count("countStr", "idle")
  BY <1>15 DEF Count
<1>16. CASE Flush
  BY <1>16 DEF Flush
<1>17. CASE StoreFifoWrite
  BY <1>17 DEF StoreFifoWrite
<1>18. CASE NvicOn("finishNvic", "idle")
  BY <1>18 DEF NvicOn
<1>19. CASE CheckSentData
  BY <1>19 DEF CheckSentData
<1>20. CASE AppendReg
  BY <1>20 DEF AppendReg
<1>21. CASE RegStatus
  BY <1>21 DEF RegStatus
<1>22. CASE RegFinished
  BY <1>22 DEF RegFinished
<1>23. CASE NvicOn("regNvic", "regSpe")
  BY <1>23 DEF NvicOn
<1>24. CASE SpeOn("regSpe", "idle")
  BY <1>24 DEF SpeOn
<1>25. CASE CheckSentRegData
  BY <1>25 DEF CheckSentRegData
<1>26. CASE Take
  BY <1>26 DEF Take
<1>27. CASE Close
  BY <1>27 DEF Close, SpiOff
<1>28. CASE Pause
  BY <1>28 DEF Pause
<1>29. CASE Load
  BY <1>29 DEF Load
<1>30. CASE ShiftOut
  BY <1>30 DEF ShiftOut
<1>31. CASE Process
  BY <1>31 DEF Process
<1>32. CASE UNCHANGED vars
  BY <1>32 DEF vars
<1>33. QED
  BY <1>1, <1>2, <1>3, <1>4, <1>5, <1>6, <1>7, <1>8, <1>9, <1>10, <1>11,
     <1>12, <1>13, <1>14, <1>15, <1>16, <1>17, <1>18, <1>19, <1>20, <1>21,
     <1>22, <1>23, <1>24, <1>25, <1>26, <1>27, <1>28, <1>29, <1>30, <1>31,
     <1>32
  DEF Next, Painter, Checker, Handler
-----------------------------------------------------------------------------
LEMMA PadNat == ASSUME NEW n \in Nat PROVE Pad(n) \in Nat
<1>1. n % WordLen \in 0..WordLen-1
  BY RingAssumption
<1>2. QED
  BY <1>1, RingAssumption DEF Pad

(* The bytes that are appended but not counted yet fit the list. *)
LEMMA CountStep ==
  ASSUME TypeOK, CountInv, [Next]_vars PROVE CountInv'
<1> USE RingAssumption, ListAssumption DEF CountInv, At, mcu, list, queue,
        main, spi, chip
<1>0. todo \in Nat /\ bytes_in_transaction \in Nat
  BY DEF TypeOK
<1>1. CASE Prepare
  BY <1>1, <1>0, PadNat DEF Prepare, PrepareCall
<1>2. CASE ResetNvic
  BY <1>2, <1>0, PadNat DEF ResetNvic
<1>3. CASE ResetSpe
  BY <1>3, <1>0, PadNat DEF ResetSpe, SpiOff
<1>4. CASE ResetStatus
  BY <1>4, <1>0, PadNat DEF ResetStatus
<1>5. CASE ReadCmdWrite
  BY <1>5, <1>0, PadNat DEF ReadCmdWrite
<1>6. CASE AppendAddr
  BY <1>6, <1>0, PadNat DEF AppendAddr
<1>7. CASE AppendIt
  BY <1>7, <1>0, PadNat DEF AppendIt
<1>8. CASE Count("count", "start")
  BY <1>8, <1>0, PadNat DEF Count
<1>9. CASE StartTx
  BY <1>9, <1>0, PadNat DEF StartTx
<1>10. CASE NvicOn("startNvic", "startSpe")
  BY <1>10, <1>0, PadNat DEF NvicOn
<1>11. CASE SpeOn("startSpe", "resume")
  BY <1>11, <1>0, PadNat DEF SpeOn
<1>12. CASE NvicOn("resume", "idle")
  BY <1>12, <1>0, PadNat DEF NvicOn
<1>13. CASE \E n \in StrLens : AppendStr(n)
  BY <1>13, <1>0, PadNat DEF AppendStr
<1>14. CASE AppendPad
  BY <1>14, <1>0, PadNat DEF AppendPad
<1>15. CASE Count("countStr", "idle")
  BY <1>15, <1>0, PadNat DEF Count
<1>16. CASE Flush
  BY <1>16, <1>0, PadNat DEF Flush
<1>17. CASE StoreFifoWrite
  BY <1>17, <1>0, PadNat DEF StoreFifoWrite
<1>18. CASE NvicOn("finishNvic", "idle")
  BY <1>18, <1>0, PadNat DEF NvicOn
<1>19. CASE CheckSentData
  BY <1>19, <1>0, PadNat DEF CheckSentData
<1>20. CASE AppendReg
  BY <1>20, <1>0, PadNat DEF AppendReg
<1>21. CASE RegStatus
  BY <1>21, <1>0, PadNat DEF RegStatus
<1>22. CASE RegFinished
  BY <1>22, <1>0, PadNat DEF RegFinished
<1>23. CASE NvicOn("regNvic", "regSpe")
  BY <1>23, <1>0, PadNat DEF NvicOn
<1>24. CASE SpeOn("regSpe", "idle")
  BY <1>24, <1>0, PadNat DEF SpeOn
<1>25. CASE CheckSentRegData
  BY <1>25, <1>0, PadNat DEF CheckSentRegData
<1>26. CASE Take
  BY <1>26, <1>0, PadNat DEF Take
<1>27. CASE Close
  BY <1>27, <1>0, PadNat DEF Close, SpiOff
<1>28. CASE Pause
  BY <1>28, <1>0, PadNat DEF Pause
<1>29. CASE Load
  BY <1>29, <1>0, PadNat DEF Load
<1>30. CASE ShiftOut
  BY <1>30, <1>0, PadNat DEF ShiftOut
<1>31. CASE Process
  BY <1>31, <1>0, PadNat DEF Process
<1>32. CASE UNCHANGED vars
  BY <1>32, <1>0, PadNat DEF vars
<1>33. QED
  BY <1>1, <1>2, <1>3, <1>4, <1>5, <1>6, <1>7, <1>8, <1>9, <1>10, <1>11,
     <1>12, <1>13, <1>14, <1>15, <1>16, <1>17, <1>18, <1>19, <1>20, <1>21,
     <1>22, <1>23, <1>24, <1>25, <1>26, <1>27, <1>28, <1>29, <1>30, <1>31,
     <1>32
  DEF Next, Painter, Checker, Handler
-----------------------------------------------------------------------------
LEMMA TokType == ASSUME NEW i \in 0..FifoSize-1
                 PROVE  \A k \in {"cmdAddr", "data", "regAddr", "val"} :
                           Tok(k, i) \in Token
BY DEF Tok, Token

LEMMA DataType ==
  ASSUME NEW m \in Nat, NEW k \in Nat, m + k <= MaxBytes
  PROVE  /\ Data(m + 1, m + k) \in Seq(Token)
         /\ Len(Data(m + 1, m + k)) = k
         /\ \A i \in 1..k : Data(m + 1, m + k)[i] = Tok("data", m + i)
<1>1. Data(m + 1, m + k) = [i \in 1..k |-> Tok("data", m + i)]
  <2>1. (m + k) + 1 - (m + 1) = k /\ \A i \in 1..k : (m + 1) + i - 1 = m + i
    OBVIOUS
  <2>2. QED
    BY <2>1 DEF Data
<1>2. \A i \in 1..k : Tok("data", m + i) \in Token
  BY TokType, ListAssumption
<1>3. QED
  BY <1>1, <1>2

LEMMA LandType ==
  ASSUME TypeOK, NEW f \in Seq(Token), Land(f)
  PROVE  /\ landed' \in Seq(Token)
         /\ landedAt' \in 0..FifoSize-1 /\ chipWr' \in 0..FifoSize-1
         /\ chipRd' \in 0..FifoSize-1
<1>1. Len(f) \in Nat /\ \A i \in 1..Len(f) : f[i] \in Token
  BY ElementOfSeq, LenProperties
<1>2. CASE f # <<>> /\ f[1].kind = "cmdAddr"
  <2>1. /\ landed' = SubSeq(f, 4, Len(f)) /\ landedAt' = f[1].n
        /\ UNCHANGED <<chipWr, chipRd>>
    BY <1>2 DEF Land
  <2>2. SubSeq(f, 4, Len(f)) \in Seq(Token)
    BY <1>1, SubSeqProperties
  <2>3. f[1].n \in 0..FifoSize-1
    BY <1>1, <1>2, EmptySeq DEF Token
  <2>4. QED
    BY <2>1, <2>2, <2>3 DEF TypeOK
<1>3. CASE ~(f # <<>> /\ f[1].kind = "cmdAddr")
           /\ Len(f) = 3 + WordLen /\ f[1].kind = "regAddr"
  <2>1. chipWr' = f[4].n /\ UNCHANGED <<landed, landedAt, chipRd>>
    BY <1>3 DEF Land
  <2>2. f[4].n \in 0..FifoSize-1
    BY <1>1, <1>3, RingAssumption DEF Token
  <2>3. QED
    BY <2>1, <2>2 DEF TypeOK
<1>4. CASE UNCHANGED chip
  BY <1>4 DEF TypeOK, chip
<1>5. QED
  BY <1>2, <1>3, <1>4 DEF Land

LEMMA SpiOffType ==
  ASSUME TypeOK, SpiOff
  PROVE  /\ spe' \in BOOLEAN /\ shift' = <<>> /\ frame' = <<>>
         /\ landed' \in Seq(Token)
         /\ landedAt' \in 0..FifoSize-1 /\ chipWr' \in 0..FifoSize-1
         /\ chipRd' \in 0..FifoSize-1
<1>1. frame \in Seq(Token) /\ frame \o shift \in Seq(Token)
  BY Parts, ConcatProperties
<1>2. QED
  BY <1>1, LandType DEF SpiOff

(* An append keeps the types of what it changes. *)
LEMMA AppendType ==
  ASSUME TypeOK, NEW s \in Seq(Token), RingAppend(s),
         UNCHANGED <<frame, shift, txe>>
  PROVE  /\ ring' \in Seq(Token) /\ Len(ring') < RingSize
         /\ accepted' \in BOOLEAN /\ refused' \in BOOLEAN /\ dr' \in Token
<1>1. ring \in Seq(Token) /\ Len(ring) < RingSize /\ dr \in Token
      /\ refused \in BOOLEAN
  BY DEF TypeOK
<1>2. ring \o s \in Seq(Token) /\ Len(ring \o s) = Len(ring) + Len(s)
  BY <1>1, ConcatProperties
<1>3. QED
  BY <1>1, <1>2, AppendEffect

LEMMA TypeStep ==
  ASSUME TypeOK, CountInv, StatusInv, [Next]_vars PROVE TypeOK'
<1> USE DEF TypeOK, At, mcu, list, queue, main, spi, chip
<1>1. CASE Prepare
  BY <1>1 DEF Prepare, PrepareCall
<1>2. CASE ResetNvic
  BY <1>2 DEF ResetNvic
<1>3. CASE ResetSpe
  <2>1. SpiOff /\ UNCHANGED <<mcu, list, queue, todo, nvic, txe, dr>>
    BY <1>3 DEF ResetSpe
  <2>2. <<>> \in Seq(Token) /\ Len(<<>>) = 0
    BY EmptySeq
  <2>3. /\ spe' \in BOOLEAN /\ shift' = <<>> /\ frame' = <<>>
        /\ landed' \in Seq(Token)
        /\ landedAt' \in 0..FifoSize-1 /\ chipWr' \in 0..FifoSize-1
        /\ chipRd' \in 0..FifoSize-1
    BY <2>1, SpiOffType, Zenon
  <2>4. QED
    BY <2>1, <2>2, <2>3
<1>4. CASE ResetStatus
  <2>1. <<>> \in Seq(Token) /\ Len(<<>>) < RingSize
    BY EmptySeq, RingAssumption
  <2>2. status' \in Statuses
    BY <1>4 DEF ResetStatus, Statuses
  <2>3. /\ ring' = <<>> /\ bytes_in_transaction' = 0 /\ refused' = FALSE
        /\ UNCHANGED <<cmd_buffer_status, chip_fifo_write, reg_cmd_write_val,
                       painting, accepted, todo, nvic, spi, chip>>
    BY <1>4 DEF ResetStatus
  <2>4. 0 \in 0..MaxBytes
    BY ListAssumption
  <2>5. QED
    BY <2>1, <2>2, <2>3, <2>4
<1>5. CASE ReadCmdWrite
  BY <1>5 DEF ReadCmdWrite
<1>6. CASE AppendAddr
  <2>1. <<Tok("cmdAddr", reg_cmd_write_val)>> \in Seq(Token)
    BY TokType
  <2>2. /\ RingAppend(<<Tok("cmdAddr", reg_cmd_write_val)>>)
        /\ UNCHANGED <<mcu, reg_cmd_write_val, bytes_in_transaction, painting,
               nvic, spe, txe, shift, frame, chip>>
    BY <1>6 DEF AppendAddr
  <2>3. todo' \in Nat
    BY <1>6 DEF AppendAddr, CountInv
  <2>4. QED
    BY <2>1, <2>2, <2>3, AppendType
<1>7. CASE AppendIt
  <2>1. Data(bytes_in_transaction + 1, bytes_in_transaction + WordLen) \in
         Seq(Token)
    <3>1. bytes_in_transaction \in Nat /\ WordLen \in Nat
          /\ bytes_in_transaction + WordLen <= MaxBytes
      BY <1>7, RingAssumption, ListAssumption DEF AppendIt
    <3>2. QED
      BY <3>1, DataType
  <2>2. RingAppend(Data(bytes_in_transaction + 1, bytes_in_transaction +
         WordLen))
        /\ todo' = WordLen
        /\ UNCHANGED <<mcu, reg_cmd_write_val, bytes_in_transaction, painting,
                       nvic, spe, txe, shift, frame, chip>>
    BY <1>7 DEF AppendIt
  <2>3. QED
    BY <2>1, <2>2, AppendType, RingAssumption
<1>8. CASE Count("count", "start")
  BY <1>8, ListAssumption DEF Count, CountInv
<1>9. CASE StartTx
  BY <1>9 DEF StartTx, Statuses
<1>10. CASE NvicOn("startNvic", "startSpe")
  BY <1>10 DEF NvicOn
<1>11. CASE SpeOn("startSpe", "resume")
  BY <1>11 DEF SpeOn
<1>12. CASE NvicOn("resume", "idle")
  BY <1>12 DEF NvicOn
<1>13. CASE \E n \in StrLens : AppendStr(n)
  <2>1. PICK n \in StrLens : AppendStr(n)
    BY <1>13
  <2>2. n \in Nat /\ bytes_in_transaction + n + Pad(n) <= MaxBytes
    BY <2>1, ListAssumption DEF AppendStr
  <2>3. Data(bytes_in_transaction + 1, bytes_in_transaction + n) \in Seq(Token)
    <3>1. bytes_in_transaction \in Nat /\ bytes_in_transaction + n <= MaxBytes
      BY <2>2, PadNat, ListAssumption
    <3>2. QED
      BY <2>2, <3>1, DataType
  <2>4. RingAppend(Data(bytes_in_transaction + 1, bytes_in_transaction + n))
        /\ todo' = n
        /\ UNCHANGED <<mcu, reg_cmd_write_val, bytes_in_transaction, painting,
                       nvic, spe, txe, shift, frame, chip>>
    BY <2>1 DEF AppendStr
  <2>5. QED
    BY <2>2, <2>3, <2>4, AppendType
<1>14. CASE AppendPad
  <2> DEFINE padding == Data(bytes_in_transaction + todo + 1,
                          bytes_in_transaction + todo + Pad(todo))
  <2>1. /\ Pad(todo) \in Nat
        /\ bytes_in_transaction + todo + Pad(todo) <= MaxBytes
    BY <1>14, PadNat DEF AppendPad, CountInv
  <2>2. /\ RingAppend(padding) \/ UNCHANGED <<queue, refused, dr>>
        /\ todo' = todo + Pad(todo)
        /\ UNCHANGED <<mcu, reg_cmd_write_val, bytes_in_transaction, painting,
                       nvic, spe, txe, shift, frame, chip>>
    BY <1>14 DEF AppendPad
  <2>3. padding \in Seq(Token)
    <3>1. bytes_in_transaction + todo \in Nat
      OBVIOUS
    <3>2. QED
      BY <2>1, <3>1, DataType
  <2> HIDE DEF padding
  <2>4. CASE RingAppend(padding)
    BY <2>1, <2>2, <2>3, <2>4, AppendType
  <2>5. CASE UNCHANGED <<queue, refused, dr>>
    BY <2>1, <2>2, <2>5
  <2>6. QED
    BY <2>2, <2>4, <2>5
<1>15. CASE Count("countStr", "idle")
  BY <1>15, ListAssumption DEF Count, CountInv
<1>16. CASE Flush
  BY <1>16 DEF Flush
<1>17. CASE StoreFifoWrite
  <2>1. chip_fifo_write' \in 0..FifoSize-1
    BY <1>17, ListAssumption DEF StoreFifoWrite
  <2>2. QED
    BY <1>17, <2>1 DEF StoreFifoWrite
<1>18. CASE NvicOn("finishNvic", "idle")
  BY <1>18 DEF NvicOn
<1>19. CASE CheckSentData
  BY <1>19 DEF CheckSentData
<1>20. CASE AppendReg
  <2> DEFINE byte == IF todo < 3 THEN Tok("regAddr", 0)
                                 ELSE Tok("val", chip_fifo_write)
  <2>1. <<byte>> \in Seq(Token)
    BY TokType, ListAssumption
  <2>2. /\ RingAppend(<<byte>>)
        /\ todo' = todo + 1
        /\ UNCHANGED <<mcu, reg_cmd_write_val, bytes_in_transaction, painting,
                       nvic, spe, txe, shift, frame, chip>>
    BY <1>20 DEF AppendReg
  <2> HIDE DEF byte
  <2>3. /\ ring' \in Seq(Token) /\ Len(ring') < RingSize
        /\ accepted' \in BOOLEAN /\ refused' \in BOOLEAN /\ dr' \in Token
    BY <2>1, <2>2, AppendType, Zenon
  <2>4. QED
    BY <2>2, <2>3
<1>21. CASE RegStatus
  BY <1>21 DEF RegStatus, Statuses
<1>22. CASE RegFinished
  BY <1>22 DEF RegFinished
<1>23. CASE NvicOn("regNvic", "regSpe")
  BY <1>23 DEF NvicOn
<1>24. CASE SpeOn("regSpe", "idle")
  BY <1>24 DEF SpeOn
<1>25. CASE CheckSentRegData
  BY <1>25 DEF CheckSentRegData, Statuses
<1>26. CASE Take
  <2>1. ring \in Seq(Token) /\ ring # <<>> /\ Len(ring) \in Nat
    BY <1>26, LenProperties DEF Take, Ring!Get
  <2>2. /\ Head(ring) \in Token /\ Tail(ring) \in Seq(Token)
        /\ Len(Tail(ring)) = Len(ring) - 1
    BY <2>1, HeadTailProperties
  <2>3. /\ dr' = Head(ring) /\ ring' = Tail(ring) /\ txe' = FALSE
        /\ UNCHANGED <<mcu, list, main, nvic, spe, shift, frame, chip,
               accepted>>
    BY <1>26 DEF Take, Ring!Get
  <2>4. dr' \in Token /\ ring' \in Seq(Token) /\ Len(ring') < RingSize
    BY <2>1, <2>2, <2>3, RingAssumption
  <2>5. QED
    BY <2>3, <2>4
<1>27. CASE Close
  <2>1. status' \in Statuses
    BY <1>27 DEF Close, Statuses
  <2>2. /\ nvic' = FALSE
        /\ UNCHANGED <<cmd_buffer_status, chip_fifo_write, list, queue, main,
                       txe, dr>>
    BY <1>27 DEF Close
  <2>3. QED
    BY <1>27, <2>1, <2>2, SpiOffType, EmptySeq DEF Close
<1>28. CASE Pause
  BY <1>28 DEF Pause
<1>29. CASE Load
  <2>1. <<dr>> \in Seq(Token) /\ Len(<<dr>>) = 1
    OBVIOUS
  <2>2. QED
    BY <1>29, <2>1 DEF Load
<1>30. CASE ShiftOut
  <2>1. frame \o shift \in Seq(Token)
    BY Parts, ConcatProperties
  <2>2. QED
    BY <1>30, <2>1, EmptySeq DEF ShiftOut
<1>31. CASE Process
  BY <1>31 DEF Process
<1>32. CASE UNCHANGED vars
  BY <1>32 DEF vars
<1>33. QED
  BY <1>1, <1>2, <1>3, <1>4, <1>5, <1>6, <1>7, <1>8, <1>9, <1>10, <1>11,
     <1>12, <1>13, <1>14, <1>15, <1>16, <1>17, <1>18, <1>19, <1>20, <1>21,
     <1>22, <1>23, <1>24, <1>25, <1>26, <1>27, <1>28, <1>29, <1>30, <1>31,
     <1>32
  DEF Next, Painter, Checker, Handler
-----------------------------------------------------------------------------
(* How the frames grow. *)
LEMMA TokFields == \A k, i : Tok(k, i).kind = k /\ Tok(k, i).n = i
BY DEF Tok

LEMMA AddrGrows ==
  ASSUME NEW s \in Seq(Token), NEW n \in Nat, NEW a, AddrBytes(s, n, a),
         Tok("cmdAddr", a) \in Token
  PROVE  AddrBytes(s \o <<Tok("cmdAddr", a)>>, n + 1, a)
<1> DEFINE b == Tok("cmdAddr", a)
<1>1. <<b>> \in Seq(Token) /\ Len(<<b>>) = 1 /\ <<b>>[1] = b
  OBVIOUS
<1>2. /\ Len(s \o <<b>>) = n + 1
      /\ \A i \in 1..n+1 : (s \o <<b>>)[i] = IF i <= n THEN s[i] ELSE <<b>>[i -
             n]
  BY <1>1, ConcatProperties DEF AddrBytes
<1> HIDE DEF b
<1>3. \A i \in 1..n+1 : ~(i <= n) => i - n = 1
  OBVIOUS
<1>4. \A i \in 1..n+1 : (s \o <<b>>)[i] = b
  BY <1>1, <1>2, <1>3 DEF AddrBytes, b
<1>5. QED
  BY <1>2, <1>4 DEF AddrBytes, b

LEMMA RegGrows ==
  ASSUME NEW s \in Seq(Token), NEW n \in Nat, NEW v, NEW b \in Token,
         RegBytes(s, n, v),
         b = IF n < 3 THEN Tok("regAddr", 0) ELSE Tok("val", v)
  PROVE  RegBytes(s \o <<b>>, n + 1, v)
<1>1. <<b>> \in Seq(Token) /\ Len(<<b>>) = 1 /\ <<b>>[1] = b
  OBVIOUS
<1>2. /\ Len(s \o <<b>>) = n + 1
      /\ \A i \in 1..n+1 : (s \o <<b>>)[i] = IF i <= n THEN s[i] ELSE <<b>>[i -
             n]
  BY <1>1, ConcatProperties DEF RegBytes
<1>3. \A i \in 1..n+1 : ~(i <= n) => i - n = 1 /\ (n < 3 <=> i <= 3)
  OBVIOUS
<1>4. \A i \in 1..n+1 : (s \o <<b>>)[i] = IF i <= 3 THEN Tok("regAddr", 0)
                                                    ELSE Tok("val", v)
  BY <1>1, <1>2, <1>3 DEF RegBytes
<1>5. QED
  BY <1>2, <1>4 DEF RegBytes

LEMMA ListBegins ==
  ASSUME NEW s \in Seq(Token), NEW a, NEW w, AddrBytes(s, 3, a)
  PROVE  ListBytes(s, 0, a, w)
BY DEF AddrBytes, ListBytes

LEMMA ListGrows ==
  ASSUME NEW s \in Seq(Token), NEW m \in Nat, NEW k \in Nat, m + k <= MaxBytes,
         NEW a, NEW w, ListBytes(s, m, a, w)
  PROVE  ListBytes(s \o Data(m + 1, m + k), m + k, a, w)
<1> DEFINE d == Data(m + 1, m + k)
           t == s \o d
<1>1. /\ d \in Seq(Token) /\ Len(d) = k
      /\ \A i \in 1..k : d[i] = Tok("data", m + i)
  BY DataType
<1>2. Len(s) \in Nat /\ Len(s) >= 3
  BY LenProperties DEF ListBytes
<1> HIDE DEF d
<1>3. /\ Len(t) = Len(s) + k
      /\ \A i \in 1..Len(t) : t[i] = IF i <= Len(s) THEN s[i] ELSE d[i -
             Len(s)]
  BY <1>1, ConcatProperties
<1> HIDE DEF t
<1>4. \A i \in 1..Len(s) : t[i] = s[i]
  BY <1>2, <1>3
<1>5. \A i \in Len(s)+1..Len(t) : t[i] = Tok("data", m + (i - Len(s)))
  BY <1>1, <1>2, <1>3
<1>6. \A i \in 4..Len(t) : t[i].kind = "data" /\ t[i].n \in 1..m+k
  <2> SUFFICES ASSUME NEW i \in 4..Len(t)
               PROVE  t[i].kind = "data" /\ t[i].n \in 1..m+k
    OBVIOUS
  <2>1. CASE i <= Len(s)
    BY <1>2, <1>4, <2>1 DEF ListBytes
  <2>2. CASE i > Len(s)
    <3>1. t[i] = Tok("data", m + (i - Len(s)))
      BY <1>2, <1>5, <2>2
    <3>2. m + (i - Len(s)) \in 1..m+k
      BY <1>2, <1>3, <2>2
    <3>3. QED
      BY <3>1, <3>2, TokFields
  <2>3. QED
    BY <1>2, <1>3, <2>1, <2>2
<1>7. \A i, j \in 4..Len(t) : i < j => t[i].n < t[j].n
  <2> SUFFICES ASSUME NEW i \in 4..Len(t), NEW j \in 4..Len(t), i < j
               PROVE  t[i].n < t[j].n
    OBVIOUS
  <2>1. CASE j <= Len(s)
    <3>1. i \in 4..Len(s) /\ j \in 4..Len(s)
      BY <1>2, <2>1
    <3>2. t[i] = s[i] /\ t[j] = s[j]
      BY <1>2, <1>4, <3>1
    <3>3. QED
      BY <3>1, <3>2 DEF ListBytes
  <2>2. CASE j > Len(s)
    <3>1. t[j].n = m + (j - Len(s))
      BY <1>2, <1>5, <2>2, TokFields
    <3>2. CASE i <= Len(s)
      <4>1. t[i].n \in 1..m
        BY <1>2, <1>4, <3>2 DEF ListBytes
      <4>2. QED
        BY <1>2, <2>2, <3>1, <4>1
    <3>3. CASE i > Len(s)
      <4>1. t[i].n = m + (i - Len(s))
        BY <1>2, <1>5, <3>3, TokFields
      <4>2. QED
        BY <1>2, <3>1, <4>1
    <3>4. QED
      BY <1>2, <3>2, <3>3
  <2>3. QED
    BY <1>2, <1>3, <2>1, <2>2
<1>8. ASSUME w PROVE Len(t) = 3 + (m + k)
                     /\ \A i \in 4..Len(t) : t[i] = Tok("data", i - 3)
  <2>1. Len(s) = 3 + m /\ \A i \in 4..Len(s) : s[i] = Tok("data", i - 3)
    BY <1>8 DEF ListBytes
  <2>2. \A i \in Len(s)+1..Len(t) : m + (i - Len(s)) = i - 3
    BY <1>3, <2>1
  <2>3. QED
    BY <1>2, <1>3, <1>4, <1>5, <2>1, <2>2
<1>9. QED
  <2>1. Len(t) >= 3 /\ \A i \in 1..3 : t[i] = Tok("cmdAddr", a)
    BY <1>2, <1>3, <1>4 DEF ListBytes
  <2>2. ListBytes(t, m + k, a, w)
    BY <1>6, <1>7, <1>8, <2>1 DEF ListBytes
  <2>3. QED
    BY <2>2 DEF t, d

LEMMA ListLoses ==
  ASSUME NEW s \in Seq(Token), NEW m \in Nat, NEW k \in Nat, NEW a, NEW w,
         ListBytes(s, m, a, w)
  PROVE  ListBytes(s, m + k, a, FALSE)
<1>1. 1..m \subseteq 1..m+k
  OBVIOUS
<1>2. QED
  BY <1>1 DEF ListBytes

(* What lands when a frame with a list ends. *)
LEMMA ListLands ==
  ASSUME NEW f \in Seq(Token), NEW n \in Nat, n <= MaxBytes, NEW a, NEW w,
         ListBytes(f, n, a, w), NEW g, g = SubSeq(f, 4, Len(f))
  PROVE  /\ w => g = Data(1, n)
         /\ \A i \in DOMAIN g : /\ g[i].kind = "data"
                                /\ \A j \in DOMAIN g : i < j => g[i].n < g[j].n
<1>1. Len(f) \in Nat /\ Len(f) >= 3 /\ \A i \in 4..Len(f) : f[i] \in Token
  BY LenProperties, ElementOfSeq DEF ListBytes
<1>2. /\ g \in Seq(Token) /\ Len(g) = Len(f) - 3
      /\ \A i \in 1..Len(f)-3 : g[i] = f[i + 3]
  <2>1. /\ g \in Seq(Token)
        /\ Len(g) = IF 4 <= Len(f) THEN Len(f) - 4 + 1 ELSE 0
        /\ \A i \in 1..Len(f)-4+1 : g[i] = f[4+i-1]
    BY <1>1, SubSeqProperties
  <2>2. Len(f) - 4 + 1 = Len(f) - 3 /\ \A i \in 1..Len(f)-3 : 4 + i - 1 = i + 3
    BY <1>1
  <2>3. QED
    BY <1>1, <2>1, <2>2
<1>3. DOMAIN g = 1..Len(f)-3
  BY <1>2, LenProperties
<1>4. ASSUME w PROVE g = Data(1, n)
  <2>1. /\ Data(1, n) \in Seq(Token) /\ Len(Data(1, n)) = n
        /\ \A i \in 1..n : Data(1, n)[i] = Tok("data", i)
    <3>1. Data(0 + 1, 0 + n) = Data(1, n) /\ 0 + n <= MaxBytes
          /\ \A i \in 1..n : 0 + i = i
      OBVIOUS
    <3>2. QED
      BY <3>1, DataType
  <2>2. Len(f) = 3 + n /\ \A i \in 4..Len(f) : f[i] = Tok("data", i - 3)
    BY <1>4 DEF ListBytes
  <2>3. \A i \in 1..n : f[i + 3] = Tok("data", i)
    BY <2>2
  <2>4. Len(g) = n /\ \A i \in 1..n : g[i] = Data(1, n)[i]
    BY <1>2, <2>1, <2>2, <2>3
  <2>5. QED
    BY <1>2, <2>1, <2>4, SeqEqual
<1>5. \A i \in 1..Len(f)-3 : i + 3 \in 4..Len(f)
  BY <1>1
<1>6. ASSUME NEW i \in 1..Len(f)-3, NEW j \in 1..Len(f)-3, i < j
      PROVE  g[i].n < g[j].n
  <2>1. i + 3 < j + 3 /\ i + 3 \in 4..Len(f) /\ j + 3 \in 4..Len(f)
    BY <1>1, <1>5, <1>6
  <2>2. f[i + 3].n < f[j + 3].n
    BY <2>1 DEF ListBytes
  <2>3. QED
    BY <1>2, <2>2
<1>7. \A i \in 1..Len(f)-3 : g[i].kind = "data"
  BY <1>2, <1>5 DEF ListBytes
<1>8. QED
  BY <1>3, <1>4, <1>6, <1>7
-----------------------------------------------------------------------------
LEMMA NoBytes == /\ \A a : AddrBytes(<<>>, 0, a)
                 /\ \A v : RegBytes(<<>>, 0, v)
BY EmptySeq DEF AddrBytes, RegBytes

(* Steps that move no byte. *)
LEMMA StreamQuiet ==
  ASSUME IInv, TypeOK, Stream' = Stream,
         \/ Prepare
         \/ ResetNvic
         \/ ReadCmdWrite
         \/ StartTx
         \/ NvicOn("startNvic", "startSpe")
         \/ SpeOn("startSpe", "resume")
         \/ NvicOn("resume", "idle")
         \/ Count("count", "start")
         \/ Count("countStr", "idle")
         \/ Flush
         \/ StoreFifoWrite
         \/ NvicOn("finishNvic", "idle")
         \/ CheckSentData
         \/ RegStatus
         \/ RegFinished
         \/ NvicOn("regNvic", "regSpe")
         \/ SpeOn("regSpe", "idle")
         \/ CheckSentRegData
         \/ Pause
         \/ Process
         \/ UNCHANGED vars
  PROVE  StreamInv'
<1> USE DEF IInv, PlaceInv, StatusInv, StreamInv, Listing, Register, Uncounted,
        Places, PaintPlaces, Resetting, Starting, Appending, Asking, Telling,
               At,
        mcu, list, queue, main, spi, chip
<1>0. bytes_in_transaction \in Nat /\ todo \in Nat
  BY DEF TypeOK
<1>1. CASE Prepare
  BY <1>0, <1>1 DEF Prepare, PrepareCall
<1>2. CASE ResetNvic
  BY <1>0, <1>2 DEF ResetNvic
<1>3. CASE ReadCmdWrite
  BY <1>0, <1>3, NoBytes DEF ReadCmdWrite
<1>4. CASE StartTx
  BY <1>0, <1>4 DEF StartTx
<1>5. CASE NvicOn("startNvic", "startSpe")
  BY <1>0, <1>5 DEF NvicOn
<1>6. CASE SpeOn("startSpe", "resume")
  BY <1>0, <1>6 DEF SpeOn
<1>7. CASE NvicOn("resume", "idle")
  BY <1>0, <1>7 DEF NvicOn
<1>8. CASE Count("count", "start")
  BY <1>0, <1>8 DEF Count
<1>9. CASE Count("countStr", "idle")
  BY <1>0, <1>9 DEF Count
<1>10. CASE Flush
  BY <1>0, <1>10 DEF Flush
<1>11. CASE StoreFifoWrite
  BY <1>0, <1>11 DEF StoreFifoWrite
<1>12. CASE NvicOn("finishNvic", "idle")
  BY <1>0, <1>12 DEF NvicOn
<1>13. CASE CheckSentData
  BY <1>0, <1>13, NoBytes DEF CheckSentData
<1>14. CASE RegStatus
  BY <1>0, <1>14 DEF RegStatus
<1>15. CASE RegFinished
  BY <1>0, <1>15 DEF RegFinished
<1>16. CASE NvicOn("regNvic", "regSpe")
  BY <1>0, <1>16 DEF NvicOn
<1>17. CASE SpeOn("regSpe", "idle")
  BY <1>0, <1>17 DEF SpeOn
<1>18. CASE CheckSentRegData
  BY <1>0, <1>18 DEF CheckSentRegData
<1>19. CASE Pause
  BY <1>0, <1>19 DEF Pause
<1>20. CASE Process
  BY <1>0, <1>20 DEF Process
<1>21. CASE UNCHANGED vars
  BY <1>0, <1>21 DEF vars
<1>22. QED
  BY <1>1, <1>2, <1>3, <1>4, <1>5, <1>6, <1>7, <1>8, <1>9, <1>10, <1>11,
     <1>12, <1>13, <1>14, <1>15, <1>16, <1>17, <1>18, <1>19, <1>20, <1>21

(* The appends: what one of them puts at the end of Stream, or loses. *)
LEMMA StreamAddr ==
  ASSUME TypeOK, IInv, AppendAddr PROVE StreamInv'
<1> DEFINE b == Tok("cmdAddr", reg_cmd_write_val)
<1>1. /\ pc = "addr" /\ todo \in 1..3 /\ status = "ReadyToSend" /\ painting
      /\ AddrBytes(Stream, 3 - todo, reg_cmd_write_val)
  BY DEF AppendAddr, IInv, PlaceInv, CountInv, StatusInv, StreamInv,
         PaintPlaces
<1>2. /\ UNCHANGED <<status, reg_cmd_write_val, bytes_in_transaction, painting,
                     frame, shift, txe>>
      /\ RingAppend(<<b>>) /\ todo' = todo - 1
      /\ pc' = IF todo = 1 THEN "idle" ELSE "addr"
  BY DEF AppendAddr, mcu
<1>3. b \in Token /\ <<b>> \in Seq(Token) /\ Len(<<b>>) = 1
  BY TokType DEF TypeOK
<1>4. Len(ring) + 1 < RingSize
  <2>1. Len(ring) <= Len(Stream) /\ Len(Stream) = 3 - todo /\ Len(ring) \in Nat
    BY <1>1, RingInStream, Parts, LenProperties DEF AddrBytes
  <2>2. QED
    BY <1>1, <2>1, RingAssumption
<1>5. Stream' = Stream \o <<b>>
  <2> DEFINE s == <<b>>
  <2>1. Len(ring) \in Nat /\ RingSize \in Nat /\ Len(s) = 1 /\ s \in Seq(Token)
        /\ RingAppend(s)
    BY <1>2, <1>3, Parts, LenProperties, RingAssumption
  <2> HIDE DEF b, s
  <2>2. UNCHANGED <<frame, shift, txe>>
    BY <1>2
  <2>3. \/ Stream' = Stream \o s
        \/ Len(ring) + Len(s) >= RingSize
    BY <2>1, <2>2, AppendEffect, Zenon
  <2>4. Stream' = Stream \o s
    BY <1>4, <2>1, <2>3
  <2>5. QED
    BY <2>4 DEF s
<1>6. AddrBytes(Stream', 3 - (todo - 1), reg_cmd_write_val)
  <2>1. 3 - todo \in Nat /\ (3 - todo) + 1 = 3 - (todo - 1)
    BY <1>1
  <2>2. QED
    BY <1>1, <1>3, <1>5, <2>1, AddrGrows, Parts
<1>7. CASE todo = 1
  <2>1. ListBytes(Stream', 0, reg_cmd_write_val, ~refused')
    <3>1. AddrBytes(Stream', 3, reg_cmd_write_val)
      BY <1>6, <1>7
    <3>2. Stream' \in Seq(Token)
      BY <1>3, <1>5, Parts, ConcatProperties
    <3>3. QED
      BY <3>1, <3>2, ListBegins
  <2>2. bytes_in_transaction = 0
    BY <1>1 DEF IInv, CountInv
  <2>3. QED
    BY <1>1, <1>2, <1>7, <2>1, <2>2
    DEF StreamInv, Listing, Register, Uncounted, Asking
<1>8. CASE todo # 1
  BY <1>1, <1>2, <1>6, <1>8
  DEF StreamInv, Listing, Register, Uncounted, Asking
<1>9. QED
  BY <1>7, <1>8

LEMMA StreamList ==
  ASSUME TypeOK, NEW k \in Nat, NEW m \in Nat, m + k <= MaxBytes,
         ListBytes(Stream, m, reg_cmd_write_val, ~refused),
         RingAppend(Data(m + 1, m + k)),
         UNCHANGED <<frame, shift, txe, reg_cmd_write_val>>
  PROVE  ListBytes(Stream', m + k, reg_cmd_write_val', ~refused')
<1> DEFINE d == Data(m + 1, m + k)
<1>1. d \in Seq(Token)
  BY DataType
<1>2. \/ Stream' = Stream \o d /\ refused' = refused
      \/ Stream' = Stream /\ refused' = TRUE
  <2> HIDE DEF d
  <2>1. RingAppend(d)
    BY DEF d
  <2>2. QED
    BY <1>1, <2>1, AppendEffect
<1>3. CASE Stream' = Stream \o d /\ refused' = refused
  BY <1>3, ListGrows, Parts
<1>4. CASE Stream' = Stream /\ refused' = TRUE
  <2>1. ListBytes(Stream, m + k, reg_cmd_write_val, FALSE)
    BY ListLoses, Parts
  <2>2. QED
    BY <1>4, <2>1
<1>5. QED
  BY <1>2, <1>3, <1>4

LEMMA StreamReg ==
  ASSUME TypeOK, IInv, AppendReg PROVE StreamInv'
<1> DEFINE b == IF todo < 3 THEN Tok("regAddr", 0) ELSE Tok("val",
       chip_fifo_write)
<1>1. /\ pc = "reg" /\ todo < 3 + WordLen /\ status = "SentData" /\ ~painting
      /\ RegBytes(Stream, todo, chip_fifo_write) /\ todo \in Nat
  BY DEF AppendReg, IInv, PlaceInv, CountInv, StatusInv, StreamInv, Asking,
         Register, TypeOK
<1>2. /\ UNCHANGED <<status, chip_fifo_write, painting, frame, shift, txe>>
      /\ RingAppend(<<b>>) /\ todo' = todo + 1
      /\ pc' = IF todo + 1 = 3 + WordLen THEN "regStatus" ELSE "reg"
  BY DEF AppendReg, mcu
<1>3. b \in Token
  BY TokType, ListAssumption DEF TypeOK
<1>4. <<b>> \in Seq(Token) /\ Len(<<b>>) = 1
  BY <1>3
<1>5. Len(ring) + 1 < RingSize
  <2>1. Len(ring) <= Len(Stream) /\ Len(Stream) = todo /\ Len(ring) \in Nat
    BY <1>1, RingInStream, Parts, LenProperties DEF RegBytes
  <2>2. QED
    BY <1>1, <2>1, RingAssumption
<1>6. Stream' = Stream \o <<b>>
  <2> DEFINE s == <<b>>
  <2>1. Len(ring) \in Nat /\ RingSize \in Nat /\ Len(s) = 1 /\ s \in Seq(Token)
        /\ RingAppend(s)
    BY <1>2, <1>4, Parts, LenProperties, RingAssumption
  <2> HIDE DEF b, s
  <2>2. UNCHANGED <<frame, shift, txe>>
    BY <1>2
  <2>3. \/ Stream' = Stream \o s
        \/ Len(ring) + Len(s) >= RingSize
    BY <2>1, <2>2, AppendEffect, Zenon
  <2>4. Stream' = Stream \o s
    BY <1>5, <2>1, <2>3
  <2>5. QED
    BY <2>4 DEF s
<1>7. RegBytes(Stream', todo', chip_fifo_write')
  <2> HIDE DEF b
  <2>1. b = IF todo < 3 THEN Tok("regAddr", 0) ELSE Tok("val", chip_fifo_write)
    BY DEF b
  <2>2. RegBytes(Stream \o <<b>>, todo + 1, chip_fifo_write)
    BY <1>1, <1>3, <2>1, RegGrows, Parts
  <2>3. QED
    BY <1>2, <1>6, <2>2
<1>8. QED
  BY <1>1, <1>2, <1>7 DEF StreamInv, Listing, Register, Asking

(* The end of a frame. *)
LEMMA StreamClose ==
  ASSUME TypeOK, IInv, Close PROVE StreamInv' /\ Stream' = <<>>
<1>1. Stream' = <<>>
  <2>1. Stream' = ((<<>> \o <<>>) \o <<>>) \o <<>>
    BY DEF Close, SpiOff, Stream, queue
  <2>2. QED
    BY <2>1, EmptySeq, ConcatEmptySeq
<1>2. status' \notin {"SendingData", "SendingRegData"} /\ pc' = pc
      /\ painting' = painting
  BY DEF Close, main, list
<1>3. nvic /\ cmd_buffer_status = "AppendFinished"
  BY DEF Close
<1>4. status' # "ReadyToSend"
  BY <1>3 DEF Close, IInv, HandlerInv
<1>5. QED
  BY <1>1, <1>2, <1>4, CloseTime DEF StreamInv, Listing, Register, Asking

LEMMA StreamStep ==
  ASSUME TypeOK, IInv, [Next]_vars PROVE StreamInv'
<1>1. CASE Prepare
  <2>1. UNCHANGED <<frame, shift, txe, dr, ring>>
    BY <1>1 DEF Prepare, PrepareCall, At, queue, spi
  <2>2. QED
    BY <1>1, <2>1, StreamSame, StreamQuiet
<1>2. CASE ResetNvic
  <2>1. UNCHANGED <<frame, shift, txe, dr, ring>>
    BY <1>2 DEF ResetNvic, At, queue, spi
  <2>2. QED
    BY <1>2, <2>1, StreamSame, StreamQuiet
<1>3. CASE ResetSpe
  <2>1. status = "ReadyToSend" /\ spe = FALSE
    BY <1>3 DEF ResetSpe, IInv, StatusInv, HandlerInv, Resetting, At
  <2>2. shift = <<>> /\ frame = <<>>
    BY <2>1 DEF IInv, HandlerInv
  <2>3. /\ UNCHANGED <<frame, shift, txe, dr, ring, status, painting>>
        /\ pc = "resetSpe" /\ pc' = "resetStatus"
    BY <1>3, <2>2 DEF ResetSpe, SpiOff, mcu, list, queue, At
  <2>4. Stream' = Stream
    BY <2>3, StreamSame
  <2>5. Stream = <<>>
    BY <2>1, <2>3 DEF IInv, StreamInv, Listing, Register, Asking
  <2>6. QED
    BY <2>1, <2>3, <2>4, <2>5 DEF StreamInv, Listing, Register, Asking
<1>4. CASE ResetStatus
  <2>1. status = "ReadyToSend" /\ spe = FALSE /\ txe
    BY <1>4 DEF ResetStatus, IInv, StatusInv, HandlerInv, Resetting, At
  <2>2. shift = <<>> /\ frame = <<>>
    BY <2>1 DEF IInv, HandlerInv
  <2>3. /\ UNCHANGED <<frame, shift, txe, painting>>
        /\ ring' = <<>> /\ status' = "ReadyToSend" /\ pc' = "read"
    BY <1>4 DEF ResetStatus, spi, At
  <2>4. Stream' = ((<<>> \o <<>>) \o <<>>) \o <<>>
    BY <2>1, <2>2, <2>3 DEF Stream
  <2>5. Stream' = <<>>
    BY <2>4, EmptySeq, ConcatEmptySeq
  <2>6. QED
    BY <2>3, <2>5 DEF StreamInv, Listing, Register, Asking
<1>5. CASE ReadCmdWrite
  <2>1. UNCHANGED <<frame, shift, txe, dr, ring>>
    BY <1>5 DEF ReadCmdWrite, At, queue, spi
  <2>2. QED
    BY <1>5, <2>1, StreamSame, StreamQuiet
<1>6. CASE AppendAddr
  BY <1>6, StreamAddr
<1>7. CASE AppendIt
  <2>1. /\ pc = "idle" /\ painting /\ pc' = "count" /\ todo' = WordLen
        /\ RingAppend(Data(bytes_in_transaction + 1,
                           bytes_in_transaction + WordLen))
        /\ UNCHANGED <<status, reg_cmd_write_val, bytes_in_transaction,
                       painting, frame, shift, txe>>
    BY <1>7 DEF AppendIt, At, mcu
  <2>2. /\ WordLen \in Nat /\ bytes_in_transaction \in Nat
        /\ bytes_in_transaction + WordLen <= MaxBytes
    BY <1>7, RingAssumption DEF TypeOK, AppendIt
  <2>3. Listing /\ Listing' /\ ~Register'
    BY <2>1 DEF IInv, StatusInv, Listing, Register, Asking
  <2>4. ListBytes(Stream, bytes_in_transaction, reg_cmd_write_val, ~refused)
    BY <2>1, <2>2, <2>3 DEF IInv, StreamInv, Uncounted
  <2>5. UNCHANGED <<frame, shift, txe, reg_cmd_write_val>>
    BY <2>1
  <2>6. ListBytes(Stream', bytes_in_transaction + WordLen, reg_cmd_write_val',
                  ~refused')
    BY <2>1, <2>2, <2>4, <2>5, StreamList
  <2>7. QED
    BY <2>1, <2>3, <2>6 DEF StreamInv, Uncounted
<1>8. CASE Count("count", "start")
  <2>1. UNCHANGED <<frame, shift, txe, dr, ring>>
    BY <1>8 DEF Count, At, queue, spi
  <2>2. QED
    BY <1>8, <2>1, StreamSame, StreamQuiet
<1>9. CASE StartTx
  <2>1. UNCHANGED <<frame, shift, txe, dr, ring>>
    BY <1>9 DEF StartTx, At, queue, spi
  <2>2. QED
    BY <1>9, <2>1, StreamSame, StreamQuiet
<1>10. CASE NvicOn("startNvic", "startSpe")
  <2>1. UNCHANGED <<frame, shift, txe, dr, ring>>
    BY <1>10 DEF NvicOn, At, queue, spi
  <2>2. QED
    BY <1>10, <2>1, StreamSame, StreamQuiet
<1>11. CASE SpeOn("startSpe", "resume")
  <2>1. UNCHANGED <<frame, shift, txe, dr, ring>>
    BY <1>11 DEF SpeOn, At, queue, spi
  <2>2. QED
    BY <1>11, <2>1, StreamSame, StreamQuiet
<1>12. CASE NvicOn("resume", "idle")
  <2>1. UNCHANGED <<frame, shift, txe, dr, ring>>
    BY <1>12 DEF NvicOn, At, queue, spi
  <2>2. QED
    BY <1>12, <2>1, StreamSame, StreamQuiet
<1>13. CASE \E n \in StrLens : AppendStr(n)
  <2>0. PICK n \in StrLens : AppendStr(n)
    BY <1>13
  <2>1. /\ pc = "idle" /\ painting /\ pc' = "pad" /\ todo' = n
        /\ RingAppend(Data(bytes_in_transaction + 1, bytes_in_transaction + n))
        /\ UNCHANGED <<status, reg_cmd_write_val, bytes_in_transaction,
                       painting, frame, shift, txe>>
    BY <2>0 DEF AppendStr, At, mcu
  <2>2. /\ n \in Nat /\ bytes_in_transaction \in Nat
        /\ bytes_in_transaction + n <= MaxBytes
    <3>1. n \in Nat /\ bytes_in_transaction \in Nat /\ Pad(n) \in Nat
      BY PadNat, ListAssumption DEF TypeOK
    <3>2. bytes_in_transaction + n + Pad(n) <= MaxBytes
      BY <2>0 DEF AppendStr
    <3>3. QED
      BY <3>1, <3>2, ListAssumption
  <2>3. Listing /\ Listing' /\ ~Register'
    BY <2>0, <2>1 DEF AppendStr, IInv, StatusInv, Listing, Register, Asking
  <2>4. ListBytes(Stream, bytes_in_transaction, reg_cmd_write_val, ~refused)
    BY <2>1, <2>2, <2>3 DEF IInv, StreamInv, Uncounted
  <2>5. UNCHANGED <<frame, shift, txe, reg_cmd_write_val>>
    BY <2>1
  <2>6. ListBytes(Stream', bytes_in_transaction + n, reg_cmd_write_val',
                  ~refused')
    BY <2>1, <2>2, <2>4, <2>5, StreamList
  <2>7. QED
    BY <2>1, <2>3, <2>6 DEF StreamInv, Uncounted
<1>14. CASE AppendPad
  <2> DEFINE counted == bytes_in_transaction + todo
  <2>1. /\ pc = "pad" /\ pc' = "countStr" /\ todo' = todo + Pad(todo)
        /\ \/ RingAppend(Data(counted + 1, counted + Pad(todo)))
           \/ Pad(todo) <= 0 /\ UNCHANGED <<queue, refused, dr>>
        /\ UNCHANGED <<status, reg_cmd_write_val, bytes_in_transaction,
                       painting, frame, shift, txe>>
    <3>1. Pad(todo) \in Nat
      BY PadNat DEF TypeOK
    <3>2. QED
      BY <1>14, <3>1 DEF AppendPad, At, mcu
  <2>2. /\ bytes_in_transaction \in Nat /\ todo \in Nat /\ Pad(todo) \in Nat
        /\ counted \in Nat /\ counted + Pad(todo) <= MaxBytes
    BY <2>1, PadNat DEF TypeOK, IInv, CountInv
  <2>3. Listing /\ Listing' /\ ~Register'
    BY <2>1 DEF IInv, StatusInv, Listing, Register, Asking
  <2>4. ListBytes(Stream, counted, reg_cmd_write_val, ~refused)
    BY <2>1, <2>3 DEF IInv, StreamInv, Uncounted
  <2>5. UNCHANGED <<frame, shift, txe, reg_cmd_write_val>>
    BY <2>1
  <2> HIDE DEF counted
  <2>6. ListBytes(Stream', counted + Pad(todo), reg_cmd_write_val', ~refused')
    <3>1. CASE RingAppend(Data(counted + 1, counted + Pad(todo)))
      BY <2>2, <2>4, <2>5, <3>1, StreamList
    <3>2. CASE Pad(todo) <= 0 /\ UNCHANGED <<queue, refused, dr>>
      <4>1. counted + Pad(todo) = counted
        BY <2>2, <3>2
      <4>2. UNCHANGED <<frame, shift, txe, dr, ring>>
        BY <2>5, <3>2 DEF queue
      <4>3. Stream' = Stream
        BY <4>2, StreamSame
      <4>4. QED
        BY <2>4, <2>5, <3>2, <4>1, <4>3
    <3>3. QED
      BY <2>1, <3>1, <3>2
  <2>7. counted + Pad(todo) = bytes_in_transaction' + todo'
    BY <2>1, <2>2 DEF counted
  <2>8. QED
    BY <2>1, <2>3, <2>6, <2>7 DEF StreamInv, Uncounted
<1>15. CASE Count("countStr", "idle")
  <2>1. UNCHANGED <<frame, shift, txe, dr, ring>>
    BY <1>15 DEF Count, At, queue, spi
  <2>2. QED
    BY <1>15, <2>1, StreamSame, StreamQuiet
<1>16. CASE Flush
  <2>1. UNCHANGED <<frame, shift, txe, dr, ring>>
    BY <1>16 DEF Flush, At, queue, spi
  <2>2. QED
    BY <1>16, <2>1, StreamSame, StreamQuiet
<1>17. CASE StoreFifoWrite
  <2>1. UNCHANGED <<frame, shift, txe, dr, ring>>
    BY <1>17 DEF StoreFifoWrite, At, queue, spi
  <2>2. QED
    BY <1>17, <2>1, StreamSame, StreamQuiet
<1>18. CASE NvicOn("finishNvic", "idle")
  <2>1. UNCHANGED <<frame, shift, txe, dr, ring>>
    BY <1>18 DEF NvicOn, At, queue, spi
  <2>2. QED
    BY <1>18, <2>1, StreamSame, StreamQuiet
<1>19. CASE CheckSentData
  <2>1. UNCHANGED <<frame, shift, txe, dr, ring>>
    BY <1>19 DEF CheckSentData, At, queue, spi
  <2>2. QED
    BY <1>19, <2>1, StreamSame, StreamQuiet
<1>20. CASE AppendReg
  BY <1>20, StreamReg
<1>21. CASE RegStatus
  <2>1. UNCHANGED <<frame, shift, txe, dr, ring>>
    BY <1>21 DEF RegStatus, At, queue, spi
  <2>2. QED
    BY <1>21, <2>1, StreamSame, StreamQuiet
<1>22. CASE RegFinished
  <2>1. UNCHANGED <<frame, shift, txe, dr, ring>>
    BY <1>22 DEF RegFinished, At, queue, spi
  <2>2. QED
    BY <1>22, <2>1, StreamSame, StreamQuiet
<1>23. CASE NvicOn("regNvic", "regSpe")
  <2>1. UNCHANGED <<frame, shift, txe, dr, ring>>
    BY <1>23 DEF NvicOn, At, queue, spi
  <2>2. QED
    BY <1>23, <2>1, StreamSame, StreamQuiet
<1>24. CASE SpeOn("regSpe", "idle")
  <2>1. UNCHANGED <<frame, shift, txe, dr, ring>>
    BY <1>24 DEF SpeOn, At, queue, spi
  <2>2. QED
    BY <1>24, <2>1, StreamSame, StreamQuiet
<1>25. CASE CheckSentRegData
  <2>1. UNCHANGED <<frame, shift, txe, dr, ring>>
    BY <1>25 DEF CheckSentRegData, At, queue, spi
  <2>2. QED
    BY <1>25, <2>1, StreamSame, StreamQuiet
<1>26. CASE Take
  <2>1. Stream' = Stream
    BY <1>26, StreamTake
  <2>2. UNCHANGED <<status, chip_fifo_write, reg_cmd_write_val,
                    bytes_in_transaction, painting, refused, pc, todo>>
    BY <1>26 DEF Take, mcu, list, main
  <2>3. QED
    BY <2>1, <2>2 DEF IInv, StreamInv, Listing, Register, Uncounted
<1>27. CASE Close
  BY <1>27, StreamClose
<1>28. CASE Pause
  <2>1. UNCHANGED <<frame, shift, txe, dr, ring>>
    BY <1>28 DEF Pause, At, queue, spi
  <2>2. QED
    BY <1>28, <2>1, StreamSame, StreamQuiet
<1>29. CASE Load
  <2>1. Stream' = Stream
    BY <1>29, StreamLoad
  <2>2. UNCHANGED <<status, chip_fifo_write, reg_cmd_write_val,
                    bytes_in_transaction, painting, refused, pc, todo>>
    BY <1>29 DEF Load, mcu, list, main
  <2>3. QED
    BY <2>1, <2>2 DEF IInv, StreamInv, Listing, Register, Uncounted
<1>30. CASE ShiftOut
  <2>1. Stream' = Stream
    BY <1>30, StreamShiftOut
  <2>2. UNCHANGED <<status, chip_fifo_write, reg_cmd_write_val,
                    bytes_in_transaction, painting, refused, pc, todo>>
    BY <1>30 DEF ShiftOut, mcu, list, main
  <2>3. QED
    BY <2>1, <2>2 DEF IInv, StreamInv, Listing, Register, Uncounted
<1>31. CASE Process
  <2>1. UNCHANGED <<frame, shift, txe, dr, ring>>
    BY <1>31 DEF Process, At, queue, spi
  <2>2. QED
    BY <1>31, <2>1, StreamSame, StreamQuiet
<1>32. CASE UNCHANGED vars
  <2>1. UNCHANGED <<frame, shift, txe, dr, ring>>
    BY <1>32 DEF vars, At, queue, spi
  <2>2. QED
    BY <1>32, <2>1, StreamSame, StreamQuiet
<1>33. QED
  BY <1>1, <1>2, <1>3, <1>4, <1>5, <1>6, <1>7, <1>8, <1>9, <1>10, <1>11,
     <1>12, <1>13, <1>14, <1>15, <1>16, <1>17, <1>18, <1>19, <1>20, <1>21,
     <1>22, <1>23, <1>24, <1>25, <1>26, <1>27, <1>28, <1>29, <1>30, <1>31,
     <1>32
  DEF Next, Painter, Checker, Handler

-----------------------------------------------------------------------------
(* What the end of a frame leaves in the chip. *)
LEMMA CloseChip ==
  ASSUME TypeOK, IInv, Close
  PROVE  /\ LandedInv'
         /\ status \in {"SendingData", "SentData", "SendingRegData"}
         /\ status = "SendingData" =>
              status' = "SentData" /\ Whole' /\ UNCHANGED <<chipWr, chipRd>>
         /\ status = "SentData" => status' = status /\ UNCHANGED chip
         /\ status = "SendingRegData" =>
              /\ status' = "SentRegData" /\ chipWr' = chip_fifo_write
              /\ UNCHANGED <<landed, landedAt, chipRd>>
<1>1. /\ Stream = frame /\ pc \in {"idle", "finished", "finishNvic"}
      /\ frame \in Seq(Token)
  BY CloseTime, Parts
<1>2. Land(frame)
  <2>1. frame \o shift = frame
    BY <1>1, ConcatEmptySeq DEF Close
  <2>2. QED
    BY <2>1 DEF Close, SpiOff
<1>3. /\ status \in {"SendingData", "SentData", "SendingRegData"}
      /\ status' = CASE status = "SendingData"    -> "SentData"
                     [] status = "SendingRegData" -> "SentRegData"
                     [] OTHER                     -> status
      /\ UNCHANGED <<reg_cmd_write_val, bytes_in_transaction, refused>>
  BY DEF Close, IInv, HandlerInv, TypeOK, Statuses, list
<1>4. CASE status = "SendingData"
  <2>1. ListBytes(frame, bytes_in_transaction, reg_cmd_write_val, ~refused)
    BY <1>1, <1>4 DEF IInv, StreamInv, Listing, Uncounted, TypeOK
  <2>2. Len(frame) >= 3 /\ frame[1] = Tok("cmdAddr", reg_cmd_write_val)
    BY <2>1 DEF ListBytes
  <2>3. frame # <<>> /\ frame[1].kind = "cmdAddr"
        /\ frame[1].n = reg_cmd_write_val
    BY <2>2, EmptySeq, TokFields
  <2>4. /\ landed' = SubSeq(frame, 4, Len(frame))
        /\ landedAt' = reg_cmd_write_val /\ UNCHANGED <<chipWr, chipRd>>
    BY <1>2, <2>3 DEF Land
  <2>5. bytes_in_transaction \in Nat /\ bytes_in_transaction <= MaxBytes
    BY ListAssumption DEF TypeOK
  <2>6. /\ ~refused => landed' = Data(1, bytes_in_transaction)
        /\ LandedInv'
    BY <1>1, <2>1, <2>4, <2>5, ListLands DEF LandedInv
  <2>7. QED
    BY <1>3, <1>4, <2>4, <2>6 DEF Whole
<1>5. CASE status = "SentData"
  <2>1. Stream = <<>>
    BY <1>1, <1>5 DEF IInv, StreamInv, Listing, Register, Asking
  <2>2. UNCHANGED chip
    BY <1>1, <1>2, <2>1, EmptySeq, RingAssumption DEF Land
  <2>3. QED
    BY <1>3, <1>5, <2>2 DEF chip, IInv, LandedInv
<1>6. CASE status = "SendingRegData"
  <2>1. RegBytes(frame, 3 + WordLen, chip_fifo_write)
    BY <1>1, <1>6 DEF IInv, StreamInv, Register
  <2>2. /\ Len(frame) = 3 + WordLen
        /\ frame[1] = Tok("regAddr", 0) /\ frame[4] = Tok("val",
               chip_fifo_write)
    BY <2>1, RingAssumption DEF RegBytes
  <2>3. frame[1].kind = "regAddr" /\ frame[4].n = chip_fifo_write
    BY <2>2, TokFields
  <2>4. chipWr' = chip_fifo_write /\ UNCHANGED <<landed, landedAt, chipRd>>
    BY <1>2, <2>2, <2>3 DEF Land
  <2>5. QED
    BY <1>3, <1>6, <2>4 DEF IInv, LandedInv
<1>7. QED
  BY <1>3, <1>4, <1>5, <1>6

(* A reset by prepare finds nothing under way. *)
LEMMA ResetChip ==
  ASSUME TypeOK, IInv, ResetSpe PROVE UNCHANGED chip
<1>1. status = "ReadyToSend" /\ spe = FALSE
  BY DEF ResetSpe, IInv, StatusInv, HandlerInv, Resetting, At
<1>2. shift = <<>> /\ frame = <<>>
  BY <1>1 DEF IInv, HandlerInv
<1>3. frame \o shift = <<>>
  BY <1>2, ConcatEmptySeq, EmptySeq
<1>4. Land(<<>>)
  BY <1>2, <1>3 DEF ResetSpe, SpiOff
<1>5. QED
  BY <1>4, EmptySeq, RingAssumption DEF Land

LEMMA ChipStep ==
  ASSUME TypeOK, IInv, [Next]_vars PROVE ChipInv' /\ LandedInv'
<1> USE DEF IInv, PlaceInv, StatusInv, ChipInv, LandedInv, Sending, Places,
        PaintPlaces, Resetting, Starting, Appending, Asking, Telling, At, mcu,
        list, queue, main, spi, chip
<1>0. status \in Statuses
  BY DEF TypeOK
<1>1. CASE Prepare
  BY <1>0, <1>1 DEF Prepare, PrepareCall, Whole, NewWrite, Statuses
<1>2. CASE ResetNvic
  BY <1>0, <1>2 DEF ResetNvic, Whole, NewWrite, Statuses
<1>3. CASE ResetSpe
  BY <1>3, ResetChip DEF ResetSpe, SpiOff, Whole, NewWrite
<1>4. CASE ResetStatus
  BY <1>0, <1>4 DEF ResetStatus, Whole, NewWrite, Statuses
<1>5. CASE ReadCmdWrite
  BY <1>0, <1>5 DEF ReadCmdWrite, Whole, NewWrite, Statuses
<1>6. CASE AppendAddr
  BY <1>0, <1>6 DEF AppendAddr, Whole, NewWrite, Statuses
<1>7. CASE AppendIt
  BY <1>0, <1>7 DEF AppendIt, Whole, NewWrite, Statuses
<1>8. CASE Count("count", "start")
  BY <1>0, <1>8 DEF Count, Whole, NewWrite, Statuses
<1>9. CASE StartTx
  BY <1>0, <1>9 DEF StartTx, Whole, NewWrite, Statuses
<1>10. CASE NvicOn("startNvic", "startSpe")
  BY <1>0, <1>10 DEF NvicOn, Whole, NewWrite, Statuses
<1>11. CASE SpeOn("startSpe", "resume")
  BY <1>0, <1>11 DEF SpeOn, Whole, NewWrite, Statuses
<1>12. CASE NvicOn("resume", "idle")
  BY <1>0, <1>12 DEF NvicOn, Whole, NewWrite, Statuses
<1>13. CASE \E n \in StrLens : AppendStr(n)
  BY <1>0, <1>13 DEF AppendStr, Whole, NewWrite, Statuses
<1>14. CASE AppendPad
  BY <1>0, <1>14 DEF AppendPad, Whole, NewWrite, Statuses
<1>15. CASE Count("countStr", "idle")
  BY <1>0, <1>15 DEF Count, Whole, NewWrite, Statuses
<1>16. CASE Flush
  BY <1>0, <1>16 DEF Flush, Whole, NewWrite, Statuses
<1>17. CASE StoreFifoWrite
  BY <1>0, <1>17 DEF StoreFifoWrite, Whole, NewWrite, Statuses
<1>18. CASE NvicOn("finishNvic", "idle")
  BY <1>0, <1>18 DEF NvicOn, Whole, NewWrite, Statuses
<1>19. CASE CheckSentData
  BY <1>0, <1>19 DEF CheckSentData, Whole, NewWrite, Statuses
<1>20. CASE AppendReg
  <2>1. ~refused' => ~refused
    BY <1>20 DEF AppendReg, RingAppend
  <2>2. QED
    BY <1>0, <1>20, <2>1 DEF AppendReg, Whole, NewWrite
<1>21. CASE RegStatus
  BY <1>0, <1>21 DEF RegStatus, Whole, NewWrite, Statuses
<1>22. CASE RegFinished
  BY <1>0, <1>22 DEF RegFinished, Whole, NewWrite, Statuses
<1>23. CASE NvicOn("regNvic", "regSpe")
  BY <1>0, <1>23 DEF NvicOn, Whole, NewWrite, Statuses
<1>24. CASE SpeOn("regSpe", "idle")
  BY <1>0, <1>24 DEF SpeOn, Whole, NewWrite, Statuses
<1>25. CASE CheckSentRegData
  BY <1>0, <1>25 DEF CheckSentRegData, Whole, NewWrite, Statuses
<1>26. CASE Take
  BY <1>0, <1>26 DEF Take, Whole, NewWrite, Statuses
<1>27. CASE Close
  <2>1. /\ UNCHANGED <<chip_fifo_write, reg_cmd_write_val,
         bytes_in_transaction,
                       painting, refused, pc>>
        /\ NewWrite' = NewWrite
    BY <1>27 DEF Close, NewWrite
  <2>2. UNCHANGED <<landed, landedAt>> => (Whole <=> Whole')
    BY <2>1 DEF Whole
  <2>3. QED
    BY <1>27, <2>1, <2>2, CloseTime, CloseChip
<1>28. CASE Pause
  BY <1>0, <1>28 DEF Pause, Whole, NewWrite, Statuses
<1>29. CASE Load
  BY <1>0, <1>29 DEF Load, Whole, NewWrite, Statuses
<1>30. CASE ShiftOut
  BY <1>0, <1>30 DEF ShiftOut, Whole, NewWrite, Statuses
<1>31. CASE Process
  BY <1>0, <1>31 DEF Process, Whole, NewWrite, Statuses
<1>32. CASE UNCHANGED vars
  BY <1>0, <1>32 DEF vars, Whole, NewWrite, Statuses
<1>33. QED
  BY <1>1, <1>2, <1>3, <1>4, <1>5, <1>6, <1>7, <1>8, <1>9, <1>10, <1>11,
     <1>12, <1>13, <1>14, <1>15, <1>16, <1>17, <1>18, <1>19, <1>20, <1>21,
     <1>22, <1>23, <1>24, <1>25, <1>26, <1>27, <1>28, <1>29, <1>30, <1>31,
     <1>32
  DEF Next, Painter, Checker, Handler

-----------------------------------------------------------------------------
LEMMA TypeInit == Init => TypeOK
<1> SUFFICES ASSUME Init PROVE TypeOK
  OBVIOUS
<1>1. {accepted, painting, nvic, spe, txe, refused} \subseteq BOOLEAN
  BY Zenon DEF Init
<1>2. <<>> \in Seq(Token) /\ Len(<<>>) = 0
  BY EmptySeq
<1>3. dr \in Token
  BY TokType, ListAssumption DEF Init
<1>4. QED
  BY <1>1, <1>2, <1>3, RingAssumption, ListAssumption
  DEF Init, TypeOK, Statuses

LEMMA InvInit == Init => IInv
<1> SUFFICES ASSUME Init PROVE IInv
  OBVIOUS
<1>1. Stream = ((<<>> \o <<>>) \o <<>>) \o <<>>
  BY DEF Init, Stream
<1>2. Stream = <<>>
  BY <1>1, EmptySeq, ConcatEmptySeq
<1>3. PlaceInv /\ CountInv /\ StatusInv /\ HandlerInv
  BY DEF Init, PlaceInv, CountInv, StatusInv, HandlerInv, Places, PaintPlaces,
         Resetting, Starting, Appending, Asking, Telling
<1>4. StreamInv /\ ChipInv
  BY <1>2 DEF Init, StreamInv, Listing, Register, Asking, ChipInv, Sending
<1>5. LandedInv
  BY DEF Init, LandedInv
<1>6. QED
  BY <1>3, <1>4, <1>5 DEF IInv

LEMMA InvStep ==
  ASSUME TypeOK, IInv, [Next]_vars PROVE TypeOK' /\ IInv'
<1>1. PlaceInv' /\ StatusInv' /\ HandlerInv'
  BY CtlStep, CloseTime DEF IInv, CtlInv
<1>2. TypeOK' /\ CountInv'
  BY TypeStep, CountStep DEF IInv
<1>3. StreamInv' /\ ChipInv' /\ LandedInv'
  BY StreamStep, ChipStep
<1>4. QED
  BY <1>1, <1>2, <1>3 DEF IInv

(* The inductive invariant: who is at work, which bytes are under way and  *)
(* what the chip has got, for each place of the main thread and status.    *)
THEOREM InvCorrect == Spec => []IInv /\ []TypeOK
<1>1. TypeOK /\ IInv /\ [Next]_vars => TypeOK' /\ IInv'
  BY InvStep
<1>2. QED
  BY TypeInit, InvInit, <1>1, PTL DEF Spec

(* The variables keep their types: counts, offsets and the ring stay in    *)
(* their ranges.                                                           *)
THEOREM TypeCorrect == Spec => []TypeOK
BY InvCorrect, PTL

-----------------------------------------------------------------------------
LEMMA ReadAlone == TypeOK /\ IInv => BlockingReadAlone
<1> SUFFICES ASSUME TypeOK, IInv,
                    pc = "read" \/ (pc = "idle" /\ ~painting
                                    /\ status = "ReadyToSend")
             PROVE  Quiet /\ ring = <<>>
  BY DEF BlockingReadAlone
<1>1. status = "ReadyToSend" /\ ~Listing /\ ~Register /\ pc # "addr"
  BY DEF IInv, PlaceInv, StatusInv, Listing, Register, Asking, PaintPlaces
<1>2. ~nvic /\ ~spe /\ txe /\ shift = <<>> /\ frame = <<>>
  BY <1>1 DEF IInv, HandlerInv, Starting, Telling
<1>3. Stream = <<>>
  BY <1>1 DEF IInv, StreamInv
<1>4. ring = <<>>
  <2>1. Len(ring) <= 0 /\ ring \in Seq(Token)
    BY <1>3, RingInStream, EmptySeq, Parts
  <2>2. QED
    BY <2>1, EmptySeq
<1>5. QED
  BY <1>2, <1>4 DEF Quiet

(* A blocking register read of prepare, the engine or a task finds the     *)
(* handler off and the SPI empty.                                          *)
THEOREM BlockingReadsAlone == Spec => []BlockingReadAlone
<1>1. TypeOK /\ IInv => BlockingReadAlone
  BY ReadAlone
<1>2. QED
  BY InvCorrect, <1>1, PTL

-----------------------------------------------------------------------------
LEMMA PrefixOf ==
  ASSUME NEW s \in Seq(Token), NEW t \in Seq(Token), Len(s) <= Len(t),
         \A i \in 1..Len(s) : s[i] = t[i]
  PROVE  IsPrefix(s, t)
<1>1. Len(s) \in Nat /\ Len(t) \in Nat
  BY LenProperties
<1>2. \A i \in 1..Len(s) : s[i] \in Token /\ t[i] \in Token
  BY <1>1, ElementOfSeq
<1>3. /\ SubSeq(s, 1, Len(s)) \in Seq(Token)
      /\ SubSeq(t, 1, Len(s)) \in Seq(Token)
      /\ Len(SubSeq(s, 1, Len(s))) = Len(s)
      /\ Len(SubSeq(t, 1, Len(s))) = Len(s)
      /\ \A i \in 1..Len(s) : /\ SubSeq(s, 1, Len(s))[i] = s[i]
                              /\ SubSeq(t, 1, Len(s))[i] = t[i]
  BY <1>1, <1>2, SubSeqProperties
<1>4. SubSeq(s, 1, Len(s)) = SubSeq(t, 1, Len(s))
  BY <1>3, SeqEqual
<1>5. QED
  BY <1>4 DEF IsPrefix

LEMMA CmdFrameBytes ==
  ASSUME TypeOK
  PROVE  /\ CmdFrame \in Seq(Token) /\ Len(CmdFrame) = 3 + MaxBytes
         /\ \A i \in 1..3 : CmdFrame[i] = Tok("cmdAddr", reg_cmd_write_val)
         /\ \A i \in 4..3+MaxBytes : CmdFrame[i] = Tok("data", i - 3)
<1> DEFINE h == [i \in 1..3 |-> Tok("cmdAddr", reg_cmd_write_val)]
           d == Data(1, MaxBytes)
<1>1. h \in Seq(Token) /\ Len(h) = 3
      /\ \A i \in 1..3 : h[i] = Tok("cmdAddr", reg_cmd_write_val)
  BY TokType DEF TypeOK
<1>2. /\ d \in Seq(Token) /\ Len(d) = MaxBytes
      /\ \A i \in 1..MaxBytes : d[i] = Tok("data", i)
  <2>1. Data(0 + 1, 0 + MaxBytes) = Data(1, MaxBytes) /\ 0 + MaxBytes <=
         MaxBytes
        /\ \A i \in 1..MaxBytes : 0 + i = i
    BY ListAssumption
  <2>2. QED
    BY <2>1, DataType, ListAssumption
<1>3. CmdFrame = h \o d
  BY DEF CmdFrame
<1> HIDE DEF h, d
<1>4. /\ h \o d \in Seq(Token) /\ Len(h \o d) = 3 + MaxBytes
      /\ \A i \in 1..3+MaxBytes : (h \o d)[i] = IF i <= 3 THEN h[i] ELSE d[i -
             3]
  <2>1. /\ h \o d \in Seq(Token) /\ Len(h \o d) = Len(h) + Len(d)
        /\ \A i \in 1..Len(h)+Len(d) :
              (h \o d)[i] = IF i <= Len(h) THEN h[i] ELSE d[i - Len(h)]
    BY <1>1, <1>2, ConcatProperties
  <2>2. Len(h) = 3 /\ Len(d) = MaxBytes
    BY <1>1, <1>2
  <2>3. QED
    BY <2>1, <2>2
<1>5. \A i \in 4..3+MaxBytes : i - 3 \in 1..MaxBytes /\ ~(i <= 3)
                               /\ i \in 1..3+MaxBytes
  BY ListAssumption
<1>6. \A i \in 1..3 : i \in 1..3+MaxBytes
  BY ListAssumption
<1>7. QED
  BY <1>1, <1>2, <1>3, <1>4, <1>5, <1>6

LEMMA RegFrameBytes ==
  ASSUME TypeOK
  PROVE  /\ RegFrame \in Seq(Token) /\ Len(RegFrame) = 3 + WordLen
         /\ \A i \in 1..3+WordLen :
               RegFrame[i] = IF i <= 3 THEN Tok("regAddr", 0)
                                       ELSE Tok("val", chip_fifo_write)
<1> DEFINE h == [i \in 1..3 |-> Tok("regAddr", 0)]
           d == [i \in 1..WordLen |-> Tok("val", chip_fifo_write)]
<1>1. h \in Seq(Token) /\ Len(h) = 3 /\ \A i \in 1..3 : h[i] = Tok("regAddr",
       0)
  BY TokType, ListAssumption
<1>2. /\ d \in Seq(Token) /\ Len(d) = WordLen
      /\ \A i \in 1..WordLen : d[i] = Tok("val", chip_fifo_write)
  BY TokType, RingAssumption DEF TypeOK
<1>3. RegFrame = h \o d
  BY DEF RegFrame
<1> HIDE DEF h, d
<1>4. /\ h \o d \in Seq(Token) /\ Len(h \o d) = 3 + WordLen
      /\ \A i \in 1..3+WordLen : (h \o d)[i] = IF i <= 3 THEN h[i] ELSE d[i -
             3]
  <2>1. /\ h \o d \in Seq(Token) /\ Len(h \o d) = Len(h) + Len(d)
        /\ \A i \in 1..Len(h)+Len(d) :
              (h \o d)[i] = IF i <= Len(h) THEN h[i] ELSE d[i - Len(h)]
    BY <1>1, <1>2, ConcatProperties
  <2>2. Len(h) = 3 /\ Len(d) = WordLen
    BY <1>1, <1>2
  <2>3. QED
    BY <2>1, <2>2
<1>5. \A i \in 1..3+WordLen : ~(i <= 3) => i - 3 \in 1..WordLen
  BY RingAssumption
<1>6. QED
  BY <1>1, <1>2, <1>3, <1>4, <1>5

(* The four things Stream can be. *)
LEMMA StreamCases ==
  ASSUME TypeOK, IInv
  PROVE  \/ \E n \in 0..3 : AddrBytes(Stream, n, reg_cmd_write_val)
         \/ \E n \in 0..MaxBytes :
               ListBytes(Stream, n, reg_cmd_write_val, ~refused)
         \/ \E n \in 0..3+WordLen : RegBytes(Stream, n, chip_fifo_write)
<1>1. CASE pc = "addr"
  <2>1. 3 - todo \in 0..3
    BY <1>1 DEF IInv, CountInv
  <2>2. QED
    BY <1>1, <2>1 DEF IInv, StreamInv
<1>2. CASE Listing
  <2>1. bytes_in_transaction + Uncounted \in 0..MaxBytes
    <3>1. bytes_in_transaction \in 0..MaxBytes /\ todo \in Nat /\ Pad(todo) \in
           Nat
      BY PadNat DEF TypeOK
    <3>2. QED
      BY <3>1, ListAssumption DEF Uncounted, IInv, CountInv
  <2>2. QED
    BY <1>2, <2>1 DEF IInv, StreamInv
<1>3. CASE Register
  <2>1. (IF pc = "reg" THEN todo ELSE 3 + WordLen) \in 0..3+WordLen
    BY RingAssumption DEF IInv, CountInv, TypeOK
  <2>2. QED
    BY <1>3, <2>1 DEF IInv, StreamInv
<1>4. CASE pc # "addr" /\ ~Listing /\ ~Register
  BY <1>4, NoBytes DEF IInv, StreamInv
<1>5. QED
  BY <1>1, <1>2, <1>3, <1>4

LEMMA FrameWellFormed == ASSUME TypeOK, IInv PROVE OneFrame
<1> DEFINE Split(i) == \A j \in 1..Len(Stream) :
               (j <= i) = (Stream[j].kind \in {"cmdAddr", "regAddr"})
<1>0. Stream \in Seq(Token) /\ Len(Stream) \in Nat
  BY Parts, LenProperties
<1>1. ASSUME NEW n \in 0..3, AddrBytes(Stream, n, reg_cmd_write_val)
      PROVE  IsPrefix(Stream, CmdFrame) /\ \E i \in 0..Len(Stream) : Split(i)
  <2>1. Len(Stream) = n
        /\ \A i \in 1..n : Stream[i] = Tok("cmdAddr", reg_cmd_write_val)
    BY <1>1 DEF AddrBytes
  <2>2. n <= 3 + MaxBytes /\ \A i \in 1..n : i \in 1..3
    BY ListAssumption
  <2>3. IsPrefix(Stream, CmdFrame)
    BY <1>0, <2>1, <2>2, CmdFrameBytes, PrefixOf
  <2>4. Split(n)
    BY <2>1, TokFields
  <2>5. QED
    BY <2>1, <2>3, <2>4
<1>2. ASSUME NEW n \in 0..MaxBytes,
             ListBytes(Stream, n, reg_cmd_write_val, ~refused)
      PROVE  /\ ~refused => IsPrefix(Stream, CmdFrame)
             /\ \E i \in 0..Len(Stream) : Split(i)
  <2>1. /\ Len(Stream) >= 3
        /\ \A i \in 1..3 : Stream[i] = Tok("cmdAddr", reg_cmd_write_val)
        /\ \A i \in 4..Len(Stream) : Stream[i].kind = "data"
    BY <1>2 DEF ListBytes
  <2>2. ASSUME ~refused PROVE IsPrefix(Stream, CmdFrame)
    <3>1. Len(Stream) = 3 + n
          /\ \A i \in 4..Len(Stream) : Stream[i] = Tok("data", i - 3)
      BY <1>2, <2>2 DEF ListBytes
    <3>2. Len(Stream) <= 3 + MaxBytes
          /\ \A i \in 4..Len(Stream) : i \in 4..3+MaxBytes
      BY <3>1, ListAssumption
    <3>3. \A i \in 1..Len(Stream) : i \in 1..3 \/ i \in 4..Len(Stream)
      BY <1>0
    <3>4. \A i \in 1..Len(Stream) : Stream[i] = CmdFrame[i]
      BY <2>1, <3>1, <3>2, <3>3, CmdFrameBytes
    <3>5. QED
      BY <1>0, <3>2, <3>4, CmdFrameBytes, PrefixOf
  <2>3. Split(3)
    <3>1. \A j \in 1..Len(Stream) : IF j <= 3 THEN j \in 1..3
                                              ELSE j \in 4..Len(Stream)
      BY <1>0
    <3>2. QED
      BY <2>1, <3>1, TokFields
  <2>4. 3 \in 0..Len(Stream)
    BY <1>0, <2>1
  <2>5. QED
    BY <2>2, <2>3, <2>4
<1>3. ASSUME NEW n \in 0..3+WordLen, RegBytes(Stream, n, chip_fifo_write)
      PROVE  IsPrefix(Stream, RegFrame) /\ \E i \in 0..Len(Stream) : Split(i)
  <2>1. Len(Stream) = n
        /\ \A i \in 1..n : Stream[i] = IF i <= 3 THEN Tok("regAddr", 0)
                                       ELSE Tok("val", chip_fifo_write)
    BY <1>3 DEF RegBytes
  <2>2. n <= 3 + WordLen /\ \A i \in 1..n : i \in 1..3+WordLen
    BY RingAssumption
  <2>3. IsPrefix(Stream, RegFrame)
    BY <1>0, <2>1, <2>2, RegFrameBytes, PrefixOf
  <2>4. CASE n <= 3
    <3>1. \A j \in 1..n : Stream[j] = Tok("regAddr", 0)
      BY <2>1, <2>4
    <3>2. Split(n)
      BY <2>1, <3>1, TokFields
    <3>3. QED
      BY <2>1, <2>3, <3>2
  <2>5. CASE n > 3
    <3>1. Split(3)
      BY <2>1, TokFields
    <3>2. 3 \in 0..Len(Stream)
      BY <2>1, <2>5
    <3>3. QED
      BY <2>3, <3>1, <3>2
  <2>6. QED
    BY <2>4, <2>5, RingAssumption
<1>4. QED
  BY <1>1, <1>2, <1>3, StreamCases DEF OneFrame

LEMMA InOrder == ASSUME TypeOK, IInv PROVE OrderKept
<1>0. Stream \in Seq(Token) /\ Len(Stream) \in Nat
      /\ DOMAIN Stream = 1..Len(Stream)
  BY Parts, LenProperties
<1>1. Ordered(Stream)
  <2> SUFFICES ASSUME NEW i \in 1..Len(Stream), NEW j \in 1..Len(Stream),
                      i < j, Stream[i].kind = "data", Stream[j].kind = "data"
               PROVE  Stream[i].n < Stream[j].n
    BY <1>0 DEF Ordered
  <2>1. ASSUME NEW n \in 0..3, AddrBytes(Stream, n, reg_cmd_write_val)
        PROVE  FALSE
    BY <2>1, TokFields DEF AddrBytes
  <2>2. ASSUME NEW n \in 0..MaxBytes,
               ListBytes(Stream, n, reg_cmd_write_val, ~refused)
        PROVE  Stream[i].n < Stream[j].n
    <3>1. \A x \in 1..3 : Stream[x].kind # "data"
      BY <2>2, TokFields DEF ListBytes
    <3>2. i \in 4..Len(Stream) /\ j \in 4..Len(Stream)
      BY <1>0, <3>1
    <3>3. QED
      BY <2>2, <3>2 DEF ListBytes
  <2>3. ASSUME NEW n \in 0..3+WordLen, RegBytes(Stream, n, chip_fifo_write)
        PROVE  FALSE
    BY <2>3, TokFields DEF RegBytes
  <2>4. QED
    BY <2>1, <2>2, <2>3, StreamCases
<1>2. Ordered(landed) /\ \A i \in DOMAIN landed : landed[i].kind = "data"
  BY DEF IInv, LandedInv, Ordered
<1>3. QED
  BY <1>1, <1>2 DEF OrderKept

LEMMA HandedOver == ASSUME TypeOK, IInv PROVE ListWhole
<1> SUFFICES ASSUME chipRd # chipWr, ~refused
             PROVE  /\ landedAt = chipRd
                    /\ landed = Data(1, bytes_in_transaction)
                    /\ (chipRd + bytes_in_transaction) % FifoSize = chipWr
  BY DEF ListWhole
<1>1. Whole /\ chipRd = reg_cmd_write_val /\ chipWr = NewWrite
  BY DEF IInv, ChipInv
<1>2. chipRd + bytes_in_transaction = bytes_in_transaction + reg_cmd_write_val
  BY <1>1 DEF TypeOK
<1>3. QED
  BY <1>1, <1>2 DEF Whole, NewWrite

(* What is on the wire and behind it is always the beginning of one        *)
(* well-formed frame, whatever the handler and the appends do to one       *)
(* another and however large the ring is.                                  *)
THEOREM FramesWellFormed == Spec => []OneFrame
<1>1. TypeOK /\ IInv => OneFrame
  BY FrameWellFormed
<1>2. QED
  BY InvCorrect, <1>1, PTL

(* No byte overtakes another or is sent twice, also when the ring refuses  *)
(* some of the list.                                                       *)
THEOREM BytesInOrder == Spec => []OrderKept
<1>1. TypeOK /\ IInv => OrderKept
  BY InOrder
<1>2. QED
  BY InvCorrect, <1>1, PTL

(* When the chip may execute up to a new REG_CMD_WRITE, the list is in its *)
(* FIFO, whole and where execution goes on.                                *)
THEOREM ListsWhole == Spec => []ListWhole
<1>1. TypeOK /\ IInv => ListWhole
  BY HandedOver
<1>2. QED
  BY InvCorrect, <1>1, PTL

-----------------------------------------------------------------------------
LEMMA StepTransfer ==
  ASSUME TypeOK, IInv, [Next]_vars
  PROVE  [Transfer!Next]_(Transfer!transferVars)
<1> USE
DEF IInv, PlaceInv, StatusInv, Places, PaintPlaces, Resetting, Starting,
        Appending, Asking, Telling, At, mcu, list, queue, main, spi, chip,
        Transfer!transferVars
<1>1. CASE Prepare
  BY <1>1 DEF Prepare, PrepareCall
<1>2. CASE ResetNvic
  BY <1>2 DEF ResetNvic
<1>3. CASE ResetSpe
  BY <1>3, ResetChip DEF ResetSpe, SpiOff
<1>4. CASE ResetStatus
  <2>1. chipRd = chipWr
    BY <1>4 DEF ResetStatus, ChipInv
  <2>2. Transfer!Prepare
    BY <1>4, <2>1 DEF ResetStatus, Transfer!Prepare, Transfer!MayPrepare,
                     Transfer!Reopen
  <2>3. QED
    BY <2>2 DEF Transfer!Next
<1>5. CASE ReadCmdWrite
  BY <1>5 DEF ReadCmdWrite
<1>6. CASE AppendAddr
  BY <1>6 DEF AppendAddr
<1>7. CASE AppendIt
  BY <1>7 DEF AppendIt
<1>8. CASE Count("count", "start")
  <2>1. todo \in 1..MaxBytes /\ bytes_in_transaction + todo <= MaxBytes
    BY <1>8, ListAssumption DEF Count, CountInv, TypeOK
  <2>2. Transfer!Count(todo)
    BY <1>8, <2>1 DEF Count, Transfer!Count
  <2>3. QED
    BY <2>1, <2>2 DEF Transfer!Next
<1>9. CASE StartTx
  BY <1>9 DEF StartTx, CountInv, Transfer!Start, Transfer!Next
<1>10. CASE NvicOn("startNvic", "startSpe")
  BY <1>10 DEF NvicOn
<1>11. CASE SpeOn("startSpe", "resume")
  BY <1>11 DEF SpeOn
<1>12. CASE NvicOn("resume", "idle")
  BY <1>12 DEF NvicOn
<1>13. CASE \E n \in StrLens : AppendStr(n)
  BY <1>13 DEF AppendStr
<1>14. CASE AppendPad
  BY <1>14 DEF AppendPad
<1>15. CASE Count("countStr", "idle")
  <2>1. todo \in 1..MaxBytes /\ bytes_in_transaction + todo <= MaxBytes
    BY <1>15, ListAssumption DEF Count, CountInv, TypeOK
  <2>2. Transfer!Count(todo)
    BY <1>15, <2>1 DEF Count, Transfer!Count
  <2>3. QED
    BY <2>1, <2>2 DEF Transfer!Next
<1>16. CASE Flush
  BY <1>16 DEF Flush, Transfer!Flush, Transfer!Next
<1>17. CASE StoreFifoWrite
  BY <1>17 DEF StoreFifoWrite
<1>18. CASE NvicOn("finishNvic", "idle")
  BY <1>18 DEF NvicOn
<1>19. CASE CheckSentData
  BY <1>19 DEF CheckSentData
<1>20. CASE AppendReg
  BY <1>20 DEF AppendReg
<1>21. CASE RegStatus
  BY <1>21 DEF RegStatus, Transfer!SendReg, Transfer!Next
<1>22. CASE RegFinished
  BY <1>22 DEF RegFinished
<1>23. CASE NvicOn("regNvic", "regSpe")
  BY <1>23 DEF NvicOn
<1>24. CASE SpeOn("regSpe", "idle")
  BY <1>24 DEF SpeOn
<1>25. CASE CheckSentRegData
  BY <1>25 DEF CheckSentRegData, Transfer!Done, Transfer!Next
<1>26. CASE Take
  BY <1>26 DEF Take
<1>27. CASE Close
  <2>1. /\ cmd_buffer_status = "AppendFinished"
        /\ UNCHANGED <<cmd_buffer_status, pc, painting, bytes_in_transaction>>
    BY <1>27 DEF Close
  <2>2. CASE status = "SendingData"
    <3>1. Transfer!ListSent
      BY <1>27, <2>1, <2>2, CloseChip DEF Transfer!ListSent
    <3>2. QED
      BY <3>1 DEF Transfer!Next
  <2>3. CASE status = "SentData"
    BY <1>27, <2>1, <2>3, CloseChip
  <2>4. CASE status = "SendingRegData"
    <3>1. chip_fifo_write = (chipWr + bytes_in_transaction) % FifoSize
      <4>1. /\ chip_fifo_write = (bytes_in_transaction + reg_cmd_write_val) %
             FifoSize
            /\ chipWr = reg_cmd_write_val
        BY <1>27, <2>4, CloseTime DEF ChipInv, Sending, NewWrite
      <4>2. bytes_in_transaction + reg_cmd_write_val = chipWr +
             bytes_in_transaction
        BY <4>1 DEF TypeOK
      <4>3. QED
        BY <4>1, <4>2
    <3>2. Transfer!RegSent
      BY <1>27, <2>1, <2>4, <3>1, CloseChip DEF Transfer!RegSent
    <3>3. QED
      BY <3>2 DEF Transfer!Next
  <2>5. QED
    BY <1>27, <2>2, <2>3, <2>4, CloseChip
<1>28. CASE Pause
  BY <1>28 DEF Pause
<1>29. CASE Load
  BY <1>29 DEF Load
<1>30. CASE ShiftOut
  BY <1>30 DEF ShiftOut
<1>31. CASE Process
  BY <1>31 DEF Process, Transfer!Process, Transfer!Next
<1>32. CASE UNCHANGED vars
  BY <1>32 DEF vars
<1>33. QED
  BY <1>1, <1>2, <1>3, <1>4, <1>5, <1>6, <1>7, <1>8, <1>9, <1>10, <1>11,
     <1>12, <1>13, <1>14, <1>15, <1>16, <1>17, <1>18, <1>19, <1>20, <1>21,
     <1>22, <1>23, <1>24, <1>25, <1>26, <1>27, <1>28, <1>29, <1>30, <1>31,
     <1>32
  DEF Next, Painter, Checker, Handler

(* The interrupt driven transmit path does only what CmdTransfer allows:   *)
(* the handler closes no list that is still open, each list is handed over *)
(* once, and the chip's write pointer moves by the bytes of this list.     *)
THEOREM TransferImplemented == Spec => ImplementsTransfer
<1>1. Init => Transfer!Init
  BY DEF Init, Transfer!Init
<1>2. TypeOK /\ IInv /\ [Next]_vars
        => [Transfer!Next]_(Transfer!transferVars)
  BY StepTransfer
<1>3. QED
  BY <1>1, <1>2, InvCorrect, PTL DEF Spec, ImplementsTransfer, Transfer!Spec
=============================================================================
