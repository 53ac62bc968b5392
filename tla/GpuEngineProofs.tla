-------------------------- MODULE GpuEngineProofs --------------------------
(***************************************************************************)
(* Proofs about GpuEngine for every size of the chip's command FIFO and    *)
(* every length of the lists: its type invariant, RunningMeansDrawn,       *)
(* FlagsReadAlone, NotForgotten, and that the looper uses the transmit     *)
(* path as CmdTransfer allows.                                             *)
(*                                                                         *)
(* The looper changes FLAGS_READ and CMDREADY alone, the EXTI handler only *)
(* adds NEED_READ.  So a load and its store agree on the former two, and   *)
(* the argument can follow a CMDEMPTY from the chip's register through     *)
(* itflags and CMDREADY to the task's state: wherever it is on that way,   *)
(* it is the one of the list painted last.                                 *)
(***************************************************************************)
EXTENDS GpuEngine, TLAPS

(* Places between the painting's decision and its end, and those where a   *)
(* value in loaded is about to be stored.                                  *)
Before   == {"clearLoad", "clearStore", "paint"}
Switch   == {"activateLoad", "activateStore", "activateFlags"}
Boot     == {"bootRead", "bootInit"}
Quiet    == {"needLoad", "needStore", "readFlags"}
Storing  == {"activateStore", "needStore", "readStore", "handleStore",
             "readyStore", "clearStore"}
Reading  == {"readLoad", "readStore"}
Handling == {"handle", "handleLoad", "handleStore"}
Ready    == {"readyLoad", "readyStore"}
Places   == Before \cup Switch \cup Boot \cup Quiet \cup Reading \cup Handling
            \cup Ready
            \cup {"activate", "check", "sending", "callback", "task", "append"}

Looping(bits) == bits \ {"NEED_READ"}

(* The list that was painted is transmitted, or being so. *)
Painted == taskState = "Painting" /\ at \notin Before

(* The parts of the inductive invariant. *)
AtPlace == /\ at \in Places
           /\ taskState \in {"New", "Painting", "Running"}
           /\ at \in Before \cup {"append"} => taskState = "Painting"
           /\ at \in Switch \cup Boot       => taskState = "New"
           /\ at = "activate"               => taskState \in {"New", "Running"}

(* A list is open only in the painting function; the path is busy and the  *)
(* chip behind its pointer only with the list of this task.                *)
PathInv ==
  /\ open <=> at = "append"
  /\ open => status \in {"ReadyToSend", "SendingData"} /\ chipRd = chipWr
  /\ status # "ReadyToSend" => Painted
  /\ chipRd # chipWr => Painted /\ status \in {"ReadyToSend", "SentRegData"}
  /\ at \in Quiet => status = "ReadyToSend"

(* What the looper stores is what it loaded. *)
LoadInv == /\ at \in Storing => Looping(loaded) = Looping(flags)
           /\ "FLAGS_READ" \in flags => at \in Handling
           /\ at \in {"handleLoad", "handleStore"} => "FLAGS_READ" \in flags
           /\ at \in Ready => "CMDEMPTY" \in itflags
           /\ at \in {"paint", "append"} => "CMDREADY" \notin flags

(* A CMDEMPTY on its way: in the register, ... *)
EmptyInChip == "CMDEMPTY" \in chipFlags
(* ... in the looper's hands, ... *)
EmptyRead == /\ "CMDEMPTY" \in itflags
             /\ \/ at \in Reading \cup Ready
                \/ at \in Handling /\ "FLAGS_READ" \in flags
(* ... or noted in m_gpuIT_flag. *)
EmptyNoted == Painted /\ "CMDREADY" \in flags

EmptyInv ==
  /\ EmptyInChip => /\ Painted /\ ~open
                    /\ status \in {"ReadyToSend", "SentRegData"}
                    /\ chipRd = chipWr
  /\ EmptyRead \/ EmptyNoted => /\ Painted /\ ~open
                                /\ status = "ReadyToSend"
                                /\ chipRd = chipWr
                                /\ ~EmptyInChip

IInv == AtPlace /\ PathInv /\ LoadInv /\ EmptyInv
-----------------------------------------------------------------------------
(* The new write pointer is inside the FIFO. *)
LEMMA InFifo == ASSUME NEW n \in Nat PROVE n % FifoSize \in 0..FifoSize-1
BY TransferAssumption

(* The flags, the register and the transmit path keep their types. *)
THEOREM EngineTypeCorrect == EngineSpec => []EngineTypeOK
<1>1. EngineInit => EngineTypeOK
  <2> SUFFICES ASSUME EngineInit PROVE EngineTypeOK
    OBVIOUS
  <2>1. {open, touched, exti, lost} \subseteq BOOLEAN
    BY Zenon DEF EngineInit, Init
  <2>2. /\ flags = {} /\ loaded = {} /\ itflags = {} /\ taskState = "New"
        /\ chipFlags \subseteq Sources
        /\ status = "ReadyToSend" /\ bytes = 0 /\ chipWr = 0 /\ chipRd = 0
    BY DEF EngineInit, Init, Sources
  <2>3. QED
    BY <2>1, <2>2, TransferAssumption DEF EngineTypeOK
<1>2. ASSUME EngineTypeOK, [EngineNext]_vars PROVE EngineTypeOK'
  <2> USE <1>2, TransferAssumption DEF EngineTypeOK, FlagBits, Sources
  <2>1. CASE BootRead \/ BootInit
    BY <2>1 DEF BootRead, BootInit, Goto, Store, transferVars, pin
  <2>2. CASE Activate \/ ActivateLoad \/ ActivateStore \/ ActivateFlags
    BY <2>2
    DEF Activate, ActivateLoad, ActivateStore, ActivateFlags, Goto, Load,
        Store, transferVars, pin
  <2>3. CASE Check
    BY <2>3 DEF Check, Goto, SendReg, Done, transferVars, pin
  <2>4. CASE IsSending \/ NeedLoad \/ NeedStore \/ ReadIntFlags \/ ReadLoad \/
         ReadStore
    BY <2>4
    DEF IsSending, NeedLoad, NeedStore, ReadIntFlags, ReadLoad, ReadStore,
        ReadFlags, Goto, Load, Store, transferVars, pin
  <2>5. CASE Handle \/ HandleLoad \/ HandleStore \/ ReadyLoad \/ ReadyStore
    BY <2>5
    DEF Handle, HandleLoad, HandleStore, ReadyLoad, ReadyStore, Goto, Load,
        Store, transferVars, pin
  <2>14. CASE Callback
    <3>1. touched' \in BOOLEAN
      BY <2>14, SMT DEF Callback
    <3>2. UNCHANGED <<transferVars, flags, loaded, itflags, taskState, lost,
           pin>>
      BY <2>14 DEF Callback
    <3>3. QED
      BY <3>1, <3>2 DEF transferVars, pin
  <2>6. CASE TaskNew \/ ClearLoad \/ ClearStore \/ TaskPainting \/ TaskRunning
    BY <2>6
    DEF TaskNew, ClearLoad, ClearStore, TaskPainting, TaskRunning, Goto, Load,
        Store, transferVars, pin
  <2>7. CASE Paint
    BY <2>7 DEF Paint, Reopen, Goto, transferVars, pin
  <2>15. CASE PaintFlush
    BY <2>15 DEF PaintFlush, Flush, Goto, transferVars, pin
  <2>8. CASE PaintAppend
    BY <2>8 DEF PaintAppend, Count, Start, loop, pin
  <2>9. CASE Transmit
    BY <2>9, InFifo DEF Transmit, ListSent, RegSent, loop, pin
  <2>10. CASE ExtiHandler \/ Touch
    BY <2>10 DEF ExtiHandler, Touch, Raise, transferVars, loop
  <2>11. CASE Execute
    BY <2>11 DEF Execute, Process, Raise, loop
  <2>12. CASE UNCHANGED vars
    BY <2>12 DEF vars, transferVars, loop, pin
  <2>13. QED
    BY <2>1, <2>2, <2>3, <2>4, <2>5, <2>6, <2>7, <2>8, <2>9, <2>10, <2>11,
           <2>12, <2>14, <2>15
    DEF EngineNext, Main, Looper
<1>3. QED
  BY <1>1, <1>2, PTL DEF EngineSpec

-----------------------------------------------------------------------------
(* The engine before its first task. *)
LEMMA InvInit == EngineInit => IInv
BY DEF EngineInit, Init, IInv, AtPlace, PathInv, LoadInv, EmptyInv,
       EmptyInChip, EmptyRead, EmptyNoted, Painted, Places, Before, Switch,
       Boot, Quiet, Storing, Reading, Handling, Ready, Looping

(* Every step keeps the invariant. *)
LEMMA InvStep == ASSUME IInv, [EngineNext]_vars PROVE IInv'
<1> USE
DEF IInv, AtPlace, PathInv, LoadInv, EmptyInv, EmptyInChip, EmptyRead,
    EmptyNoted, Painted, Places, Before, Switch, Boot, Quiet, Storing, Reading,
    Handling, Ready, Looping, Goto, Load, Store, transferVars, loop, pin
<1>1. CASE BootRead
  BY <1>1 DEF BootRead
<1>2. CASE BootInit
  BY <1>2 DEF BootInit
<1>3. CASE Activate
  BY <1>3 DEF Activate
<1>4. CASE ActivateLoad
  BY <1>4 DEF ActivateLoad
<1>5. CASE ActivateStore
  BY <1>5 DEF ActivateStore
<1>6. CASE ActivateFlags
  BY <1>6 DEF ActivateFlags
<1>7. CASE Check
  BY <1>7 DEF Check, SendReg, Done
<1>8. CASE IsSending
  BY <1>8 DEF IsSending
<1>9. CASE NeedLoad
  BY <1>9 DEF NeedLoad
<1>10. CASE NeedStore
  BY <1>10 DEF NeedStore
<1>11. CASE ReadIntFlags
  BY <1>11 DEF ReadIntFlags, ReadFlags
<1>12. CASE ReadLoad
  BY <1>12 DEF ReadLoad
<1>13. CASE ReadStore
  BY <1>13 DEF ReadStore
<1>14. CASE Handle
  BY <1>14 DEF Handle
<1>15. CASE HandleLoad
  BY <1>15 DEF HandleLoad
<1>16. CASE HandleStore
  BY <1>16 DEF HandleStore
<1>17. CASE ReadyLoad
  BY <1>17 DEF ReadyLoad
<1>18. CASE ReadyStore
  BY <1>18 DEF ReadyStore
<1>19. CASE Callback
  BY <1>19 DEF Callback
<1>20. CASE TaskNew
  BY <1>20 DEF TaskNew
<1>21. CASE ClearLoad
  BY <1>21 DEF ClearLoad
<1>22. CASE ClearStore
  BY <1>22 DEF ClearStore
<1>23. CASE Paint
  BY <1>23 DEF Paint, Reopen
<1>24. CASE PaintAppend
  BY <1>24 DEF PaintAppend, Count, Start
<1>25. CASE PaintFlush
  BY <1>25 DEF PaintFlush, Flush
<1>26. CASE TaskPainting
  BY <1>26 DEF TaskPainting
<1>27. CASE TaskRunning
  BY <1>27 DEF TaskRunning
<1>28. CASE Transmit
  BY <1>28 DEF Transmit, ListSent, RegSent
<1>29. CASE ExtiHandler
  BY <1>29 DEF ExtiHandler
<1>30. CASE Touch
  BY <1>30 DEF Touch, Raise
<1>31. CASE Execute
  BY <1>31 DEF Execute, Process, Raise
<1>32. CASE UNCHANGED vars
  BY <1>32 DEF vars
<1>33. QED
  BY <1>1, <1>2, <1>3, <1>4, <1>5, <1>6, <1>7, <1>8, <1>9, <1>10, <1>11, <1>12,
     <1>13, <1>14, <1>15, <1>16, <1>17, <1>18, <1>19, <1>20, <1>21, <1>22,
     <1>23, <1>24, <1>25, <1>26, <1>27, <1>28, <1>29, <1>30, <1>31, <1>32
  DEF EngineNext, Main, Looper

-----------------------------------------------------------------------------
(* The inductive invariant holds throughout: an open list, a busy path or  *)
(* a CMDEMPTY anywhere on its way belong to the screen painted last.       *)
THEOREM InvCorrect == EngineSpec => []IInv
<1>1. IInv /\ [EngineNext]_vars => IInv'
  BY InvStep
<1>2. QED
  BY InvInit, <1>1, PTL DEF EngineSpec

(* What the invariant says of a running task. *)
LEMMA RunsDrawn == IInv => RunningMeansDrawn
BY DEF IInv, PathInv, AtPlace, Painted, RunningMeansDrawn

(* A task runs only when its screen is drawn and the SPI is free: a        *)
(* CMDEMPTY of an earlier screen is never taken for this one's.            *)
THEOREM RunsWhenDrawn == EngineSpec => []RunningMeansDrawn
BY InvCorrect, RunsDrawn, PTL

(* What it says of a reading of the flags. *)
LEMMA FlagsAlone == IInv => FlagsReadAlone
BY DEF IInv, PathInv, Quiet, FlagsReadAlone

(* What isSending() answered still holds when REG_INT_FLAGS is read. *)
THEOREM ReadsFlagsAlone == EngineSpec => []FlagsReadAlone
BY InvCorrect, FlagsAlone, PTL

-----------------------------------------------------------------------------
(* The looper only ever calls prepare when it may. *)
LEMMA PaintMayPrepare == IInv /\ Paint => Prepare
BY DEF IInv, AtPlace, PathInv, Painted, Before, Paint, Goto, Prepare,
       MayPrepare

(* Every step is one of the transfer, or none. *)
LEMMA StepUsesTransfer ==
  ASSUME IInv, [EngineNext]_vars PROVE [Next]_transferVars
<1>1. CASE Check
  BY <1>1 DEF Check, Next
<1>2. CASE Paint
  BY <1>2, PaintMayPrepare DEF Next
<1>3. CASE PaintAppend
  BY <1>3 DEF PaintAppend, Next
<1>4. CASE PaintFlush
  BY <1>4 DEF PaintFlush, Next
<1>5. CASE Transmit
  BY <1>5 DEF Transmit, Next
<1>6. CASE Execute
  BY <1>6 DEF Execute, Next
<1>7. CASE ExtiHandler \/ Touch \/ UNCHANGED vars
  BY <1>7 DEF ExtiHandler, Touch, vars
<1>8. CASE BootRead \/ BootInit \/ Activate \/ ActivateLoad \/ ActivateStore
           \/ ActivateFlags
  BY <1>8 DEF BootRead, BootInit, Activate, ActivateLoad, ActivateStore,
              ActivateFlags, Load, Store
<1>9. CASE IsSending \/ NeedLoad \/ NeedStore \/ ReadIntFlags \/ ReadLoad
           \/ ReadStore
  BY <1>9 DEF IsSending, NeedLoad, NeedStore, ReadIntFlags, ReadLoad,
              ReadStore, ReadFlags, Load, Store
<1>10. CASE Handle \/ HandleLoad \/ HandleStore \/ ReadyLoad \/ ReadyStore
            \/ Callback
  BY <1>10 DEF Handle, HandleLoad, HandleStore, ReadyLoad, ReadyStore,
               Callback, Load, Store
<1>11. CASE TaskNew \/ ClearLoad \/ ClearStore \/ TaskPainting \/ TaskRunning
  BY <1>11 DEF TaskNew, ClearLoad, ClearStore, TaskPainting, TaskRunning, Load,
               Store
<1>12. QED
  BY <1>1, <1>2, <1>3, <1>4, <1>5, <1>6, <1>7, <1>8, <1>9, <1>10, <1>11
  DEF EngineNext, Main, Looper

(* Whatever the looper, the handlers and the chip do, the transmit path is *)
(* used as CmdTransfer allows.                                             *)
THEOREM LooperUsesTransfer == EngineSpec => UsesTransfer
<1>1. EngineInit => Init
  BY DEF EngineInit
<1>2. IInv /\ [EngineNext]_vars => [Next]_transferVars
  BY StepUsesTransfer
<1>3. QED
  BY <1>1, <1>2, InvCorrect, PTL DEF EngineSpec, UsesTransfer, Spec

-----------------------------------------------------------------------------
(* The stores are the only steps that can forget an interrupt, and they    *)
(* note it; every other step hands what is pending on.                     *)
LEMMA KnownStep == ASSUME NotForgotten, [EngineNext]_vars PROVE NotForgotten'
<1> USE DEF NotForgotten, Known, Goto, Load, Store, pin, loop
<1>1. CASE BootRead \/ ReadIntFlags
  BY <1>1 DEF BootRead, ReadIntFlags, ReadFlags
<1>2. CASE BootInit \/ ActivateStore \/ NeedStore \/ ReadStore \/ HandleStore
           \/ ReadyStore \/ ClearStore
  BY <1>2 DEF BootInit, ActivateStore, NeedStore, ReadStore, HandleStore,
              ReadyStore, ClearStore
<1>3. CASE ActivateLoad \/ NeedLoad \/ ReadLoad \/ HandleLoad \/ ReadyLoad
           \/ ClearLoad
  BY <1>3
  DEF ActivateLoad, NeedLoad, ReadLoad, HandleLoad, ReadyLoad, ClearLoad
<1>4. CASE Activate \/ ActivateFlags \/ Check \/ IsSending \/ Handle \/
       Callback
  BY <1>4 DEF Activate, ActivateFlags, Check, IsSending, Handle, Callback
<1>5. CASE TaskNew \/ Paint \/ PaintAppend \/ PaintFlush \/ TaskPainting
           \/ TaskRunning
  BY <1>5
  DEF TaskNew, Paint, PaintAppend, PaintFlush, TaskPainting, TaskRunning
<1>6. CASE Touch \/ Execute
  BY <1>6 DEF Touch, Execute, Raise
<1>7. CASE ExtiHandler \/ Transmit \/ UNCHANGED vars
  BY <1>7 DEF ExtiHandler, Transmit, vars
<1>8. QED
  BY <1>1, <1>2, <1>3, <1>4, <1>5, <1>6, <1>7 DEF EngineNext, Main, Looper

(* An interrupt pending in the chip is known to somebody, or a store lost  *)
(* it.                                                                     *)
THEOREM NeverForgotten == EngineSpec => []NotForgotten
<1>1. EngineInit => NotForgotten
  BY DEF EngineInit, NotForgotten, Known
<1>2. NotForgotten /\ [EngineNext]_vars => NotForgotten'
  BY KnownStep
<1>3. QED
  BY <1>1, <1>2, PTL DEF EngineSpec
=============================================================================
