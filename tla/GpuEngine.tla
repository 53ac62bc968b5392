----------------------------- MODULE GpuEngine -----------------------------
(***************************************************************************)
(* ft80x_engine_it.c: the looper that main() calls for ever, the task      *)
(* state machine New -> Painting -> Running, and the handler of the chip's *)
(* interrupt pin (EXTI4_IRQHandler of main.c), which may run between any   *)
(* two of the looper's steps.  The transmit path below is CmdTransfer.     *)
(*                                                                         *)
(* m_gpuIT_flag is a plain word that both sides change.  `|=' and `&='     *)
(* are a load and a store on this processor, so every change the looper    *)
(* makes is two steps here; the handler's own is one, nothing interrupts   *)
(* it.  The pin is low while a flag is pending in REG_INT_FLAGS; EXTI4     *)
(* sees falling edges only.                                                *)
(***************************************************************************)
EXTENDS CmdTransfer

VARIABLES
  flags,      \* m_gpuIT_flag
  loaded,     \* the copy of it in a register, between a load and its store
  itflags,    \* m_gpu_itflags
  taskState,  \* m_currTaskState
  touched,    \* the task's shared data: a touch to be handled by doing
  at,         \* the main thread's place
  chipFlags,  \* REG_INT_FLAGS
  exti,       \* EXTI4 pending
  lost        \* history: a store wiped out an interrupt nobody read

loop   == <<flags, loaded, itflags, taskState, touched, at, lost>>
pin    == <<chipFlags, exti>>
vars   == <<transferVars, loop, pin>>

FlagBits == {"NEED_READ", "FLAGS_READ", "CMDREADY"}
Sources  == {"CMDEMPTY", "TOUCH"}

-----------------------------------------------------------------------------
(* main() when the chip's interrupt sources have just been enabled: they   *)
(* may have raised the pin already.                                        *)
EngineInit == /\ Init
              /\ flags = {} /\ loaded = {} /\ itflags = {}
              /\ taskState = "New" /\ touched = FALSE
              /\ at = "bootRead"
              /\ chipFlags \in {{}, {"TOUCH"}}
              /\ exti = (chipFlags # {})
              /\ lost = FALSE

-----------------------------------------------------------------------------
(* The chip sets a flag; the first one pending pulls the pin low. *)
Raise(src) == /\ chipFlags' = chipFlags \cup {src}
              /\ exti' = (exti \/ chipFlags = {})

Touch == /\ Raise("TOUCH")
         /\ UNCHANGED <<transferVars, loop>>

(* All commands executed: FT_INT_CMDEMPTY. *)
Execute == /\ Process
           /\ Raise("CMDEMPTY")
           /\ UNCHANGED loop

(* Faulty: an interrupt during a transmission is only acknowledged. *)
ExtiHandlerWhenIdle ==
  /\ exti
  /\ exti' = FALSE
  /\ flags' = IF status = "ReadyToSend" THEN flags \cup {"NEED_READ"} ELSE flags
  /\ UNCHANGED <<transferVars, loaded, itflags, taskState, touched, at, lost,
                 chipFlags>>

(* ft80x_gpu_eng_it_rountine. *)
ExtiHandler == /\ exti
               /\ exti' = FALSE
               /\ flags' = flags \cup {"NEED_READ"}
               /\ UNCHANGED <<transferVars, loaded, itflags, taskState, touched,
                              at, lost, chipFlags>>

(* The transmission itself, on the SPI handler's side. *)
Transmit == (ListSent \/ RegSent) /\ UNCHANGED <<loop, pin>>

-----------------------------------------------------------------------------
(* The main thread.  Goto(p, q): it is at p and goes on at q. *)
Goto(p, q) == at = p /\ at' = q

Load(p, q) == /\ Goto(p, q)
              /\ loaded' = flags
              /\ UNCHANGED <<transferVars, flags, itflags, taskState, touched,
                             lost, pin>>

(* The store of a changed copy.  The note of an interrupt that came since  *)
(* the load, or that the new value leaves out, is gone; it is lost if the  *)
(* chip has flags pending, unless the register is about to be read (read). *)
Store(p, q, value, read) ==
  /\ Goto(p, q)
  /\ flags' = value
  /\ lost' = (lost \/ (/\ ~read /\ chipFlags # {}
                       /\ "NEED_READ" \in flags \ value))
  /\ UNCHANGED <<transferVars, loaded, itflags, taskState, touched, pin>>

(* A blocking read of REG_INT_FLAGS, which clears it. *)
ReadFlags(p, q) == /\ Goto(p, q)
                   /\ itflags' = chipFlags
                   /\ chipFlags' = {}
                   /\ UNCHANGED <<transferVars, flags, loaded, taskState,
                                  touched, lost, exti>>

(* main(): clear pending flags, initialise the api (and with it the        *)
(* engine), register the tasks, activate the first one.                    *)
BootRead == Goto("bootRead", "bootInit") /\ chipFlags' = {}
            /\ UNCHANGED <<transferVars, flags, loaded, itflags, taskState,
                           touched, lost, exti>>

BootInit == Store("bootInit", "activate", {}, FALSE)

(* ft80x_gpu_eng_it_setActiveTask. *)
Activate == /\ Goto("activate", "activateLoad")
            /\ taskState' = "New"
            /\ UNCHANGED <<transferVars, flags, loaded, itflags, touched, lost,
                           pin>>
ActivateLoad  == Load("activateLoad", "activateStore")
ActivateStore == Store("activateStore", "activateFlags",
                       loaded \cap {"NEED_READ"}, FALSE)
ActivateFlags == /\ Goto("activateFlags", "check")
                 /\ itflags' = {}
                 /\ UNCHANGED <<transferVars, flags, loaded, taskState, touched,
                                lost, pin>>

(* ft80x_gpu_eng_it_looper: ft80x_it_check first. *)
Check == /\ Goto("check", "sending")
         /\ IF status \in {"SentData", "SentRegData"} THEN SendReg \/ Done
                                                      ELSE UNCHANGED transferVars
         /\ UNCHANGED <<flags, loaded, itflags, taskState, touched, lost, pin>>

(* Faulty: the flags are read during a transmission as well. *)
IsSendingIgnored ==
  /\ Goto("sending", IF "NEED_READ" \in flags THEN "needLoad" ELSE "handle")
  /\ UNCHANGED <<transferVars, flags, loaded, itflags, taskState, touched, lost,
                 pin>>

(* Is a transmission in progress?  If not, look at the interrupt flag. *)
IsSending ==
  /\ Goto("sending", IF status = "ReadyToSend" /\ "NEED_READ" \in flags
                     THEN "needLoad" ELSE "handle")
  /\ UNCHANGED <<transferVars, flags, loaded, itflags, taskState, touched, lost,
                 pin>>

NeedLoad  == Load("needLoad", "needStore")
NeedStore == Store("needStore", "readFlags", loaded \ {"NEED_READ"}, TRUE)
ReadIntFlags == ReadFlags("readFlags", "readLoad")
ReadLoad  == Load("readLoad", "readStore")
ReadStore == Store("readStore", "handle", loaded \cup {"FLAGS_READ"}, FALSE)

(* Flags that were read go to the engine and to the task, once. *)
Handle == /\ Goto("handle", IF "FLAGS_READ" \in flags THEN "handleLoad"
                                                      ELSE "task")
          /\ UNCHANGED <<transferVars, flags, loaded, itflags, taskState,
                         touched, lost, pin>>
HandleLoad  == Load("handleLoad", "handleStore")
(* Faulty: the engine overlooks the CMDEMPTY flag. *)
HandleStoreNoReady ==
  Store("handleStore", "callback", loaded \ {"FLAGS_READ"}, FALSE)

HandleStore == Store("handleStore",
                     IF "CMDEMPTY" \in itflags THEN "readyLoad" ELSE "callback",
                     loaded \ {"FLAGS_READ"}, FALSE)
ReadyLoad   == Load("readyLoad", "readyStore")
ReadyStore  == Store("readyStore", "callback", loaded \cup {"CMDREADY"}, FALSE)

(* The task's gpu_it function. *)
Callback == /\ Goto("callback", "task")
            /\ touched' = ("TOUCH" \in itflags)
            /\ UNCHANGED <<transferVars, flags, loaded, itflags, taskState,
                           lost, pin>>

-----------------------------------------------------------------------------
(* The switch on the task state. *)
(* Faulty: the task stays New and paints again. *)
TaskStaysNew == /\ taskState = "New"
                /\ Goto("task", "clearLoad")
                /\ UNCHANGED <<transferVars, flags, loaded, itflags, taskState,
                               touched, lost, pin>>

TaskNew == /\ taskState = "New"
           /\ Goto("task", "clearLoad")
           /\ taskState' = "Painting"
           /\ UNCHANGED <<transferVars, flags, loaded, itflags, touched, lost,
                          pin>>
ClearLoad  == Load("clearLoad", "clearStore")
ClearStore == Store("clearStore", "paint", loaded \ {"CMDREADY"}, FALSE)

(* The painting function: prepare, appends, flush.  Nothing here asks      *)
(* whether the path is free.                                               *)
Paint == /\ Goto("paint", "append")
         /\ Reopen
         /\ UNCHANGED <<flags, loaded, itflags, taskState, touched, lost, pin>>
PaintAppend == /\ at = "append"
               /\ (\E n \in 1..MaxBytes : Count(n)) \/ Start
               /\ UNCHANGED <<loop, pin>>
PaintFlush == /\ Goto("append", "check")
              /\ Flush
              /\ UNCHANGED <<flags, loaded, itflags, taskState, touched, lost,
                             pin>>

(* Faulty: the end of the transmission is taken for the end of drawing. *)
TaskPaintingPolls == /\ taskState = "Painting"
                     /\ Goto("task", "check")
                     /\ taskState' = IF status = "ReadyToSend" THEN "Running"
                                                               ELSE "Painting"
                     /\ UNCHANGED <<transferVars, flags, loaded, itflags,
                                    touched, lost, pin>>

TaskPainting == /\ taskState = "Painting"
                /\ Goto("task", "check")
                /\ taskState' = IF "CMDREADY" \in flags THEN "Running"
                                                        ELSE "Painting"
                /\ UNCHANGED <<transferVars, flags, loaded, itflags, touched,
                               lost, pin>>

(* The doing function: a touch makes it read the touched tag, and, where   *)
(* the tag asks for it, repaint this task or switch to another.            *)
TaskRunning == /\ taskState = "Running"
               /\ at = "task"
               /\ touched' = FALSE
               /\ \/ at' = "check"
                  \/ touched /\ at' = "activate"
               /\ UNCHANGED <<transferVars, flags, loaded, itflags, taskState,
                              lost, pin>>

Looper == \/ Check \/ IsSending
          \/ NeedLoad \/ NeedStore \/ ReadIntFlags \/ ReadLoad \/ ReadStore
          \/ Handle \/ HandleLoad \/ HandleStore \/ ReadyLoad \/ ReadyStore
          \/ Callback
          \/ TaskNew \/ ClearLoad \/ ClearStore
          \/ Paint \/ PaintAppend \/ PaintFlush
          \/ TaskPainting \/ TaskRunning
          \/ Activate \/ ActivateLoad \/ ActivateStore \/ ActivateFlags
Main == BootRead \/ BootInit \/ Looper

EngineNext == Main \/ ExtiHandler \/ Transmit \/ Touch \/ Execute

(* main() never stops, a pending interrupt is served, a closed list is     *)
(* transmitted (ItApi's Delivered) and executed.  Nobody has to touch.     *)
EngineSpec == /\ EngineInit /\ [][EngineNext]_vars
              /\ WF_vars(Main) /\ WF_vars(ExtiHandler)
              /\ WF_vars(Transmit) /\ WF_vars(Execute)

-----------------------------------------------------------------------------
(* The variables keep their types. *)
EngineTypeOK ==
  /\ status \in {"ReadyToSend", "SendingData", "SendingRegData", "SentData",
                 "SentRegData"}
  /\ {open, touched, exti, lost} \subseteq BOOLEAN
  /\ bytes \in 0..MaxBytes
  /\ chipWr \in 0..FifoSize-1 /\ chipRd \in 0..FifoSize-1
  /\ flags \subseteq FlagBits /\ loaded \subseteq FlagBits
  /\ itflags \subseteq Sources /\ chipFlags \subseteq Sources
  /\ taskState \in {"New", "Painting", "Running"}

(* A task runs only when its screen is drawn: its list was transmitted,    *)
(* the chip has executed it, and nothing is on the SPI, so that the        *)
(* blocking reads of its doing function have the SPI for themselves.  A    *)
(* CMDEMPTY of the previous screen is never taken for this one's.          *)
RunningMeansDrawn ==
  taskState = "Running" => status = "ReadyToSend" /\ ~open /\ chipRd = chipWr

(* The looper tested isSending() some steps before it reads REG_INT_FLAGS; *)
(* the answer still holds when it does.                                    *)
FlagsReadAlone == at = "readFlags" => status = "ReadyToSend" /\ ~open

(* ft801_api_cmd_prepare_it breaks a running transmission and assumes that *)
(* the chip's command FIFO is empty (its two NOTEs).  The engine never     *)
(* calls a painting function in any other situation, and otherwise uses    *)
(* the transmit path as CmdTransfer allows.                                *)
UsesTransfer == Spec

(* While the chip has flags pending the pin stays low and no further edge  *)
(* comes, so somebody must know: the EXTI, m_gpuIT_flag, or the looper on  *)
(* its way to the register.  The boot code clears the register on its own. *)
Known == \/ exti
         \/ "NEED_READ" \in flags
         \/ at \in {"needStore", "readFlags", "bootRead"}

(* Outside the stores that lose it, a pending interrupt is never forgotten *)
(* between the chip, the handler, the looper and a task switch.            *)
NotForgotten == chipFlags # {} => Known \/ lost

(* A task that is made active gets its screen drawn and runs, unless an    *)
(* interrupt was lost.                                                     *)
ActiveTaskRuns == taskState = "New" ~> taskState = "Running" \/ lost

(* ft80x_engine_it.c:232 "reset flags but keep the IT flag -> the it flags *)
(* from GPU must be read": the task switch keeps an interrupt that was     *)
(* noted.                                                                  *)
ITFlagKept ==
  [][at = "activateStore" /\ "NEED_READ" \in flags => "NEED_READ" \in flags']_vars
=============================================================================
