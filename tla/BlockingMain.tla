---------------------------- MODULE BlockingMain ----------------------------
(***************************************************************************)
(* main.c from reset up to the engine, ft801_api.c which it calls, and the *)
(* examples of main.c that do without the engine, on top of the transfers  *)
(* of SpiDriver and beside EXTI4_IRQHandler.                               *)
(*                                                                         *)
(* What main has to do until it looks at a result is a list of transfers,  *)
(* plan; place names the code that comes behind it.  Of the chip there are *)
(* the registers that are read back or that drive its interrupt pin; the   *)
(* others are remembered in written once they have their value.  A         *)
(* register is the set of its bits that matter; "rest" stands for all its  *)
(* other bits, "lap" tells two offsets into the command FIFO apart.        *)
(***************************************************************************)
EXTENDS SpiDriver

CONSTANTS Examples,   \* which of the programs: "dl", "cmd", "calibrate", "api"
          MatrixLen   \* values in the touch matrix (6)

ASSUME MatrixAssumption == MatrixLen \in Nat
ASSUME ExampleAssumption == Examples \subseteq {"dl", "cmd", "calibrate", "api"}

VARIABLES
  plan,      \* the transfers still to be made, the one being made first
  place,     \* where main goes on behind them, and where behind that
  got,       \* what the last read returned
  cmd_rd_reg,\* a local of ft801_api_cmd_flush
  answer,    \* what the chip is answering
  gpu_int,   \* set by EXTI4_IRQHandler
  regs,      \* the chip's registers that are read back
  written,   \* the ones that were written and are not read
  exti,      \* EXTI4 pending
  asked,     \* history: the panel and the sources asked for with the api
  misread,   \* history: a value did not begin behind the dummy byte
  missed     \* history: gpu_int was cleared with flags pending in the chip

mcu  == <<plan, place, got, cmd_rd_reg, gpu_int, asked, misread,
          missed>>
chip == <<answer, regs, written, exti>>
vars == <<code, spi, mcu, chip>>

Sources == {"CMDEMPTY", "TOUCH"}
Bits == [REG_ID |-> {"7C"}, REG_GPIO_DIR |-> {"disp", "rest"},
         REG_GPIO |-> {"disp", "rest"}, REG_INT_MASK |-> Sources,
         REG_INT_EN |-> {"en"}, REG_INT_FLAGS |-> Sources,
         REG_CMD_READ |-> {"lap"}, REG_CMD_WRITE |-> {"lap"}]
Readable == DOMAIN Bits

(* One transfer: which one, to or from which register, and, for a write,   *)
(* the bits written: those of got that are not cleared, and the ones set.  *)
Tr(c, r)            == [call |-> c, reg |-> r, keep |-> {}, set |-> {}]
WrBits(r, bits)     == [call |-> "wr8", reg |-> r, keep |-> {}, set |-> bits]
WrGot(r, keep, set) == [call |-> "wr8", reg |-> r, keep |-> keep, set |-> set]

Each(c, names) == [i \in DOMAIN names |-> Tr(c, names[i])]

-----------------------------------------------------------------------------
(* ft801_api.c. *)
Timing == <<"REG_HSIZE", "REG_HCYCLE", "REG_HOFFSET", "REG_HSYNC0",
            "REG_HSYNC1", "REG_VSIZE", "REG_VCYCLE", "REG_VOFFSET",
            "REG_VSYNC0", "REG_VSYNC1">>
Matrix == [i \in 1..MatrixLen |-> "REG_CTOUCH_TRANSFORM"]

ctouch_adjust == Each("wr32", Matrix)

(* Faulty: the value is not read before it is written. *)
enable_lcdBlind(enable) ==
  (IF enable THEN <<WrBits("REG_GPIO_DIR", {"disp"})>> ELSE <<>>)
  \o <<WrBits("REG_GPIO", IF enable THEN {"disp"} ELSE {})>>

enable_lcd(enable) ==
  <<Tr("rd8", "REG_GPIO_DIR")>>
  \o (IF enable THEN <<WrGot("REG_GPIO_DIR", {"disp", "rest"}, {"disp"})>>
                ELSE <<>>)
  \o <<Tr("rd8", "REG_GPIO"),
       IF enable THEN WrGot("REG_GPIO", {"disp", "rest"}, {"disp"})
                 ELSE WrGot("REG_GPIO", {"rest"}, {})>>

(* Faulty: the panel is switched on before it has a clock. *)
init_lcdPanelFirst ==
  Each("host_cmd", <<"FT_CLKEXT", "FT_CLK48M", "FT_ACTIVE", "FT_CORERST">>)
  \o Each("wr16", Timing) \o enable_lcd(TRUE)
  \o Each("wr8", <<"REG_SWIZZLE", "REG_PCLK_POL", "REG_PCLK">>)
  \o ctouch_adjust

init_lcd == Each("host_cmd", <<"FT_CLKEXT", "FT_CLK48M", "FT_ACTIVE",
                               "FT_CORERST">>)
            \o Each("wr16", Timing)
            \o Each("wr8", <<"REG_SWIZZLE", "REG_PCLK_POL", "REG_PCLK">>)
            \o ctouch_adjust
            \o enable_lcd(TRUE)

enable_it_src(mask)  == <<WrBits("REG_INT_MASK", mask)>>
enable_it_pin(enable) == <<WrBits("REG_INT_EN", IF enable THEN {"en"} ELSE {})>>
read_it_flags        == <<Tr("rd8", "REG_INT_FLAGS")>>
disable_it_src(mask) == <<Tr("rd8", "REG_INT_MASK"),
                          WrGot("REG_INT_MASK", Sources \ mask, {})>>

-----------------------------------------------------------------------------
(* main() until it reads the id, which another chip or none does not give; *)
(* "rest" of the GPIO registers is what the reset of the chip put there.   *)
Init == /\ SpiInit
        /\ plan = init_lcd \o <<Tr("rd8", "REG_ID")>> /\ place = <<"id">>
        /\ got = {} /\ cmd_rd_reg = {} /\ answer = {} /\ gpu_int = 0
        /\ \E id \in {{"7C"}, {}} :
           regs = [r \in Readable |->
                     CASE r = "REG_ID" -> id
                       [] r \in {"REG_GPIO_DIR", "REG_GPIO"} -> {"rest"}
                       [] OTHER -> {}]
        /\ written = {} /\ exti = FALSE
        /\ asked = [lcd |-> TRUE, src |-> Sources]
        /\ misread = FALSE /\ missed = FALSE

-----------------------------------------------------------------------------
(* The chip.  Its pin is low while an enabled source has its flag set;     *)
(* EXTI4 becomes pending when it falls.                                    *)
Low(r) == r["REG_INT_EN"] # {} /\ r["REG_INT_FLAGS"] \cap r["REG_INT_MASK"] # {}
Become(r) == /\ regs' = r
             /\ exti' = (exti \/ (~Low(regs) /\ Low(r)))

Raise(src) == Become([regs EXCEPT !["REG_INT_FLAGS"] = @ \cup {src}])

Touch == /\ Raise("TOUCH")
         /\ UNCHANGED <<code, spi, mcu, answer, written>>

(* Everything executed; a calibration, which waits for touches, included. *)
Execute == /\ regs["REG_CMD_READ"] # regs["REG_CMD_WRITE"]
           /\ Become([regs EXCEPT !["REG_CMD_READ"] = regs["REG_CMD_WRITE"],
                                  !["REG_INT_FLAGS"] = @ \cup {"CMDEMPTY"}])
           /\ UNCHANGED <<code, spi, mcu, answer, written>>

Reads(t) == t.call \in {"rd8", "rd16", "rd32"}

(* The first byte of a value goes out: the register is looked up, and      *)
(* REG_INT_FLAGS is cleared.                                               *)
Send == /\ ShiftOut
        /\ IF Len(frame') = 5 /\ Reads(plan[1]) /\ plan[1].reg \in Readable
           THEN /\ answer' = regs[plan[1].reg]
                /\ Become(IF plan[1].reg = "REG_INT_FLAGS"
                          THEN [regs EXCEPT !["REG_INT_FLAGS"] = {}] ELSE regs)
           ELSE UNCHANGED <<answer, regs, exti>>
        /\ UNCHANGED <<mcu, written>>

(* What a transfer that was completed has written. *)
Write(t) == IF Reads(t) \/ t.call \notin {"wr8", "wr16", "wr32"}
            THEN UNCHANGED <<regs, exti, written>>
            ELSE IF t.reg \in Readable
            THEN /\ Become([regs EXCEPT ![t.reg] = (got \cap t.keep) \cup t.set])
                 /\ UNCHANGED written
            ELSE written' = written \cup {t.reg} /\ UNCHANGED <<regs, exti>>

-----------------------------------------------------------------------------
(* Faulty: the handler counts. *)
ExtiHandlerCounts == /\ exti
                     /\ exti' = FALSE
                     /\ gpu_int' = gpu_int + 1
                     /\ Interrupted
                     /\ UNCHANGED <<plan, place, got, cmd_rd_reg, asked,
                                    misread, missed, answer, regs, written>>

(* EXTI4_IRQHandler. *)
ExtiHandler == /\ exti
               /\ exti' = FALSE
               /\ gpu_int' = 1
               /\ Interrupted
               /\ UNCHANGED <<plan, place, got, cmd_rd_reg, asked,
                              misread, missed, answer, regs, written>>

-----------------------------------------------------------------------------
(* main() makes the next transfer of its plan. *)
Begin == /\ plan # <<>>
         /\ Call(plan[1].call)
         /\ UNCHANGED <<mcu, chip>>

Step == Cpu /\ UNCHANGED <<mcu, chip>>

(* The value of a read: the chip's answer.  When its bytes were not taken  *)
(* from the places the chip puts it into, misread notes that; main is then *)
(* followed with the right value, and nothing is claimed that rests on it. *)
Right == value = [i \in 1..Len(value) |-> 3 + i]

End == /\ ClearSpe
       /\ plan' = Tail(plan)
       /\ IF Reads(plan[1])
          THEN /\ got' = answer
               /\ misread' = (misread \/ ~Right)
          ELSE UNCHANGED <<got, misread>>
       /\ Write(plan[1])
       /\ UNCHANGED <<answer, place, cmd_rd_reg, gpu_int, asked, missed>>

(* main() is at p behind its last transfer; it goes on with transfers ts,  *)
(* and then at the places qs.                                              *)
At(p) == plan = <<>> /\ place # <<>> /\ place[1] = p
Go(ts, qs) == /\ plan' = ts /\ place' = qs
              /\ UNCHANGED <<code, spi, chip, got, misread>>
locals == <<cmd_rd_reg, gpu_int, asked, missed>>

(* The id, the interrupts, the backlight, and then the example that was    *)
(* compiled in; without the id main() returns.                             *)
Configure == /\ At("id")
             /\ IF got = {"7C"}
                THEN \E example \in Examples :
                       Go(enable_it_src(Sources) \o enable_it_pin(TRUE)
                          \o read_it_flags \o <<Tr("wr8", "REG_PWM_DUTY")>>,
                          <<example>>)
                ELSE Go(<<>>, <<>>)
             /\ UNCHANGED locals

(* The two macros that draw the balls. *)
PushMacros == <<Tr("wr32", "REG_MACRO_0"), Tr("wr32", "REG_MACRO_1")>>

(* The macros and ft801_api_dl_flush, then the macros for ever. *)
Balls == /\ \/ At("dl") /\ Go(PushMacros \o <<Tr("wrStream", "FT_RAM_DL"),
                                              Tr("wr8", "REG_DLSWAP")>>,
                              <<"balls">>)
            \/ At("balls") /\ Go(PushMacros, <<"balls">>)
         /\ UNCHANGED locals

Cmd == /\ At("cmd") /\ Go(<<>>, <<"flush">>)
       /\ UNCHANGED locals

-----------------------------------------------------------------------------
(* ft801_api_cmd_flush: both offsets are read until they agree. *)
FlushRead == /\ At("flush")
             /\ Go(<<Tr("rd16", "REG_CMD_READ")>>, <<"flushWr">> \o Tail(place))
             /\ UNCHANGED locals
FlushWrite == /\ At("flushWr")
              /\ Go(<<Tr("rd16", "REG_CMD_WRITE")>>, <<"flushCmp">> \o Tail(place))
              /\ cmd_rd_reg' = got
              /\ UNCHANGED <<gpu_int, asked, missed>>
FlushSend ==
  /\ At("flushCmp")
  /\ IF got = cmd_rd_reg
     THEN Go(<<Tr("stream", "FT_RAM_CMD"),
               [Tr("wr16", "REG_CMD_WRITE") EXCEPT !.set = {"lap"} \ got]>>,
             Tail(place))
     ELSE Go(<<>>, <<"flush">> \o Tail(place))
  /\ UNCHANGED locals

-----------------------------------------------------------------------------
(* The calibration: a list is flushed, and when all of it was executed the *)
(* six values are read and shown.  What the chip has pending when gpu_int  *)
(* is cleared will pull no edge any more.                                  *)
Calibrate == /\ At("calibrate") /\ Go(<<>>, <<"flush", "wait">>)
             /\ gpu_int' = 0
             /\ missed' = (Low(regs) /\ ~exti)
             /\ UNCHANGED <<cmd_rd_reg, asked>>

Wait == /\ At("wait") /\ gpu_int = 1
        /\ gpu_int' = 0
        /\ Go(read_it_flags, <<"flags">>)
        /\ UNCHANGED <<cmd_rd_reg, asked, missed>>

(* Faulty: gpu_int is cleared once more when the flags are dealt with. *)
FlagsClear == /\ At("flags")
              /\ IF "CMDEMPTY" \in got
                 THEN Go(Each("rd32", Matrix), <<"flush">>) /\ UNCHANGED locals
                 ELSE /\ Go(<<>>, <<"wait">>)
                      /\ gpu_int' = 0
                      /\ UNCHANGED <<cmd_rd_reg, asked, missed>>

Flags == /\ At("flags")
         /\ IF "CMDEMPTY" \in got THEN Go(Each("rd32", Matrix), <<"flush">>)
                                  ELSE Go(<<>>, <<"wait">>)
         /\ UNCHANGED locals

-----------------------------------------------------------------------------
(* A program that uses the rest of ft801_api.h, in any order. *)
Api == /\ At("api")
       /\ \/ \E b \in BOOLEAN : /\ Go(enable_lcd(b), <<"api">>)
                                /\ asked' = [asked EXCEPT !.lcd = b]
          \/ /\ Go(disable_it_src({"TOUCH"}), <<"api">>)
             /\ asked' = [asked EXCEPT !.src = @ \ {"TOUCH"}]
          \/ Go(enable_it_pin(FALSE), <<"api">>) /\ UNCHANGED asked
          \/ Go(<<Tr("rd8", "REG_GPIO_DIR")>>, <<"enabled?", "api">>)
             /\ UNCHANGED asked
       /\ UNCHANGED <<cmd_rd_reg, gpu_int, missed>>

(* ft801_api_is_enabled: the pin must be an output, and high. *)
is_enabled ==
  \/ /\ At("enabled?")
     /\ Go(IF "disp" \in got THEN <<Tr("rd8", "REG_GPIO")>> ELSE <<>>,
           <<"enabled">> \o Tail(place))
     /\ UNCHANGED locals
  \/ /\ At("enabled")
     /\ Go(<<>>, Tail(place))
     /\ UNCHANGED locals

Main == \/ Begin \/ Step \/ End
        \/ Configure \/ Balls \/ Cmd
        \/ FlushRead \/ FlushWrite \/ FlushSend
        \/ Calibrate \/ Wait \/ Flags
        \/ Api \/ is_enabled

Next == \/ Main \/ ExtiHandler
        \/ Send
        \/ Touch \/ Execute

(* The processor, the SPI and the chip do not stop, and a pending interrupt *)
(* is served.  Nobody has to touch, but a calibration is finished.          *)
Spec == /\ Init /\ [][Next]_vars
        /\ WF_vars(Main) /\ WF_vars(ExtiHandler)
        /\ WF_vars(Send)
        /\ WF_vars(Execute)

-----------------------------------------------------------------------------
(* The variables keep their types. *)
TypeOK == /\ SpiTypeOK
          /\ got \in UNION {SUBSET Bits[r] : r \in Readable} /\ gpu_int \in 0..1
          /\ regs \in [Readable -> SUBSET UNION {Bits[r] : r \in Readable}]
          /\ {misread, missed, exti} \subseteq BOOLEAN
          /\ asked.src \subseteq Sources

(* The panel is switched on only when its timing is set and its clock      *)
(* runs, and the clock runs only with all of the timing set.               *)
PanelOn == "disp" \in regs["REG_GPIO_DIR"] \cap regs["REG_GPIO"]
PanelComesLast ==
  /\ PanelOn => "REG_PCLK" \in written
  /\ "REG_PCLK" \in written =>
       {Timing[i] : i \in DOMAIN Timing} \cup {"REG_SWIZZLE", "REG_PCLK_POL"}
         \subseteq written

(* Between two calls the panel and the enabled sources are what was asked  *)
(* for, the other bits of the registers, which are read to be written      *)
(* back, are what they were, and is_enabled answers accordingly, unless a  *)
(* value was misread.                                                      *)
AsAsked == (At("api") \/ At("enabled")) /\ ~misread =>
             /\ PanelOn = asked.lcd
             /\ regs["REG_INT_MASK"] = asked.src
             /\ "rest" \in regs["REG_GPIO_DIR"] \cap regs["REG_GPIO"]
             /\ At("enabled") => ("disp" \in got) = asked.lcd

(* The calibration is left when the chip has finished it: no interrupt is  *)
(* overlooked between gpu_int, the flags and the pin, but for one that was *)
(* pending when gpu_int was cleared at the beginning.                      *)
CalibrationEnds == place = <<"flush", "wait">> ~>
                     place = <<>> \/ missed \/ misread \/ delayed

(* main.c:288, "after calibration display the calibrated registers": they  *)
(* are, once the list with the calibration was flushed.                    *)
RegistersShown == place = <<"flush", "wait">> ~>
                    place = <<>> \/ misread \/ delayed
=============================================================================
