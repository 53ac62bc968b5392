------------------------- MODULE BlockingMainProofs -------------------------
(***************************************************************************)
(* Proofs about BlockingMain, and SpiDriver below it, for every length of  *)
(* the streams, of the display list and of the touch matrix: TypeOK,       *)
(* FrameWhole, ReadInOrder, PanelComesLast and AsAsked.                    *)
(*                                                                         *)
(* Two things are always under way: what is left of a transfer (code) and  *)
(* what is left of main's list of transfers (plan).  The invariant says of *)
(* both what an operation may rely on: either it is the next one, and then *)
(* the flags, registers and values are as it needs them, or the operation  *)
(* in front of it will make them so.                                       *)
(***************************************************************************)
EXTENDS BlockingMain, SequenceTheorems, TLAPS

Ops == {"spe", "txe", "rxne", "busy", "put", "write", "drop", "take", "off"}

(* Operations done only while TXE is set, and those that leave it set. *)
Ready   == {"write", "rxne", "drop", "take"}
Keeping == {"txe", "rxne", "drop", "take"}

(* What is left of a transfer: SPE is set at its beginning only, before a  *)
(* ready operation is a keeping one, and at its end are the two waits and  *)
(* the clearing of SPE.                                                    *)
Shape(c) ==
  /\ c \in Seq(Ops)
  /\ \A i \in 2..Len(c) : c[i] # "spe" /\ (c[i] \in Ready => c[i-1] \in Keeping)
  /\ \A i \in 1..Len(c) : c[i] = "off" <=> i = Len(c)
  /\ Len(c) >= 2 => c[Len(c) - 1] = "busy"
  /\ Len(c) >= 3 => c[Len(c) - 2] = "txe"

(* Bytes are dropped before any is taken, and one is taken when RXNE was   *)
(* seen, after a byte was written for it.                                  *)
Drops(c) == \E i \in 1..Len(c) : c[i] = "drop"
Takes(c) == \E i \in 1..Len(c) : c[i] = "take"
Reading(c) ==
  /\ \A i, j \in 1..Len(c) : c[i] = "drop" /\ c[j] = "take" => i < j
  /\ \A i, j \in 1..Len(c) : c[i] = "drop" /\ c[j] = "drop" => i = j
  /\ \A i \in 1..Len(c) : c[i] = "take" =>
       /\ i > 1 => c[i-1] = "rxne"
       /\ i > 2 => c[i-2] = "txe"
       /\ i > 3 => c[i-3] = "write"
  /\ c # <<>> /\ c[1] = "spe" /\ Takes(c) => Drops(c)

(* In front of the drop are the address, of three bytes, and the dummy     *)
(* byte; rd16 and rd32 also look at RXNE (d = 1).  n bytes are written.    *)
DummyAt(c, n, i, d) ==
  /\ i <= 8 + d /\ (i = 8 + d <=> c[1] = "spe")
  /\ i > 2 + d => c[i-2-d] = "write"
  /\ \A k \in 4+d..6+d : i > k => c[i-k] = "put"
  /\ c[1] # "spe" => /\ i <= 6 + d => n >= 1
                     /\ i <= 5 + d => n >= 2
                     /\ i <= 4 + d => n >= 3
                     /\ i <= 2 + d => n >= 4
Dummy(c, n) ==
  \A i \in 1..Len(c) : c[i] = "drop" => \E d \in 0..1 : DummyAt(c, n, i, d)

Active == code # <<>> /\ code[1] # "spe"
CodeInv == /\ Shape(code) /\ Reading(code) /\ Dummy(code, sent)
           /\ spe \in BOOLEAN /\ (spe <=> Active)
           /\ sent \in Nat
           /\ IF Active THEN sent + Len(code) < Old
                        ELSE sent < Old /\ Len(code) <= Old

(* The bytes written to DR are on their way in order: those the chip has,  *)
(* the one in the shift register, the one in DR.                           *)
FrameInv ==
  /\ frame \in Seq(0..Old-1) /\ dr \in 0..Old-1 /\ txe \in BOOLEAN
  /\ \A i \in 1..Len(frame) : frame[i] = i - 1
  /\ shift = <<>> \/ shift = <<Len(frame)>>
  /\ txe \/ dr = Len(frame) + Len(shift)
  /\ sent = Len(frame) + Len(shift) + (IF txe THEN 0 ELSE 1)
  /\ shift = <<>> => txe
  /\ ~spe => txe /\ shift = <<>>
  /\ Active /\ code[1] \in Ready => txe
  /\ Len(code) = 2 => txe
  /\ Len(code) = 1 => txe /\ shift = <<>>

(* What is received, once the bytes of the address can no longer be:       *)
(* nothing was put into the receive buffer since the drop but bytes of the *)
(* value.                                                                  *)
ReceiveInv ==
  /\ rxne \in BOOLEAN /\ ovr \in {"clear", "set", "read"} /\ rx \in 0..Old
  /\ fresh \in BOOLEAN /\ delayed \in BOOLEAN
  /\ value \in Seq(3..Old-1)
  /\ \A i \in 1..Len(value) : i > 1 => value[i] > value[i-1]
  /\ \A i \in 1..Len(value) : spe => value[i] < Len(frame)
  /\ Active /\ ~Drops(code) /\ Takes(code) =>
       /\ Len(frame) >= 3
       /\ rxne => /\ rx \in 3..Len(frame)-1
                  /\ value # <<>> => rx > value[Len(value)]
  /\ Active /\ code[1] = "take" => rxne

WireInv == CodeInv /\ FrameInv /\ ReceiveInv
-----------------------------------------------------------------------------
(* The registers that are read to be written back. *)
Shared == {"REG_GPIO_DIR", "REG_GPIO", "REG_INT_MASK"}
Writes(t, r) == t.call \in {"wr8", "wr16", "wr32"} /\ t.reg = r

(* What the clock of the panel needs. *)
Setup == {Timing[i] : i \in DOMAIN Timing} \cup {"REG_SWIZZLE", "REG_PCLK_POL"}

(* One transfer, by itself: the bits fit the register; those of the GPIO   *)
(* registers that are not the panel's are kept.                            *)
Calls == {"host_cmd", "stream", "wrStream", "wr8", "wr16", "wr32", "rd8",
          "rd16", "rd32"}
Names ==
  Readable \cup Setup \cup
  {"FT_CLKEXT", "FT_CLK48M", "FT_ACTIVE", "FT_CORERST", "REG_PCLK",
   "REG_CTOUCH_TRANSFORM", "REG_PWM_DUTY", "FT_RAM_DL", "REG_DLSWAP",
   "REG_MACRO_0", "REG_MACRO_1", "FT_RAM_CMD"}
Parts == {"disp", "rest", "CMDEMPTY", "TOUCH", "en", "lap"}
Transfer ==
  {t \in [call : Calls, reg : Names, keep : SUBSET Parts, set : SUBSET Parts] :
     /\ t.reg \in Readable => t.keep \cup t.set \subseteq Bits[t.reg]
     /\ Writes(t, "REG_GPIO_DIR") => "rest" \in t.keep /\ "disp" \in t.set
     /\ Writes(t, "REG_GPIO")     => "rest" \in t.keep}

(* The main thread's list p, with the value g read last, the registers r,  *)
(* those written in w, and what was asked for in a.                        *)
Has(p, n)   == \E i \in 1..Len(p) : Writes(p[i], n)
Before(p, i, n) == \E j \in 1..i-1 : Writes(p[j], n)

(* Before the bits of a register are kept it is read. *)
Fetched(p, g, r) ==
  \A i \in 1..Len(p) :
    p[i].reg \in Shared /\ Writes(p[i], p[i].reg) /\ p[i].keep # {} =>
      IF i = 1 THEN g = r[p[i].reg]
               ELSE p[i-1].call = "rd8" /\ p[i-1].reg = p[i].reg

(* The clock needs its setup, the panel the clock. *)
Ordered(p, w) ==
  \A i \in 1..Len(p) :
    /\ Writes(p[i], "REG_PCLK") =>
         \A n \in Setup : n \in w \/ Before(p, i, n)
    /\ Writes(p[i], "REG_GPIO_DIR") => "REG_PCLK" \in w \/ Before(p, i, "REG_PCLK")

(* The panel's pin and the interrupt mask become what was asked for. *)
Panel(p, r, a) ==
  /\ \A i \in 1..Len(p) : Writes(p[i], "REG_GPIO") =>
       /\ ("disp" \in p[i].set) = a.lcd
       /\ a.lcd \/ "disp" \notin p[i].keep
  /\ Has(p, "REG_GPIO") \/ ("disp" \in r["REG_GPIO"]) = a.lcd
  /\ Has(p, "REG_GPIO_DIR") \/ "disp" \in r["REG_GPIO_DIR"]
Masked(p, r, a, booting) ==
  /\ \A i \in 1..Len(p) : Writes(p[i], "REG_INT_MASK") =>
       \/ p[i].keep = {} /\ p[i].set = a.src
       \/ p[i].set = {} /\ r["REG_INT_MASK"] \cap p[i].keep = a.src
  /\ \A i, j \in 1..Len(p) :
       Writes(p[i], "REG_INT_MASK") /\ Writes(p[j], "REG_INT_MASK") => i = j
  /\ Has(p, "REG_INT_MASK") \/ booting \/ r["REG_INT_MASK"] = a.src

Booting == place = <<>> \/ place[1] = "id"

RegsInv ==
  /\ regs \in [Readable -> SUBSET UNION {Bits[r] : r \in Readable}]
  /\ \A r \in Readable : regs[r] \subseteq Bits[r]
  /\ got \in UNION {SUBSET Bits[r] : r \in Readable}
  /\ answer \in UNION {SUBSET Bits[r] : r \in Readable}
  /\ gpu_int \in 0..1 /\ {misread, missed, exti} \subseteq BOOLEAN
  /\ asked \in [lcd : BOOLEAN, src : SUBSET Sources]
  /\ "rest" \in regs["REG_GPIO_DIR"] /\ "rest" \in regs["REG_GPIO"]

PlanInv ==
  /\ plan \in Seq(Transfer)
  /\ code # <<>> => plan # <<>>
  /\ Fetched(plan, got, regs)
  /\ Ordered(plan, written)
  /\ Panel(plan, regs, asked)
  /\ Masked(plan, regs, asked, Booting)

PanelInv ==
  /\ "REG_PCLK" \in written => Setup \subseteq written
  /\ "disp" \in regs["REG_GPIO_DIR"] => "REG_PCLK" \in written

Places == {"id", "dl", "balls", "cmd", "calibrate", "api", "flush", "flushWr",
           "flushCmp", "wait", "flags", "enabled?", "enabled"}
PlaceInv ==
  /\ place \in Seq(Places)
  /\ \A i \in 2..Len(place) : place[i] \notin {"id", "enabled?", "enabled"}
  /\ place # <<>> =>
       /\ place[1] = "id" => /\ "REG_PCLK" \in written \/ Has(plan, "REG_PCLK")
                             /\ asked.src = Sources
       /\ place[1] = "enabled?" =>
            \/ plan = <<Tr("rd8", "REG_GPIO_DIR")>>
            \/ plan = <<>> /\ got = regs["REG_GPIO_DIR"]
       /\ place[1] = "enabled" =>
            \/ plan = <<Tr("rd8", "REG_GPIO")>>
            \/ plan = <<>> /\ got = regs["REG_GPIO"]

(* The answer of the chip is the register's value. *)
AnswerInv ==
  code # <<>> /\ Reads(plan[1]) =>
    /\ Takes(code) \/ (Active /\ sent >= 5)
    /\ Active /\ ~Drops(code) => sent >= 4
    /\ \A i \in 1..3 : i <= Len(code) /\ code[i] = "take" => sent >= 5
    /\ Active /\ Len(frame) >= 5 /\ plan[1].reg \in Shared
         => answer = regs[plan[1].reg]

IInv == WireInv /\ RegsInv /\ PlanInv /\ PanelInv /\ PlaceInv /\ AnswerInv
-----------------------------------------------------------------------------
(* Two sequences of operations one behind the other. *)
LEMMA Joined ==
  ASSUME NEW a \in Seq(Ops), NEW b \in Seq(Ops)
  PROVE  /\ a \o b \in Seq(Ops) /\ Len(a \o b) = Len(a) + Len(b)
         /\ \A i \in 1..Len(a)+Len(b) :
              (a \o b)[i] = IF i <= Len(a) THEN a[i] ELSE b[i - Len(a)]
BY ConcatProperties

(* The pieces of the transfers. *)
LEMMA Pieces ==
  /\ Enable \in Seq(Ops) /\ Len(Enable) = 1 /\ Enable[1] = "spe"
  /\ Disable \in Seq(Ops) /\ Len(Disable) = 3
  /\ Disable[1] = "txe" /\ Disable[2] = "busy" /\ Disable[3] = "off"
  /\ \A n \in Nat : /\ Put(n) \in Seq(Ops) /\ Len(Put(n)) = n
                    /\ \A i \in 1..n : Put(n)[i] = "put"
  /\ \A n \in {2, 4} :
       /\ ReadBytes(n) \in Seq(Ops) /\ Len(ReadBytes(n)) = 4 * n
       /\ \A k \in 0..n-1 : /\ ReadBytes(n)[4 * k + 1] = "write"
                            /\ ReadBytes(n)[4 * k + 2] = "txe"
                            /\ ReadBytes(n)[4 * k + 3] = "rxne"
                            /\ ReadBytes(n)[4 * k + 4] = "take"
<1>1. /\ Enable \in Seq(Ops) /\ Len(Enable) = 1 /\ Enable[1] = "spe"
      /\ Disable \in Seq(Ops) /\ Len(Disable) = 3
      /\ Disable[1] = "txe" /\ Disable[2] = "busy" /\ Disable[3] = "off"
  BY DEF Enable, Disable, Ops
<1>2. ASSUME NEW n \in Nat
      PROVE  /\ Put(n) \in Seq(Ops) /\ Len(Put(n)) = n
             /\ \A i \in 1..n : Put(n)[i] = "put"
  BY DEF Put, Ops
<1>3. ASSUME NEW n \in {2, 4}
      PROVE  ReadBytes(n) \in Seq(Ops) /\ Len(ReadBytes(n)) = 4 * n
  <2>1. \A i \in 1..4*n : ReadByte[((i - 1) % 4) + 1] \in Ops
    BY DEF ReadByte, Ops
  <2>2. QED
    BY <2>1 DEF ReadBytes
<1>4. ASSUME NEW n \in {2, 4}, NEW k \in 0..n-1
      PROVE  /\ ReadBytes(n)[4 * k + 1] = "write"
             /\ ReadBytes(n)[4 * k + 2] = "txe"
             /\ ReadBytes(n)[4 * k + 3] = "rxne"
             /\ ReadBytes(n)[4 * k + 4] = "take"
  BY DEF ReadBytes, ReadByte
<1>5. QED
  BY <1>1, <1>2, <1>3, <1>4

(* A transfer before its first operation. *)
Fresh(c) == /\ Shape(c) /\ Reading(c) /\ \A n : Dummy(c, n)
            /\ c # <<>> /\ c[1] = "spe" /\ Len(c) <= Old

(* The transfers that only write, and the stream, which waits once more. *)
LEMMA WritesFresh ==
  ASSUME NEW n \in Nat \ {0}, n + 4 <= Old
  PROVE  Fresh(Enable \o Put(n) \o Disable)
<1> DEFINE a == Enable \o Put(n)
           c == a \o Disable
<1>0. /\ Enable \in Seq(Ops) /\ Len(Enable) = 1 /\ Enable[1] = "spe"
      /\ Disable \in Seq(Ops) /\ Len(Disable) = 3
      /\ Disable[1] = "txe" /\ Disable[2] = "busy" /\ Disable[3] = "off"
      /\ Put(n) \in Seq(Ops) /\ Len(Put(n)) = n
      /\ \A i \in 1..n : Put(n)[i] = "put"
  BY Pieces
<1>1. /\ a \in Seq(Ops) /\ Len(a) = Len(Enable) + Len(Put(n))
      /\ \A i \in 1..Len(Enable)+Len(Put(n)) :
           a[i] = IF i <= Len(Enable) THEN Enable[i] ELSE Put(n)[i - Len(Enable)]
  BY <1>0, Joined
<1> HIDE DEF a
<1>2. /\ c \in Seq(Ops) /\ Len(c) = Len(a) + Len(Disable)
      /\ \A i \in 1..Len(a)+Len(Disable) :
           c[i] = IF i <= Len(a) THEN a[i] ELSE Disable[i - Len(a)]
  BY <1>0, <1>1, Joined
<1> HIDE DEF c
<1>3. /\ Len(c) = n + 4 /\ c[1] = "spe"
      /\ \A i \in 2..n+1 : c[i] = "put"
      /\ c[n+2] = "txe" /\ c[n+3] = "busy" /\ c[n+4] = "off"
  <2>1. /\ Len(a) = n + 1 /\ a[1] = "spe" /\ \A i \in 2..n+1 : a[i] = "put"
    BY <1>0, <1>1
  <2>2. QED
    BY <2>1, <1>0, <1>2
<1>4. \A i \in 1..n+4 : \/ i = 1 \/ i \in 2..n+1 \/ i = n+2 \/ i = n+3
                        \/ i = n+4
  OBVIOUS
<1>5. Shape(c)
  BY <1>2, <1>3, <1>4, SMTT(30) DEF Shape, Ready, Keeping
<1>6. ~Drops(c) /\ ~Takes(c)
  BY <1>3, <1>4 DEF Drops, Takes
<1>7. Reading(c) /\ \A k : Dummy(c, k)
  BY <1>6 DEF Reading, Dummy, Drops, Takes
<1>8. c # <<>>
  BY <1>3
<1>9. QED
  BY <1>3, <1>5, <1>7, <1>8 DEF Fresh, c, a

LEMMA StreamFresh == Fresh(spi_write_stream)
<1> DEFINE n == StreamLen
           w == <<"busy">>
           a == Enable \o Put(n)
           b == a \o w
           c == b \o Disable
<1>0. /\ Enable \in Seq(Ops) /\ Len(Enable) = 1 /\ Enable[1] = "spe"
      /\ Disable \in Seq(Ops) /\ Len(Disable) = 3
      /\ Disable[1] = "txe" /\ Disable[2] = "busy" /\ Disable[3] = "off"
      /\ Put(n) \in Seq(Ops) /\ Len(Put(n)) = n
      /\ \A i \in 1..n : Put(n)[i] = "put"
      /\ n \in Nat \ {0}
  BY Pieces, LengthAssumption
<1>W. w \in Seq(Ops) /\ Len(w) = 1 /\ w[1] = "busy"
  BY DEF Ops
<1> HIDE DEF w
<1>1. /\ a \in Seq(Ops) /\ Len(a) = Len(Enable) + Len(Put(n))
      /\ \A i \in 1..Len(Enable)+Len(Put(n)) :
           a[i] = IF i <= Len(Enable) THEN Enable[i] ELSE Put(n)[i - Len(Enable)]
  BY <1>0, Joined
<1> HIDE DEF a
<1>2. /\ b \in Seq(Ops) /\ Len(b) = Len(a) + Len(w)
      /\ \A i \in 1..Len(a)+Len(w) :
           b[i] = IF i <= Len(a) THEN a[i] ELSE w[i - Len(a)]
  BY <1>W, <1>1, Joined
<1> HIDE DEF b
<1>3. /\ c \in Seq(Ops) /\ Len(c) = Len(b) + Len(Disable)
      /\ \A i \in 1..Len(b)+Len(Disable) :
           c[i] = IF i <= Len(b) THEN b[i] ELSE Disable[i - Len(b)]
  BY <1>0, <1>2, Joined
<1> HIDE DEF c
<1>4. /\ Len(a) = n + 1 /\ a[1] = "spe" /\ \A i \in 2..n+1 : a[i] = "put"
  BY <1>0, <1>1
<1>5. /\ Len(b) = n + 2 /\ b[1] = "spe" /\ \A i \in 2..n+1 : b[i] = "put"
      /\ b[n+2] = "busy"
  BY <1>0, <1>W, <1>2, <1>4
<1>6. /\ Len(c) = n + 5 /\ c[1] = "spe" /\ \A i \in 2..n+1 : c[i] = "put"
      /\ c[n+2] = "busy" /\ c[n+3] = "txe" /\ c[n+4] = "busy"
      /\ c[n+5] = "off"
  BY <1>0, <1>3, <1>5
<1>7. \A i \in 1..n+5 : \/ i = 1 \/ i \in 2..n+1 \/ i = n+2 \/ i = n+3
                        \/ i = n+4 \/ i = n+5
  BY <1>0
<1>8. Shape(c)
  <2>0. \A i \in 2..n+5 : c[i] \in {"put", "busy", "txe", "off"}
    BY <1>0, <1>6, <1>7, SMTT(30)
  <2>1. \A i \in 2..n+5 : c[i] # "spe" /\ (c[i] \in Ready => c[i-1] \in Keeping)
    BY <2>0 DEF Ready, Keeping
  <2>2. \A i \in 1..n+5 : c[i] = "off" <=> i = n+5
    BY <1>0, <1>6, <1>7
  <2>3. QED
    BY <1>0, <1>3, <1>6, <2>1, <2>2 DEF Shape
<1>9. ~Drops(c) /\ ~Takes(c)
  BY <1>6, <1>7 DEF Drops, Takes
<1>10. Reading(c) /\ \A k : Dummy(c, k)
  BY <1>9 DEF Reading, Dummy, Drops, Takes
<1>11. c # <<>> /\ Len(c) <= Old
  BY <1>0, <1>6, LengthAssumption DEF Old
<1>12. QED
  BY <1>6, <1>8, <1>10, <1>11 DEF Fresh, spi_write_stream, c, b, a, w

(* The address of a read, operation by operation, and the three reads. *)
LEMMA AddressOf ==
  LET a == Enable \o Put(3) \o <<"txe">>
  IN  /\ a \in Seq(Ops) /\ Len(a) = 5
      /\ a[1] = "spe" /\ a[2] = "put" /\ a[3] = "put" /\ a[4] = "put"
      /\ a[5] = "txe"
<1> DEFINE w == <<"txe">>
           b == Enable \o Put(3)
           a == b \o w
<1>0. /\ Enable \in Seq(Ops) /\ Len(Enable) = 1 /\ Enable[1] = "spe"
      /\ Put(3) \in Seq(Ops) /\ Len(Put(3)) = 3
      /\ Put(3)[1] = "put" /\ Put(3)[2] = "put" /\ Put(3)[3] = "put"
  <2>1. /\ Put(3) \in Seq(Ops) /\ Len(Put(3)) = 3
        /\ \A i \in 1..3 : Put(3)[i] = "put"
    BY Pieces
  <2>2. QED
    BY <2>1, Pieces
<1>W. w \in Seq(Ops) /\ Len(w) = 1 /\ w[1] = "txe"
  BY DEF Ops
<1> HIDE DEF w
<1>1. /\ b \in Seq(Ops) /\ Len(b) = 1 + 3
      /\ \A i \in 1..1+3 : b[i] = IF i <= 1 THEN Enable[i] ELSE Put(3)[i - 1]
  <2>1. /\ b \in Seq(Ops) /\ Len(b) = Len(Enable) + Len(Put(3))
        /\ \A i \in 1..Len(Enable)+Len(Put(3)) :
             b[i] = IF i <= Len(Enable) THEN Enable[i] ELSE Put(3)[i - Len(Enable)]
    BY <1>0, Joined
  <2> HIDE DEF b
  <2>2. QED
    <3>1. Len(Enable) = 1 /\ Len(Put(3)) = 3
      BY <1>0
    <3>2. QED
      BY <2>1, <3>1
<1> HIDE DEF b
<1>2. /\ a \in Seq(Ops) /\ Len(a) = 4 + 1
      /\ \A i \in 1..4+1 : a[i] = IF i <= 4 THEN b[i] ELSE w[i - 4]
  <2>1. /\ a \in Seq(Ops) /\ Len(a) = Len(b) + Len(w)
        /\ \A i \in 1..Len(b)+Len(w) :
             a[i] = IF i <= Len(b) THEN b[i] ELSE w[i - Len(b)]
    BY <1>W, <1>1, Joined
  <2> HIDE DEF a
  <2>2. QED
    <3>1. Len(b) = 4 /\ Len(w) = 1
      BY <1>W, <1>1
    <3>2. QED
      BY <2>1, <3>1
<1> HIDE DEF a
<1>3. /\ Len(b) = 4
      /\ b[1] = "spe" /\ b[2] = "put" /\ b[3] = "put" /\ b[4] = "put"
  BY <1>0, <1>1
<1>4. /\ Len(a) = 5
      /\ a[1] = "spe" /\ a[2] = "put" /\ a[3] = "put" /\ a[4] = "put"
      /\ a[5] = "txe"
  BY <1>W, <1>2, <1>3
<1>5. QED
  BY <1>2, <1>4 DEF a, b, w

LEMMA Rd8Fresh == Fresh(rd8) /\ Takes(rd8)
<1> DEFINE a == Enable \o Put(3) \o <<"txe">>
           m == <<"write", "txe", "drop", "write", "txe", "rxne", "take">>
           b == a \o m
           c == b \o Disable
<1>0. /\ a \in Seq(Ops) /\ Len(a) = 5
      /\ a[1] = "spe" /\ a[2] = "put" /\ a[3] = "put" /\ a[4] = "put"
      /\ a[5] = "txe"
  BY AddressOf
<1> HIDE DEF a
<1>1. /\ m \in Seq(Ops) /\ Len(m) = 7
      /\ m[1] = "write" /\ m[2] = "txe" /\ m[3] = "drop" /\ m[4] = "write"
      /\ m[5] = "txe" /\ m[6] = "rxne" /\ m[7] = "take"
  BY DEF Ops
<1> HIDE DEF m
<1>2. /\ b \in Seq(Ops) /\ Len(b) = 5 + 7
      /\ \A i \in 1..5+7 : b[i] = IF i <= 5 THEN a[i] ELSE m[i - 5]
  <2>1. /\ b \in Seq(Ops) /\ Len(b) = Len(a) + Len(m)
        /\ \A i \in 1..Len(a)+Len(m) :
             b[i] = IF i <= Len(a) THEN a[i] ELSE m[i - Len(a)]
    BY <1>0, <1>1, Joined
  <2> HIDE DEF b
  <2>2. QED
    <3>1. Len(a) = 5 /\ Len(m) = 7
      BY <1>0, <1>1
    <3>2. QED
      BY <2>1, <3>1
<1> HIDE DEF b
<1>3. /\ Len(b) = 12
      /\ b[1] = "spe" /\ b[2] = "put" /\ b[3] = "put" /\ b[4] = "put"
      /\ b[5] = "txe" /\ b[6] = "write" /\ b[7] = "txe" /\ b[8] = "drop"
      /\ b[9] = "write" /\ b[10] = "txe" /\ b[11] = "rxne" /\ b[12] = "take"
  BY <1>0, <1>1, <1>2
<1>4. /\ Disable \in Seq(Ops) /\ Len(Disable) = 3
      /\ Disable[1] = "txe" /\ Disable[2] = "busy" /\ Disable[3] = "off"
  BY Pieces
<1>5. /\ c \in Seq(Ops) /\ Len(c) = 12 + 3
      /\ \A i \in 1..12+3 : c[i] = IF i <= 12 THEN b[i] ELSE Disable[i - 12]
  <2>1. /\ c \in Seq(Ops) /\ Len(c) = Len(b) + Len(Disable)
        /\ \A i \in 1..Len(b)+Len(Disable) :
             c[i] = IF i <= Len(b) THEN b[i] ELSE Disable[i - Len(b)]
    BY <1>2, <1>4, Joined
  <2> HIDE DEF c
  <2>2. QED
    <3>1. Len(b) = 12 /\ Len(Disable) = 3
      BY <1>2, <1>4
    <3>2. QED
      BY <2>1, <3>1
<1> HIDE DEF c
<1>6. /\ Len(c) = 15
      /\ c[1] = "spe" /\ c[2] = "put" /\ c[3] = "put" /\ c[4] = "put"
      /\ c[5] = "txe" /\ c[6] = "write" /\ c[7] = "txe" /\ c[8] = "drop"
      /\ c[9] = "write" /\ c[10] = "txe" /\ c[11] = "rxne" /\ c[12] = "take"
      /\ c[13] = "txe" /\ c[14] = "busy" /\ c[15] = "off"
  BY <1>3, <1>4, <1>5
<1>P. \A i \in 1..15 :
      \/ i = 1 \/ i = 2 \/ i = 3 \/ i = 4 \/ i = 5 \/ i = 6 \/ i = 7
      \/ i = 8 \/ i = 9 \/ i = 10 \/ i = 11 \/ i = 12 \/ i = 13
      \/ i = 14 \/ i = 15
  OBVIOUS
<1>7. Shape(c)
  <2>1. \A i \in 2..15 : c[i] # "spe" /\ (c[i] \in Ready => c[i-1] \in Keeping)
    BY <1>6, <1>P DEF Ready, Keeping
  <2>2. \A i \in 1..15 : c[i] = "off" <=> i = 15
    BY <1>6, <1>P
  <2>3. QED
    BY <1>5, <1>6, <2>1, <2>2 DEF Shape
<1>D. \A i \in 1..15 : c[i] = "drop" => i = 8
  BY <1>6, <1>P
<1>8. Reading(c) /\ Takes(c)
  <2>1. \A i \in 1..15 : c[i] = "take" =>
          i > 8 + 1 /\ c[i-1] = "rxne" /\ c[i-2] = "txe" /\ c[i-3] = "write"
    BY <1>6, <1>P
  <2>2. Takes(c) /\ Drops(c)
    BY <1>6 DEF Takes, Drops
  <2>3. QED
    BY <1>6, <1>D, <2>1, <2>2 DEF Reading
<1>9. \A k : Dummy(c, k)
  <2> SUFFICES ASSUME NEW k, NEW i \in 1..Len(c), c[i] = "drop"
               PROVE  /\ i <= 8 + 0 /\ (i = 8 + 0 <=> c[1] = "spe")
                      /\ i > 2 + 0 => c[i-2-0] = "write"
                      /\ \A j \in 4+0..6+0 : i > j => c[i-j] = "put"
                      /\ c[1] = "spe"
    BY DEF Dummy, DummyAt
  <2>1. i = 8
    BY <1>6, <1>D
  <2>2. QED
    BY <1>6, <2>1
<1>10. c # <<>> /\ Len(c) <= Old
  <2>1. 15 <= Old
    BY LengthAssumption DEF Old
  <2>2. Len(c) = 15
    BY <1>6
  <2> HIDE DEF c
  <2>3. QED
    BY <2>1, <2>2
<1>11. QED
  BY <1>6, <1>7, <1>8, <1>9, <1>10 DEF Fresh, rd8, c, b, m, a

LEMMA Rd16Fresh == Fresh(rd16) /\ Takes(rd16)
<1> DEFINE a == Enable \o Put(3) \o <<"txe">>
           m == <<"write", "txe", "rxne", "drop">>
           b == a \o m
           r == b \o ReadBytes(2)
           c == r \o Disable
<1>0. /\ a \in Seq(Ops) /\ Len(a) = 5
      /\ a[1] = "spe" /\ a[2] = "put" /\ a[3] = "put" /\ a[4] = "put"
      /\ a[5] = "txe"
  BY AddressOf
<1> HIDE DEF a
<1>1. /\ m \in Seq(Ops) /\ Len(m) = 4
      /\ m[1] = "write" /\ m[2] = "txe" /\ m[3] = "rxne" /\ m[4] = "drop"
  BY DEF Ops
<1> HIDE DEF m
<1>2. /\ b \in Seq(Ops) /\ Len(b) = 5 + 4
      /\ \A i \in 1..5+4 : b[i] = IF i <= 5 THEN a[i] ELSE m[i - 5]
  <2>1. /\ b \in Seq(Ops) /\ Len(b) = Len(a) + Len(m)
        /\ \A i \in 1..Len(a)+Len(m) :
             b[i] = IF i <= Len(a) THEN a[i] ELSE m[i - Len(a)]
    BY <1>0, <1>1, Joined
  <2> HIDE DEF b
  <2>2. QED
    <3>1. Len(a) = 5 /\ Len(m) = 4
      BY <1>0, <1>1
    <3>2. QED
      BY <2>1, <3>1
<1> HIDE DEF b
<1>3. /\ Len(b) = 9
      /\ b[1] = "spe" /\ b[2] = "put" /\ b[3] = "put" /\ b[4] = "put"
      /\ b[5] = "txe" /\ b[6] = "write" /\ b[7] = "txe" /\ b[8] = "rxne"
      /\ b[9] = "drop"
  BY <1>0, <1>1, <1>2
<1>4. /\ Disable \in Seq(Ops) /\ Len(Disable) = 3
      /\ Disable[1] = "txe" /\ Disable[2] = "busy" /\ Disable[3] = "off"
      /\ ReadBytes(2) \in Seq(Ops) /\ Len(ReadBytes(2)) = 8
  BY Pieces
<1>5. /\ ReadBytes(2)[1] = "write" /\ ReadBytes(2)[2] = "txe"
      /\ ReadBytes(2)[3] = "rxne" /\ ReadBytes(2)[4] = "take"
      /\ ReadBytes(2)[5] = "write" /\ ReadBytes(2)[6] = "txe"
      /\ ReadBytes(2)[7] = "rxne" /\ ReadBytes(2)[8] = "take"
  BY DEF ReadBytes, ReadByte
<1>6. /\ r \in Seq(Ops) /\ Len(r) = 9 + 8
      /\ \A i \in 1..9+8 : r[i] = IF i <= 9 THEN b[i] ELSE ReadBytes(2)[i - 9]
  <2>1. /\ r \in Seq(Ops) /\ Len(r) = Len(b) + Len(ReadBytes(2))
        /\ \A i \in 1..Len(b)+Len(ReadBytes(2)) :
             r[i] = IF i <= Len(b) THEN b[i] ELSE ReadBytes(2)[i - Len(b)]
    BY <1>2, <1>4, Joined
  <2> HIDE DEF r
  <2>2. QED
    <3>1. Len(b) = 9 /\ Len(ReadBytes(2)) = 8
      BY <1>2, <1>4
    <3>2. QED
      BY <2>1, <3>1
<1> HIDE DEF r
<1>7. /\ Len(r) = 17
      /\ r[1] = "spe" /\ r[2] = "put" /\ r[3] = "put" /\ r[4] = "put"
      /\ r[5] = "txe" /\ r[6] = "write" /\ r[7] = "txe" /\ r[8] = "rxne"
      /\ r[9] = "drop" /\ r[10] = "write" /\ r[11] = "txe" /\ r[12] = "rxne"
      /\ r[13] = "take" /\ r[14] = "write" /\ r[15] = "txe" /\ r[16] = "rxne"
      /\ r[17] = "take"
  <2>1. /\ Len(r) = 17
        /\ \A i \in 1..9 : r[i] = b[i]
        /\ \A i \in 1..8 : r[9 + i] = ReadBytes(2)[i]
    BY <1>6
  <2>2. /\ r[1] = "spe" /\ r[2] = "put" /\ r[3] = "put" /\ r[4] = "put"
        /\ r[5] = "txe" /\ r[6] = "write" /\ r[7] = "txe" /\ r[8] = "rxne"
        /\ r[9] = "drop"
    BY <1>3, <2>1
  <2>3. /\ r[10] = "write" /\ r[11] = "txe" /\ r[12] = "rxne"
        /\ r[13] = "take" /\ r[14] = "write" /\ r[15] = "txe"
        /\ r[16] = "rxne" /\ r[17] = "take"
    BY <1>5, <2>1
  <2>4. QED
    BY <2>1, <2>2, <2>3
<1>8. /\ c \in Seq(Ops) /\ Len(c) = 17 + 3
      /\ \A i \in 1..17+3 : c[i] = IF i <= 17 THEN r[i] ELSE Disable[i - 17]
  <2>1. /\ c \in Seq(Ops) /\ Len(c) = Len(r) + Len(Disable)
        /\ \A i \in 1..Len(r)+Len(Disable) :
             c[i] = IF i <= Len(r) THEN r[i] ELSE Disable[i - Len(r)]
    BY <1>4, <1>6, Joined
  <2> HIDE DEF c
  <2>2. QED
    <3>1. Len(r) = 17 /\ Len(Disable) = 3
      BY <1>4, <1>6
    <3>2. QED
      BY <2>1, <3>1
<1> HIDE DEF c
<1>9. /\ Len(c) = 20
      /\ c[1] = "spe" /\ c[2] = "put" /\ c[3] = "put" /\ c[4] = "put"
      /\ c[5] = "txe" /\ c[6] = "write" /\ c[7] = "txe" /\ c[8] = "rxne"
      /\ c[9] = "drop" /\ c[10] = "write" /\ c[11] = "txe" /\ c[12] = "rxne"
      /\ c[13] = "take" /\ c[14] = "write" /\ c[15] = "txe" /\ c[16] = "rxne"
      /\ c[17] = "take" /\ c[18] = "txe" /\ c[19] = "busy" /\ c[20] = "off"
  BY <1>4, <1>7, <1>8
<1>P. \A i \in 1..20 :
      \/ i = 1 \/ i = 2 \/ i = 3 \/ i = 4 \/ i = 5 \/ i = 6 \/ i = 7
      \/ i = 8 \/ i = 9 \/ i = 10 \/ i = 11 \/ i = 12 \/ i = 13
      \/ i = 14 \/ i = 15 \/ i = 16 \/ i = 17 \/ i = 18 \/ i = 19
      \/ i = 20
  OBVIOUS
<1>10. Shape(c)
  <2>1. \A i \in 2..20 : c[i] # "spe" /\ (c[i] \in Ready => c[i-1] \in Keeping)
    BY <1>9, <1>P DEF Ready, Keeping
  <2>2. \A i \in 1..20 : c[i] = "off" <=> i = 20
    BY <1>9, <1>P
  <2>3. QED
    BY <1>8, <1>9, <2>1, <2>2 DEF Shape
<1>D. \A i \in 1..20 : c[i] = "drop" => i = 9
  BY <1>9, <1>P
<1>11. Reading(c) /\ Takes(c)
  <2>1. \A i \in 1..20 : c[i] = "take" =>
          i > 9 + 1 /\ c[i-1] = "rxne" /\ c[i-2] = "txe" /\ c[i-3] = "write"
    BY <1>9, <1>P
  <2>2. Takes(c) /\ Drops(c)
    BY <1>9 DEF Takes, Drops
  <2>3. QED
    BY <1>9, <1>D, <2>1, <2>2 DEF Reading
<1>12. \A k : Dummy(c, k)
  <2> SUFFICES ASSUME NEW k, NEW i \in 1..Len(c), c[i] = "drop"
               PROVE  /\ i <= 8 + 1 /\ (i = 8 + 1 <=> c[1] = "spe")
                      /\ i > 2 + 1 => c[i-2-1] = "write"
                      /\ \A j \in 4+1..6+1 : i > j => c[i-j] = "put"
                      /\ c[1] = "spe"
    BY DEF Dummy, DummyAt
  <2>1. i = 9
    BY <1>9, <1>D
  <2>2. QED
    BY <1>9, <2>1
<1>13. c # <<>> /\ Len(c) <= Old
  <2>1. 20 <= Old
    BY LengthAssumption DEF Old
  <2>2. Len(c) = 20
    BY <1>9
  <2> HIDE DEF c
  <2>3. QED
    BY <2>1, <2>2
<1>14. QED
  BY <1>9, <1>10, <1>11, <1>12, <1>13 DEF Fresh, rd16, rd, c, r, b, m, a

LEMMA Rd32Fresh == Fresh(rd32) /\ Takes(rd32)
<1> DEFINE a == Enable \o Put(3) \o <<"txe">>
           m == <<"write", "txe", "rxne", "drop">>
           b == a \o m
           r == b \o ReadBytes(4)
           c == r \o Disable
<1>0. /\ a \in Seq(Ops) /\ Len(a) = 5
      /\ a[1] = "spe" /\ a[2] = "put" /\ a[3] = "put" /\ a[4] = "put"
      /\ a[5] = "txe"
  BY AddressOf
<1> HIDE DEF a
<1>1. /\ m \in Seq(Ops) /\ Len(m) = 4
      /\ m[1] = "write" /\ m[2] = "txe" /\ m[3] = "rxne" /\ m[4] = "drop"
  BY DEF Ops
<1> HIDE DEF m
<1>2. /\ b \in Seq(Ops) /\ Len(b) = 5 + 4
      /\ \A i \in 1..5+4 : b[i] = IF i <= 5 THEN a[i] ELSE m[i - 5]
  <2>1. /\ b \in Seq(Ops) /\ Len(b) = Len(a) + Len(m)
        /\ \A i \in 1..Len(a)+Len(m) :
             b[i] = IF i <= Len(a) THEN a[i] ELSE m[i - Len(a)]
    BY <1>0, <1>1, Joined
  <2> HIDE DEF b
  <2>2. QED
    <3>1. Len(a) = 5 /\ Len(m) = 4
      BY <1>0, <1>1
    <3>2. QED
      BY <2>1, <3>1
<1> HIDE DEF b
<1>3. /\ Len(b) = 9
      /\ b[1] = "spe" /\ b[2] = "put" /\ b[3] = "put" /\ b[4] = "put"
      /\ b[5] = "txe" /\ b[6] = "write" /\ b[7] = "txe" /\ b[8] = "rxne"
      /\ b[9] = "drop"
  BY <1>0, <1>1, <1>2
<1>4. /\ Disable \in Seq(Ops) /\ Len(Disable) = 3
      /\ Disable[1] = "txe" /\ Disable[2] = "busy" /\ Disable[3] = "off"
      /\ ReadBytes(4) \in Seq(Ops) /\ Len(ReadBytes(4)) = 16
  BY Pieces
<1>5. /\ ReadBytes(4)[1] = "write" /\ ReadBytes(4)[2] = "txe"
      /\ ReadBytes(4)[3] = "rxne" /\ ReadBytes(4)[4] = "take"
      /\ ReadBytes(4)[5] = "write" /\ ReadBytes(4)[6] = "txe"
      /\ ReadBytes(4)[7] = "rxne" /\ ReadBytes(4)[8] = "take"
      /\ ReadBytes(4)[9] = "write" /\ ReadBytes(4)[10] = "txe"
      /\ ReadBytes(4)[11] = "rxne" /\ ReadBytes(4)[12] = "take"
      /\ ReadBytes(4)[13] = "write" /\ ReadBytes(4)[14] = "txe"
      /\ ReadBytes(4)[15] = "rxne" /\ ReadBytes(4)[16] = "take"
  BY DEF ReadBytes, ReadByte
<1>6. /\ r \in Seq(Ops) /\ Len(r) = 9 + 16
      /\ \A i \in 1..9+16 : r[i] = IF i <= 9 THEN b[i] ELSE ReadBytes(4)[i - 9]
  <2>1. /\ r \in Seq(Ops) /\ Len(r) = Len(b) + Len(ReadBytes(4))
        /\ \A i \in 1..Len(b)+Len(ReadBytes(4)) :
             r[i] = IF i <= Len(b) THEN b[i] ELSE ReadBytes(4)[i - Len(b)]
    BY <1>2, <1>4, Joined
  <2> HIDE DEF r
  <2>2. QED
    <3>1. Len(b) = 9 /\ Len(ReadBytes(4)) = 16
      BY <1>2, <1>4
    <3>2. QED
      BY <2>1, <3>1
<1> HIDE DEF r
<1>7. /\ Len(r) = 25
      /\ r[1] = "spe" /\ r[2] = "put" /\ r[3] = "put" /\ r[4] = "put"
      /\ r[5] = "txe" /\ r[6] = "write" /\ r[7] = "txe" /\ r[8] = "rxne"
      /\ r[9] = "drop" /\ r[10] = "write" /\ r[11] = "txe" /\ r[12] = "rxne"
      /\ r[13] = "take" /\ r[14] = "write" /\ r[15] = "txe" /\ r[16] = "rxne"
      /\ r[17] = "take" /\ r[18] = "write" /\ r[19] = "txe" /\ r[20] = "rxne"
      /\ r[21] = "take" /\ r[22] = "write" /\ r[23] = "txe" /\ r[24] = "rxne"
      /\ r[25] = "take"
  <2>1. /\ Len(r) = 25
        /\ \A i \in 1..9 : r[i] = b[i]
        /\ \A i \in 1..16 : r[9 + i] = ReadBytes(4)[i]
    BY <1>6
  <2>2. /\ r[1] = "spe" /\ r[2] = "put" /\ r[3] = "put" /\ r[4] = "put"
        /\ r[5] = "txe" /\ r[6] = "write" /\ r[7] = "txe" /\ r[8] = "rxne"
        /\ r[9] = "drop"
    BY <1>3, <2>1
  <2>3. /\ r[10] = "write" /\ r[11] = "txe" /\ r[12] = "rxne"
        /\ r[13] = "take" /\ r[14] = "write" /\ r[15] = "txe"
        /\ r[16] = "rxne" /\ r[17] = "take" /\ r[18] = "write"
        /\ r[19] = "txe" /\ r[20] = "rxne" /\ r[21] = "take"
        /\ r[22] = "write" /\ r[23] = "txe" /\ r[24] = "rxne"
        /\ r[25] = "take"
    BY <1>5, <2>1
  <2>4. QED
    BY <2>1, <2>2, <2>3
<1>8. /\ c \in Seq(Ops) /\ Len(c) = 25 + 3
      /\ \A i \in 1..25+3 : c[i] = IF i <= 25 THEN r[i] ELSE Disable[i - 25]
  <2>1. /\ c \in Seq(Ops) /\ Len(c) = Len(r) + Len(Disable)
        /\ \A i \in 1..Len(r)+Len(Disable) :
             c[i] = IF i <= Len(r) THEN r[i] ELSE Disable[i - Len(r)]
    BY <1>4, <1>6, Joined
  <2> HIDE DEF c
  <2>2. QED
    <3>1. Len(r) = 25 /\ Len(Disable) = 3
      BY <1>4, <1>6
    <3>2. QED
      BY <2>1, <3>1
<1> HIDE DEF c
<1>9. /\ Len(c) = 28
      /\ c[1] = "spe" /\ c[2] = "put" /\ c[3] = "put" /\ c[4] = "put"
      /\ c[5] = "txe" /\ c[6] = "write" /\ c[7] = "txe" /\ c[8] = "rxne"
      /\ c[9] = "drop" /\ c[10] = "write" /\ c[11] = "txe" /\ c[12] = "rxne"
      /\ c[13] = "take" /\ c[14] = "write" /\ c[15] = "txe" /\ c[16] = "rxne"
      /\ c[17] = "take" /\ c[18] = "write" /\ c[19] = "txe" /\ c[20] = "rxne"
      /\ c[21] = "take" /\ c[22] = "write" /\ c[23] = "txe" /\ c[24] = "rxne"
      /\ c[25] = "take" /\ c[26] = "txe" /\ c[27] = "busy" /\ c[28] = "off"
  BY <1>4, <1>7, <1>8
<1>P. \A i \in 1..28 :
      \/ i = 1 \/ i = 2 \/ i = 3 \/ i = 4 \/ i = 5 \/ i = 6 \/ i = 7
      \/ i = 8 \/ i = 9 \/ i = 10 \/ i = 11 \/ i = 12 \/ i = 13
      \/ i = 14 \/ i = 15 \/ i = 16 \/ i = 17 \/ i = 18 \/ i = 19
      \/ i = 20 \/ i = 21 \/ i = 22 \/ i = 23 \/ i = 24 \/ i = 25
      \/ i = 26 \/ i = 27 \/ i = 28
  OBVIOUS
<1>10. Shape(c)
  <2>1. \A i \in 2..28 : c[i] # "spe" /\ (c[i] \in Ready => c[i-1] \in Keeping)
    BY <1>9, <1>P DEF Ready, Keeping
  <2>2. \A i \in 1..28 : c[i] = "off" <=> i = 28
    BY <1>9, <1>P
  <2>3. QED
    BY <1>8, <1>9, <2>1, <2>2 DEF Shape
<1>D. \A i \in 1..28 : c[i] = "drop" => i = 9
  BY <1>9, <1>P
<1>11. Reading(c) /\ Takes(c)
  <2>1. \A i \in 1..28 : c[i] = "take" =>
          i > 9 + 1 /\ c[i-1] = "rxne" /\ c[i-2] = "txe" /\ c[i-3] = "write"
    BY <1>9, <1>P
  <2>2. Takes(c) /\ Drops(c)
    BY <1>9 DEF Takes, Drops
  <2>3. QED
    BY <1>9, <1>D, <2>1, <2>2 DEF Reading
<1>12. \A k : Dummy(c, k)
  <2> SUFFICES ASSUME NEW k, NEW i \in 1..Len(c), c[i] = "drop"
               PROVE  /\ i <= 8 + 1 /\ (i = 8 + 1 <=> c[1] = "spe")
                      /\ i > 2 + 1 => c[i-2-1] = "write"
                      /\ \A j \in 4+1..6+1 : i > j => c[i-j] = "put"
                      /\ c[1] = "spe"
    BY DEF Dummy, DummyAt
  <2>1. i = 9
    BY <1>9, <1>D
  <2>2. QED
    BY <1>9, <2>1
<1>13. c # <<>> /\ Len(c) <= Old
  <2>1. 28 <= Old
    BY LengthAssumption DEF Old
  <2>2. Len(c) = 28
    BY <1>9
  <2> HIDE DEF c
  <2>3. QED
    BY <2>1, <2>2
<1>14. QED
  BY <1>9, <1>10, <1>11, <1>12, <1>13 DEF Fresh, rd32, rd, c, r, b, m, a

(* Every transfer begins like one, and a read takes bytes. *)
LEMMA AllFresh ==
  ASSUME NEW name \in Calls
  PROVE  /\ Fresh(Transfers[name])
         /\ name \in {"rd8", "rd16", "rd32"} => Takes(Transfers[name])
<1>1. Fresh(host_cmd)
  <2>1. 3 \in Nat \ {0} /\ 3 + 4 <= Old
    BY LengthAssumption DEF Old
  <2>2. QED
    BY <2>1, WritesFresh DEF host_cmd
<1>2. ASSUME NEW n \in {DlLen, 1, 2, 4}
      PROVE  Fresh(mem_wr(n))
  <2>1. 3 + n \in Nat \ {0} /\ 3 + n + 4 <= Old
    BY LengthAssumption DEF Old
  <2>2. QED
    BY <2>1, WritesFresh DEF mem_wr
<1>3. QED
  BY <1>1, <1>2, StreamFresh, Rd8Fresh, Rd16Fresh, Rd32Fresh
     DEF Transfers, Calls

(* What an operation leaves of a transfer. *)
LEMMA Rest ==
  ASSUME NEW c, Shape(c), c # <<>>
  PROVE  LET r == Tail(c)
         IN  /\ Len(c) \in Nat \ {0} /\ Len(r) \in Nat /\ Len(c) = Len(r) + 1
             /\ \A i \in 1..Len(r) : r[i] = c[i + 1]
             /\ \A i \in 1..Len(r) : r[i] # "spe"
             /\ r = <<>> <=> Len(r) = 0
             /\ Head(c) = c[1] /\ c[1] \in Ops
             /\ Shape(r)
<1> DEFINE r == Tail(c)
<1>1. /\ c \in Seq(Ops) /\ Len(c) \in Nat \ {0} /\ Head(c) = c[1]
      /\ r \in Seq(Ops) /\ Len(r) \in Nat /\ Len(c) = Len(r) + 1
      /\ \A i \in 1..Len(r) : r[i] = c[i + 1]
      /\ r = <<>> <=> Len(r) = 0
  <2>1. c \in Seq(Ops)
    BY DEF Shape
  <2>2. /\ r \in Seq(Ops) /\ Len(r) \in Nat /\ Len(c) = Len(r) + 1
        /\ \A i \in 1..Len(r) : r[i] = c[i + 1]
    BY <2>1, HeadTailProperties
  <2>3. Len(c) \in Nat \ {0} /\ Head(c) = c[1]
    BY <2>1
  <2>4. r = <<>> <=> Len(r) = 0
    BY <2>2, EmptySeq
  <2>5. QED
    BY <2>1, <2>2, <2>3, <2>4
<1> HIDE DEF r
<1>2. \A i \in 1..Len(r) : i + 1 \in 2..Len(c) /\ r[i] # "spe"
  BY <1>1 DEF Shape
<1>3. Shape(r)
  <2>1. \A i \in 2..Len(r) : r[i] \in Ready => r[i-1] \in Keeping
    <3> SUFFICES ASSUME NEW i \in 2..Len(r), r[i] \in Ready
                 PROVE  r[i-1] \in Keeping
      OBVIOUS
    <3>1. i + 1 \in 2..Len(c) /\ r[i] = c[i + 1] /\ r[i-1] = c[(i + 1) - 1]
      BY <1>1
    <3>2. QED
      BY <3>1 DEF Shape
  <2>2. \A i \in 1..Len(r) : r[i] = "off" <=> i = Len(r)
    BY <1>1 DEF Shape
  <2>3. /\ Len(r) >= 2 => r[Len(r) - 1] = "busy"
        /\ Len(r) >= 3 => r[Len(r) - 2] = "txe"
    BY <1>1, SMTT(30) DEF Shape
  <2>4. QED
    BY <1>1, <1>2, <2>1, <2>2, <2>3 DEF Shape
<1>4. c[1] \in Ops
  BY <1>1
<1>5. QED
  BY <1>1, <1>2, <1>3, <1>4 DEF r

LEMMA RestReading ==
  ASSUME NEW c, Shape(c), Reading(c), c # <<>>
  PROVE  /\ Reading(Tail(c))
         /\ Drops(Tail(c)) => Drops(c)
         /\ Takes(Tail(c)) => Takes(c)
         /\ c[1] # "drop" /\ Drops(c) => Drops(Tail(c))
         /\ c[1] # "take" /\ Takes(c) => Takes(Tail(c))
         /\ c[1] = "take" => Takes(c) /\ ~Drops(c)
<1> DEFINE r == Tail(c)
<1>1. /\ Len(c) \in Nat \ {0} /\ Len(r) \in Nat /\ Len(c) = Len(r) + 1
      /\ \A i \in 1..Len(r) : r[i] = c[i + 1]
      /\ \A i \in 1..Len(r) : r[i] # "spe"
      /\ r = <<>> <=> Len(r) = 0
  BY Rest
<1> HIDE DEF r
<1>2. \A i \in 1..Len(r) : i + 1 \in 1..Len(c)
  BY <1>1
<1>3. \A i \in 2..Len(c) : i - 1 \in 1..Len(r) /\ r[i-1] = c[i]
  BY <1>1
<1>4. (Drops(r) => Drops(c)) /\ (Takes(r) => Takes(c))
  BY <1>1, <1>2 DEF Drops, Takes
<1>5. /\ c[1] # "drop" /\ Drops(c) => Drops(r)
      /\ c[1] # "take" /\ Takes(c) => Takes(r)
  <2>1. \A i \in 1..Len(c) : i = 1 \/ i \in 2..Len(c)
    BY <1>1
  <2>2. QED
    BY <1>3, <2>1 DEF Drops, Takes
<1>6. c[1] = "take" => Takes(c) /\ ~Drops(c)
  <2>1. 1 \in 1..Len(c)
    BY <1>1
  <2>2. QED
    BY <1>1, <2>1 DEF Reading, Drops, Takes
<1>7. Reading(r)
  <2>1. \A i, j \in 1..Len(r) : r[i] = "drop" /\ r[j] = "take" => i < j
    <3> SUFFICES ASSUME NEW i \in 1..Len(r), NEW j \in 1..Len(r),
                        r[i] = "drop", r[j] = "take"
                 PROVE  i < j
      OBVIOUS
    <3>1. c[i+1] = "drop" /\ c[j+1] = "take"
      BY <1>1
    <3>2. i + 1 < j + 1
      BY <1>2, <3>1 DEF Reading
    <3>3. QED
      BY <3>2
  <2>2. \A i, j \in 1..Len(r) : r[i] = "drop" /\ r[j] = "drop" => i = j
    <3> SUFFICES ASSUME NEW i \in 1..Len(r), NEW j \in 1..Len(r),
                        r[i] = "drop", r[j] = "drop"
                 PROVE  i = j
      OBVIOUS
    <3>1. c[i+1] = "drop" /\ c[j+1] = "drop"
      BY <1>1
    <3>2. i + 1 = j + 1
      BY <1>2, <3>1 DEF Reading
    <3>3. QED
      BY <3>2
  <2>3. ASSUME NEW i \in 1..Len(r), r[i] = "take"
        PROVE  /\ i > 1 => r[i-1] = "rxne"
               /\ i > 2 => r[i-2] = "txe"
               /\ i > 3 => r[i-3] = "write"
    <3>1. c[i+1] = "take" /\ i + 1 \in 1..Len(c)
      BY <1>1, <1>2, <2>3
    <3>2. /\ i + 1 > 1 => c[(i+1)-1] = "rxne"
          /\ i + 1 > 2 => c[(i+1)-2] = "txe"
          /\ i + 1 > 3 => c[(i+1)-3] = "write"
      BY <3>1 DEF Reading
    <3>3. /\ i > 1 => r[i-1] = c[(i+1)-1]
          /\ i > 2 => r[i-2] = c[(i+1)-2]
          /\ i > 3 => r[i-3] = c[(i+1)-3]
      <4>1. \A k \in 1..3 : i > k =>
              /\ i - k \in 1..Len(r) /\ (i - k) + 1 = (i + 1) - k
              /\ r[i-k] = c[(i - k) + 1]
        BY <1>1
      <4>2. QED
        BY <4>1
    <3>4. QED
      BY <3>2, <3>3
  <2>4. r # <<>> => r[1] # "spe"
    BY <1>1
  <2>5. QED
    BY <2>1, <2>2, <2>3, <2>4 DEF Reading
<1>8. QED
  BY <1>4, <1>5, <1>6, <1>7 DEF r

LEMMA RestDummy ==
  ASSUME NEW c, NEW n \in Nat, NEW k \in Nat, Shape(c), Dummy(c, n), c # <<>>,
         c[1] # "spe" => k >= n, c[1] \in {"put", "write"} => k = n + 1
  PROVE  Dummy(Tail(c), k) /\ (c[1] = "drop" => n >= 4)
<1> DEFINE r == Tail(c)
<1>1. /\ Len(c) \in Nat \ {0} /\ Len(r) \in Nat /\ Len(c) = Len(r) + 1
      /\ \A i \in 1..Len(r) : r[i] = c[i + 1]
      /\ \A i \in 1..Len(r) : r[i] # "spe"
  BY Rest
<1> HIDE DEF r
<1>2. ASSUME NEW i \in 1..Len(r), r[i] = "drop"
      PROVE  \E d \in 0..1 : DummyAt(r, k, i, d)
  <2>1. i + 1 \in 1..Len(c) /\ c[i + 1] = "drop"
    BY <1>1, <1>2
  <2>2. PICK d \in 0..1 :
          /\ i + 1 <= 8 + d /\ (i + 1 = 8 + d <=> c[1] = "spe")
          /\ i + 1 > 2 + d => c[(i+1)-2-d] = "write"
          /\ \A j \in 4+d..6+d : i + 1 > j => c[(i+1)-j] = "put"
          /\ c[1] # "spe" => /\ i + 1 <= 6 + d => n >= 1
                             /\ i + 1 <= 5 + d => n >= 2
                             /\ i + 1 <= 4 + d => n >= 3
                             /\ i + 1 <= 2 + d => n >= 4
    BY <2>1 DEF Dummy, DummyAt
  <2>3. i > 2 + d => r[i-2-d] = "write"
    BY <1>1, <2>2
  <2>4. ASSUME NEW j \in 4+d..6+d, i > j
        PROVE  r[i-j] = "put"
    <3>1. i - j \in 1..Len(r) /\ r[i-j] = c[(i - j) + 1] /\ (i - j) + 1 = (i+1)-j
      BY <1>1, <2>4
    <3>2. QED
      BY <2>2, <2>4, <3>1
  <2>5. r[1] # "spe" /\ i # 8 + d
    BY <1>1, <2>2
  <2>6. /\ i = 6 + d => c[1] = "put"
        /\ i = 5 + d => c[1] = "put"
        /\ i = 4 + d => c[1] = "put"
        /\ i = 2 + d => c[1] = "write"
    <3>1. /\ i = 6 + d => 6 + d \in 4+d..6+d /\ i + 1 > 6 + d /\ (i+1) - (6+d) = 1
          /\ i = 5 + d => 5 + d \in 4+d..6+d /\ i + 1 > 5 + d /\ (i+1) - (5+d) = 1
          /\ i = 4 + d => 4 + d \in 4+d..6+d /\ i + 1 > 4 + d /\ (i+1) - (4+d) = 1
          /\ i = 2 + d => i + 1 > 2 + d /\ (i+1)-2-d = 1
      OBVIOUS
    <3>2. QED
      BY <2>2, <3>1
  <2>7. /\ i <= 6 + d => k >= 1
        /\ i <= 5 + d => k >= 2
        /\ i <= 4 + d => k >= 3
        /\ i <= 2 + d => k >= 4
    <3>1. c[1] = "spe" => i = 7 + d
      BY <2>2
    <3>2. CASE c[1] # "spe"
      BY <2>2, <2>6, <3>2
    <3>3. QED
      BY <3>1, <3>2
  <2>8. i <= 8 + d /\ ~(i = 8 + d)
    BY <2>2, <2>5
  <2>9. DummyAt(r, k, i, d)
    BY <2>3, <2>4, <2>5, <2>7, <2>8 DEF DummyAt
  <2>10. QED
    BY <2>9
<1>3. ASSUME c[1] = "drop"
      PROVE  n >= 4
  <2>1. 1 \in 1..Len(c)
    BY <1>1
  <2>2. QED
    BY <1>3, <2>1 DEF Dummy, DummyAt
<1>4. Dummy(r, k)
  BY <1>2 DEF Dummy
<1>5. QED
  BY <1>3, <1>4 DEF r
-----------------------------------------------------------------------------
(* The transfer under way: what one operation leaves of CodeInv. *)
LEMMA Operation ==
  ASSUME CodeInv, code # <<>>, code' = Tail(code),
         spe' = (code[1] # "off"),
         sent' = IF code[1] = "spe" THEN 0
                 ELSE IF code[1] \in {"put", "write"} THEN sent + 1 ELSE sent
  PROVE  /\ CodeInv' /\ (Active' <=> code[1] # "off")
         /\ Drops(code') => Drops(code)
         /\ Takes(code') => Takes(code)
         /\ code[1] # "drop" /\ Drops(code) => Drops(code')
         /\ code[1] # "take" /\ Takes(code) => Takes(code')
         /\ code[1] = "take" => Takes(code) /\ ~Drops(code)
         /\ code[1] = "drop" => sent >= 4
         /\ Len(code) \in Nat \ {0} /\ Len(code') \in Nat /\ Len(code) = Len(code') + 1
         /\ \A i \in 1..Len(code') : code'[i] = code[i + 1]
         /\ code[1] = "off" <=> Len(code) = 1
         /\ Head(code) = code[1]
<1>1. /\ Shape(code) /\ Reading(code) /\ Dummy(code, sent) /\ sent \in Nat
      /\ IF Active THEN sent + Len(code) < Old
                   ELSE sent < Old /\ Len(code) <= Old
  BY DEF CodeInv
<1>2. /\ Len(code) \in Nat \ {0} /\ Len(code') \in Nat /\ Len(code) = Len(code') + 1
      /\ \A i \in 1..Len(code') : code'[i] = code[i + 1]
      /\ \A i \in 1..Len(code') : code'[i] # "spe"
      /\ code' = <<>> <=> Len(code') = 0
      /\ Head(code) = code[1]
      /\ Shape(code')
  BY <1>1, Rest
<1>3. /\ Reading(code')
      /\ Drops(code') => Drops(code)
      /\ Takes(code') => Takes(code)
      /\ code[1] # "drop" /\ Drops(code) => Drops(code')
      /\ code[1] # "take" /\ Takes(code) => Takes(code')
      /\ code[1] = "take" => Takes(code) /\ ~Drops(code)
  BY <1>1, RestReading
<1>4. sent' \in Nat
  BY <1>1
<1>5. /\ code[1] # "spe" => sent' >= sent
      /\ code[1] \in {"put", "write"} => sent' = sent + 1
  BY <1>1
<1>6. Dummy(code', sent') /\ (code[1] = "drop" => sent >= 4)
  <2>1. ASSUME NEW k \in Nat, k = sent'
        PROVE  Dummy(Tail(code), k) /\ (code[1] = "drop" => sent >= 4)
    BY <1>1, <1>5, <2>1, RestDummy
  <2>2. QED
    BY <1>4, <2>1
<1>7. code[1] = "off" <=> Len(code) = 1
  <2>1. 1 \in 1..Len(code)
    BY <1>2
  <2>2. code[1] = "off" <=> 1 = Len(code)
    BY <1>1, <2>1 DEF Shape
  <2>3. QED
    BY <2>2
<1>8. Active' <=> code[1] # "off"
  <2>1. Active' <=> Len(code') # 0
    <3>1. Len(code') # 0 => 1 \in 1..Len(code')
      BY <1>2
    <3>2. QED
      BY <1>2, <3>1 DEF Active
  <2>2. QED
    BY <1>2, <1>7, <2>1
<1>9. IF Active' THEN sent' + Len(code') < Old
                 ELSE sent' < Old /\ Len(code') <= Old
  <2>1. CASE code[1] = "spe"
    <3>1. Len(code) <= Old /\ ~Active
      BY <1>1, <2>1 DEF Active
    <3>2. Old \in Nat /\ sent' = 0
      BY <2>1, LengthAssumption DEF Old
    <3>3. QED
      BY <1>2, <1>8, <2>1, <3>1, <3>2
  <2>2. CASE code[1] # "spe"
    <3>1. sent + Len(code) < Old
      BY <1>1, <2>2 DEF Active
    <3>2. Old \in Nat
      BY LengthAssumption DEF Old
    <3>3. QED
      BY <1>1, <1>2, <1>5, <2>2, <3>1, <3>2
  <2>3. QED
    BY <2>1, <2>2
<1>10. CodeInv'
  BY <1>2, <1>3, <1>4, <1>6, <1>8, <1>9 DEF CodeInv
<1>11. QED
  BY <1>2, <1>3, <1>6, <1>7, <1>8, <1>10

LEMMA SetSpeWire ==
  ASSUME WireInv, SetSpe
  PROVE  /\ WireInv' /\ code # <<>> /\ code[1] = "spe" /\ code' = Tail(code)
         /\ sent' = 0 /\ frame' = <<>>
<1>1. /\ code # <<>> /\ Head(code) = "spe" /\ code' = Tail(code)
      /\ spe' = TRUE /\ sent' = 0 /\ frame' = <<>> /\ value' = <<>>
      /\ rx' = Old /\ fresh' = FALSE
      /\ UNCHANGED <<txe, dr, shift, rxne, ovr, delayed>>
  BY DEF SetSpe, Op, Done
<1>2. CodeInv
  BY DEF WireInv
<1>3. code[1] = "spe" /\ ~spe
  <2>1. Head(code) = code[1]
    BY <1>1, <1>2, Rest DEF CodeInv
  <2>2. QED
    BY <1>1, <1>2, <2>1 DEF CodeInv, Active
<1>4. /\ CodeInv' /\ Active'
      /\ Takes(code') => Takes(code)
      /\ Drops(code) => Drops(code')
      /\ Len(code) \in Nat \ {0} /\ Len(code') \in Nat /\ Len(code) = Len(code') + 1
      /\ \A i \in 1..Len(code') : code'[i] = code[i + 1]
  BY <1>1, <1>2, <1>3, Operation
<1>5. FrameInv'
  <2>1. txe /\ shift = <<>> /\ dr \in 0..Old-1
    BY <1>3 DEF WireInv, FrameInv
  <2>2. QED
    BY <1>1, <2>1 DEF FrameInv
<1>6. ReceiveInv'
  <2>1. Takes(code') => Drops(code')
    BY <1>1, <1>2, <1>3, <1>4 DEF CodeInv, Reading
  <2>2. ~(Active' /\ code'[1] = "take")
    <3> SUFFICES ASSUME Active', code'[1] = "take"
                 PROVE  FALSE
      OBVIOUS
    <3>1. 2 \in 1..Len(code) /\ code[2] = "take"
      BY <1>4 DEF Active, CodeInv, Shape
    <3>2. QED
      BY <1>2, <1>3, <3>1 DEF CodeInv, Reading
  <2>3. rx' \in 0..Old
    BY <1>1, LengthAssumption DEF Old
  <2>4. /\ value' = <<>> /\ rxne' \in BOOLEAN /\ ovr' \in {"clear", "set", "read"}
        /\ fresh' \in BOOLEAN /\ delayed' \in BOOLEAN
    BY <1>1 DEF WireInv, ReceiveInv
  <2>5. value' \in Seq(3..Old-1) /\ Len(value') = 0
    BY <2>4
  <2>6. QED
    BY <2>1, <2>2, <2>3, <2>4, <2>5 DEF ReceiveInv
<1>7. QED
  BY <1>1, <1>3, <1>4, <1>5, <1>6 DEF WireInv

(* The first two operations. *)
LEMMA Front ==
  ASSUME CodeInv, code # <<>>
  PROVE  /\ Head(code) = code[1] /\ Len(code) \in Nat \ {0}
         /\ Active <=> code[1] # "spe"
         /\ spe <=> Active
         /\ Active => sent + Len(code) < Old
         /\ sent \in Nat /\ sent < Old /\ Old \in Nat
         /\ code[1] # "off" => Len(code) >= 2
         /\ code[1] \notin {"off", "busy"} => Len(code) >= 3
         /\ code[1] \notin {"off", "busy", "txe"} => Len(code) >= 4
         /\ code[1] = "off" <=> Len(code) = 1
         /\ Len(code) = 2 => code[1] = "busy"
         /\ Len(code) = 3 => code[1] = "txe"
         /\ Len(code) >= 2 => /\ code[2] \in Ready => code[1] \in Keeping
                              /\ code[2] = "take" => code[1] = "rxne"
<1>1. /\ Shape(code) /\ Reading(code) /\ sent \in Nat /\ (spe <=> Active)
      /\ IF Active THEN sent + Len(code) < Old
                   ELSE sent < Old /\ Len(code) <= Old
  BY DEF CodeInv
<1>2. Head(code) = code[1] /\ Len(code) \in Nat \ {0}
  BY <1>1, Rest
<1>3. Old \in Nat
  BY LengthAssumption DEF Old
<1>4. 1 \in 1..Len(code) /\ (Len(code) >= 2 => 2 \in 2..Len(code))
  BY <1>2
<1>5. Len(code) = 1 <=> code[1] = "off"
  <2>1. code[1] = "off" <=> 1 = Len(code)
    BY <1>1, <1>4 DEF Shape
  <2>2. QED
    BY <2>1
<1>6. /\ Len(code) = 2 => code[1] = "busy"
      /\ Len(code) = 3 => code[1] = "txe"
  <2>1. /\ Len(code) >= 2 => code[Len(code) - 1] = "busy"
        /\ Len(code) >= 3 => code[Len(code) - 2] = "txe"
    BY <1>1 DEF Shape
  <2>2. ASSUME Len(code) = 2 PROVE code[1] = "busy"
    BY <2>1, <2>2
  <2>3. ASSUME Len(code) = 3 PROVE code[1] = "txe"
    BY <2>1, <2>3
  <2>4. QED
    BY <2>2, <2>3
<1>7. Len(code) >= 2 => /\ code[2] \in Ready => code[1] \in Keeping
                        /\ code[2] = "take" => code[1] = "rxne"
  BY <1>1, <1>2, <1>4 DEF Shape, Reading
<1>8. /\ code[1] # "off" => Len(code) >= 2
      /\ code[1] \notin {"off", "busy"} => Len(code) >= 3
      /\ code[1] \notin {"off", "busy", "txe"} => Len(code) >= 4
  <2>1. Len(code) = 1 \/ Len(code) = 2 \/ Len(code) = 3 \/ Len(code) >= 4
    <3>1. \A n \in Nat \ {0} : n = 1 \/ n = 2 \/ n = 3 \/ n >= 4
      OBVIOUS
    <3>2. QED
      BY <1>2, <3>1
  <2>2. CASE Len(code) = 1
    BY <1>5, <2>2
  <2>3. CASE Len(code) = 2
    BY <1>6, <2>3
  <2>4. CASE Len(code) = 3
    BY <1>6, <2>4
  <2>5. CASE Len(code) >= 4
    BY <1>2, <2>5
  <2>6. QED
    BY <2>1, <2>2, <2>3, <2>4, <2>5
<1>9. QED
  BY <1>1, <1>2, <1>3, <1>5, <1>6, <1>7, <1>8 DEF Active

LEMMA PollWire ==
  ASSUME WireInv,
         \/ Poll("txe", txe) \/ Poll("rxne", rxne) \/ Poll("busy", shift = <<>>)
  PROVE  /\ WireInv' /\ code # <<>> /\ code[1] \notin {"spe", "off"}
         /\ UNCHANGED <<sent, frame>>
         /\ \/ code' = code
            \/ code' = Tail(code) /\ code[1] \in {"txe", "rxne", "busy"}
<1>1. PICK name \in {"txe", "rxne", "busy"}, flag \in BOOLEAN :
        /\ Poll(name, flag)
        /\ name = "txe" => flag = txe
        /\ name = "rxne" => flag = rxne
        /\ name = "busy" => flag = (shift = <<>>)
  <2>1. txe \in BOOLEAN /\ rxne \in BOOLEAN /\ (shift = <<>>) \in BOOLEAN
    BY DEF WireInv, FrameInv, ReceiveInv
  <2>2. QED
    BY <2>1
<1>2. /\ code # <<>> /\ Head(code) = name
      /\ code' = IF flag THEN Tail(code) ELSE code
      /\ fresh' = FALSE /\ ovr' = IF ovr = "read" THEN "clear" ELSE ovr
      /\ UNCHANGED <<spe, txe, dr, shift, rxne, rx, sent, frame, value, delayed>>
  BY <1>1 DEF Poll, Op
<1>3. CodeInv
  BY DEF WireInv
<1>4. code[1] = name /\ Active /\ spe
  BY <1>2, <1>3, Front
<1>5. CASE code' = code
  <2>1. CodeInv' /\ (Active' <=> Active) /\ (Drops(code') <=> Drops(code))
        /\ (Takes(code') <=> Takes(code))
    BY <1>2, <1>3, <1>5 DEF CodeInv, Active
  <2>2. FrameInv'
    BY <1>2, <1>5, <2>1 DEF WireInv, FrameInv
  <2>3. ReceiveInv'
    BY <1>2, <1>5, <2>1 DEF WireInv, ReceiveInv
  <2>4. QED
    BY <1>2, <1>4, <1>5, <2>1, <2>2, <2>3 DEF WireInv
<1>6. CASE flag /\ code' = Tail(code)
  <2>1. /\ spe' = (code[1] # "off")
        /\ sent' = IF code[1] = "spe" THEN 0
                   ELSE IF code[1] \in {"put", "write"} THEN sent + 1 ELSE sent
    BY <1>2, <1>3, <1>4, Front
  <2>2. /\ CodeInv' /\ Active'
        /\ Drops(code) => Drops(code')
        /\ Takes(code') => Takes(code)
        /\ Len(code) \in Nat \ {0} /\ Len(code') \in Nat /\ Len(code) = Len(code') + 1
        /\ \A i \in 1..Len(code') : code'[i] = code[i + 1]
    BY <1>2, <1>3, <1>4, <1>6, <2>1, Operation
  <2>3. /\ Len(code') >= 1 /\ code'[1] = code[2]
        /\ code'[1] \in Ready => code[1] \in Keeping
        /\ code'[1] = "take" => code[1] = "rxne"
        /\ Len(code') = 2 => code[1] # "rxne"
        /\ Len(code') = 1 => code[1] = "busy"
        /\ Len(code) = 3 => code[1] = "txe"
        /\ Len(code) = 2 => txe
        /\ code[1] = "rxne" => txe
    <3>1. /\ Len(code) >= 2
          /\ code[1] # "busy" => Len(code) >= 3
          /\ code[1] \notin {"busy", "txe"} => Len(code) >= 4
      BY <1>2, <1>3, <1>4, Front
    <3>2. code'[1] = code[2]
      BY <2>2, <3>1
    <3>3. /\ Len(code) = 2 => txe
          /\ code[1] = "rxne" => txe
      BY <1>4 DEF WireInv, FrameInv, Ready
    <3>4. QED
      <4>1. /\ Len(code') >= 1
            /\ Len(code') = 2 => Len(code) = 3
            /\ Len(code') = 1 => Len(code) = 2
        BY <2>2, <3>1
      <4>2. /\ code[2] \in Ready => code[1] \in Keeping
            /\ code[2] = "take" => code[1] = "rxne"
        BY <1>2, <1>3, <3>1, Front
      <4>3. /\ Len(code) = 2 => code[1] = "busy"
            /\ Len(code) = 3 => code[1] = "txe"
        BY <1>2, <1>3, Front
      <4>4. QED
        BY <3>2, <3>3, <4>1, <4>2, <4>3
  <2>4. FrameInv'
    <3>1. /\ Len(code') = 2 => txe
          /\ Len(code') = 1 => txe /\ shift = <<>>
      <4>1. CASE Len(code') = 2
        <5>1. Len(code) = 3
          BY <2>2, <4>1
        <5>2. txe
          BY <1>1, <1>4, <1>6, <2>3, <5>1
        <5>3. QED
          BY <4>1, <5>2
      <4>2. CASE Len(code') = 1
        <5>1. Len(code) = 2 /\ code[1] = "busy"
          BY <2>2, <2>3, <4>2
        <5>2. QED
          BY <1>1, <1>4, <1>6, <2>3, <4>2, <5>1
      <4>3. QED
        BY <4>1, <4>2
    <3>2. code'[1] \in Ready => txe
      BY <1>1, <1>4, <1>6, <2>3 DEF Keeping
    <3>3. QED
      BY <1>2, <1>4, <3>1, <3>2 DEF WireInv, FrameInv
  <2>5. ReceiveInv'
    <3>1. code'[1] = "take" => rxne
      BY <1>1, <1>4, <1>6, <2>3
    <3>2. ovr' \in {"clear", "set", "read"}
      BY <1>2 DEF WireInv, ReceiveInv
    <3>3. QED
      BY <1>2, <1>4, <2>2, <3>1, <3>2 DEF WireInv, ReceiveInv
  <2>6. QED
    BY <1>2, <1>4, <1>6, <2>2, <2>4, <2>5 DEF WireInv
<1>7. QED
  BY <1>2, <1>5, <1>6

LEMMA WriteWire ==
  ASSUME WireInv, WriteDr
  PROVE  /\ WireInv' /\ code # <<>> /\ code[1] \in {"put", "write"}
         /\ code' = Tail(code) /\ sent' = sent + 1 /\ frame' = frame
<1>1. /\ code # <<>> /\ Head(code) \in {"put", "write"}
      /\ Head(code) = "put" => txe
      /\ code' = Tail(code) /\ sent' = sent + 1 /\ fresh' = TRUE
      /\ IF shift = <<>> /\ spe THEN shift' = <<sent>> /\ UNCHANGED <<dr, txe>>
                         ELSE dr' = sent /\ txe' = FALSE /\ UNCHANGED shift
      /\ ovr' \in {ovr, "clear"}
      /\ UNCHANGED <<spe, rxne, rx, frame, value, delayed>>
  BY DEF WriteDr, Op
<1>2. CodeInv
  BY DEF WireInv
<1>3. code[1] \in {"put", "write"} /\ Active /\ spe
  BY <1>1, <1>2, Front
<1>4. txe
  BY <1>1, <1>2, <1>3, Front DEF WireInv, FrameInv, Ready
<1>5. /\ CodeInv' /\ Active'
      /\ Drops(code) => Drops(code')
      /\ Takes(code') => Takes(code)
      /\ Len(code) \in Nat \ {0} /\ Len(code') \in Nat /\ Len(code) = Len(code') + 1
      /\ \A i \in 1..Len(code') : code'[i] = code[i + 1]
  <2>1. /\ spe' = (code[1] # "off")
        /\ sent' = IF code[1] = "spe" THEN 0
                   ELSE IF code[1] \in {"put", "write"} THEN sent + 1 ELSE sent
    BY <1>1, <1>3
  <2>2. QED
    BY <1>1, <1>2, <1>3, <2>1, Operation
<1>6. /\ Len(code') > 2 /\ code'[1] \notin Ready /\ code'[1] # "take"
  <2>1. Len(code) >= 4 /\ code[2] \notin Ready /\ code[2] # "take"
    <3>1. Len(code) >= 4
      BY <1>1, <1>2, <1>3, Front
    <3>2. code[1] \notin Keeping /\ code[1] # "rxne"
      BY <1>3 DEF Keeping
    <3>3. QED
      BY <1>1, <1>2, <3>1, <3>2, Front
  <2>2. QED
    BY <1>5, <2>1
<1>7. FrameInv'
  <2>1. sent \in 0..Old-1 /\ sent = Len(frame) + Len(shift)
    BY <1>1, <1>2, <1>4, Front DEF WireInv, FrameInv
  <2>2. /\ frame' \in Seq(0..Old-1)
        /\ \A i \in 1..Len(frame') : frame'[i] = i - 1
        /\ shift = <<>> \/ shift = <<Len(frame)>>
        /\ Len(frame) \in Nat
        /\ dr \in 0..Old-1
    BY <1>1 DEF WireInv, FrameInv
  <2>3. /\ dr' \in 0..Old-1 /\ txe' \in BOOLEAN
        /\ shift' = <<Len(frame)>>
        /\ Len(shift') = 1
        /\ txe' \/ dr' = Len(frame) + 1
        /\ sent' = Len(frame) + 1 + (IF txe' THEN 0 ELSE 1)
    <3>1. CASE shift = <<>>
      BY <1>1, <1>3, <1>4, <2>1, <2>2, <3>1
    <3>2. CASE shift # <<>>
      <4>1. shift = <<Len(frame)>> /\ shift' = shift /\ Len(shift) = 1
        BY <1>1, <2>2, <3>2
      <4>2. sent = Len(frame) + 1 /\ dr' = sent /\ txe' = FALSE
        BY <1>1, <2>1, <3>2, <4>1
      <4>3. QED
        BY <1>1, <2>1, <2>2, <4>1, <4>2
    <3>3. QED
      BY <3>1, <3>2
  <2>4. spe' /\ frame' = frame
    BY <1>1, <1>3
  <2>5. shift' # <<>>
    BY <2>3
  <2>6. QED
    <3>1. Len(frame') = Len(frame) /\ Len(frame) \in Nat
      BY <2>2, <2>4
    <3>2. sent' = Len(frame') + Len(shift') + (IF txe' THEN 0 ELSE 1)
      BY <2>3, <3>1
    <3>3. txe' \/ dr' = Len(frame') + Len(shift')
      BY <2>3, <3>1
    <3>4. QED
      BY <1>5, <1>6, <2>2, <2>3, <2>4, <2>5, <3>1, <3>2, <3>3, SMTT(30) DEF FrameInv
<1>8. ReceiveInv'
  BY <1>1, <1>3, <1>5, <1>6 DEF WireInv, ReceiveInv
<1>9. QED
  BY <1>1, <1>3, <1>5, <1>7, <1>8 DEF WireInv

LEMMA ReadWire ==
  ASSUME WireInv, ReadDr("drop") \/ ReadDr("take")
  PROVE  /\ WireInv' /\ code # <<>> /\ code[1] \in {"drop", "take"}
         /\ code' = Tail(code) /\ sent' = sent /\ frame' = frame
<1>1. PICK name \in {"drop", "take"} : ReadDr(name)
  OBVIOUS
<1>2. /\ code # <<>> /\ Head(code) = name /\ code' = Tail(code)
      /\ fresh' = FALSE /\ rxne' = FALSE
      /\ ovr' = IF ovr = "set" THEN "read" ELSE ovr
      /\ value' = IF name = "take" THEN Append(value, rx) ELSE value
      /\ UNCHANGED <<spe, txe, dr, shift, rx, sent, frame, delayed>>
  BY <1>1 DEF ReadDr, Op, Done
<1>3. CodeInv
  BY DEF WireInv
<1>4. code[1] = name /\ Active /\ spe
  BY <1>2, <1>3, Front
<1>5. /\ CodeInv' /\ Active'
      /\ Takes(code') => Takes(code)
      /\ Drops(code') => Drops(code)
      /\ code[1] = "take" => Takes(code) /\ ~Drops(code)
      /\ code[1] = "drop" => sent >= 4
      /\ Len(code) \in Nat \ {0} /\ Len(code') \in Nat /\ Len(code) = Len(code') + 1
      /\ \A i \in 1..Len(code') : code'[i] = code[i + 1]
  <2>1. /\ spe' = (code[1] # "off")
        /\ sent' = IF code[1] = "spe" THEN 0
                   ELSE IF code[1] \in {"put", "write"} THEN sent + 1 ELSE sent
    BY <1>2, <1>4
  <2>2. QED
    BY <1>2, <1>3, <1>4, <2>1, Operation
<1>6. Len(code') \notin {1, 2} /\ code'[1] # "take"
  <2>1. Len(code) >= 4 /\ code[2] # "take"
    BY <1>2, <1>3, <1>4, Front
  <2>2. QED
    BY <1>5, <2>1
<1>7. txe /\ Len(frame) \in Nat /\ Len(frame) < Old
      /\ Len(shift) \in 0..1 /\ sent = Len(frame) + Len(shift)
  <2>1. txe /\ sent = Len(frame) + Len(shift)
    BY <1>4 DEF WireInv, FrameInv, Ready
  <2>2. Len(frame) \in Nat
    BY DEF WireInv, FrameInv
  <2>3. Len(shift) \in 0..1
    BY DEF WireInv, FrameInv
  <2>4. sent \in Nat /\ sent < Old /\ Old \in Nat
    BY <1>2, <1>3, Front
  <2>5. QED
    BY <2>1, <2>2, <2>3, <2>4
<1>8. FrameInv'
  <2>1. UNCHANGED <<txe, dr, shift, sent, frame, spe>> /\ txe /\ spe
    BY <1>2, <1>4, <1>7
  <2>2. ~(Len(code') = 2) /\ ~(Len(code') = 1)
    BY <1>6
  <2>3. QED
    BY <2>1, <2>2 DEF WireInv, FrameInv
<1>9. /\ rxne' \in BOOLEAN /\ ovr' \in {"clear", "set", "read"} /\ rx' \in 0..Old
      /\ fresh' \in BOOLEAN /\ delayed' \in BOOLEAN
  BY <1>2 DEF WireInv, ReceiveInv
<1>10. /\ value \in Seq(3..Old-1)
       /\ \A i \in 1..Len(value) : i > 1 => value[i] > value[i-1]
       /\ \A i \in 1..Len(value) : value[i] < Len(frame)
  BY <1>4 DEF WireInv, ReceiveInv
<1>11. CASE name = "drop"
  <2>1. Len(frame) >= 3
    <3>1. sent >= 4
      BY <1>4, <1>5, <1>11
    <3>2. \A a \in Nat, b \in 0..1 : a + b >= 4 => a >= 3
      OBVIOUS
    <3>3. Len(frame) \in Nat /\ Len(shift) \in 0..1 /\ Len(frame) + Len(shift) >= 4
      BY <1>7, <3>1
    <3>4. QED
      BY <3>2, <3>3
  <2>2. QED
    BY <1>2, <1>4, <1>5, <1>6, <1>8, <1>9, <1>10, <1>11, <2>1 DEF WireInv, ReceiveInv
<1>12. CASE name = "take"
  <2>1. /\ Len(frame) >= 3 /\ rx \in 3..Len(frame)-1
        /\ value # <<>> => rx > value[Len(value)]
    BY <1>4, <1>5, <1>12 DEF WireInv, ReceiveInv
  <2>2. /\ value' \in Seq(3..Old-1) /\ Len(value') = Len(value) + 1
        /\ \A i \in 1..Len(value) : value'[i] = value[i]
        /\ value'[Len(value) + 1] = rx
        /\ Len(value) \in Nat
    <3>1. rx \in 3..Old-1
      BY <1>7, <2>1, LengthAssumption DEF Old
    <3>2. QED
      BY <1>2, <1>10, <1>12, <3>1, AppendProperties
  <2>3. ASSUME NEW i \in 1..Len(value')
        PROVE  /\ i > 1 => value'[i] > value'[i-1]
               /\ value'[i] < Len(frame)
    <3>1. CASE i = Len(value) + 1
      <4>1. value'[i] = rx /\ rx < Len(frame)
        BY <1>7, <2>1, <2>2, <3>1
      <4>2. ASSUME i > 1
            PROVE  rx > value'[i-1]
        <5>1. Len(value) \in 1..Len(value) /\ value # <<>> /\ i - 1 = Len(value)
          BY <2>2, <3>1, <4>2
        <5>2. value'[i-1] = value[Len(value)]
          BY <2>2, <5>1
        <5>3. QED
          BY <2>1, <5>1, <5>2
      <4>3. QED
        BY <4>1, <4>2
    <3>2. CASE i # Len(value) + 1
      <4>1. i \in 1..Len(value) /\ value'[i] = value[i]
            /\ (i > 1 => i - 1 \in 1..Len(value) /\ value'[i-1] = value[i-1])
        BY <2>2, <3>2
      <4>2. QED
        BY <1>10, <4>1
    <3>3. QED
      BY <3>1, <3>2
  <2>4. QED
    BY <1>2, <1>4, <1>5, <1>6, <1>8, <1>9, <1>12, <2>1, <2>2, <2>3
       DEF WireInv, ReceiveInv
<1>13. QED
  BY <1>11, <1>12

LEMMA ClearWire ==
  ASSUME WireInv, ClearSpe
  PROVE  /\ WireInv' /\ code # <<>> /\ code[1] = "off" /\ Len(code) = 1
         /\ code' = <<>> /\ frame' = frame
<1>1. /\ code # <<>> /\ Head(code) = "off" /\ code' = Tail(code)
      /\ spe' = FALSE /\ shift' = <<>> /\ fresh' = FALSE
      /\ UNCHANGED <<txe, dr, rxne, rx, ovr, sent, frame, value, delayed>>
  BY DEF ClearSpe, Op, Done
<1>2. CodeInv
  BY DEF WireInv
<1>3. code[1] = "off" /\ Len(code) = 1 /\ spe
  BY <1>1, <1>2, Front
<1>4. /\ CodeInv' /\ ~Active'
      /\ Len(code') \in Nat /\ Len(code) = Len(code') + 1
  <2>1. /\ spe' = (code[1] # "off")
        /\ sent' = IF code[1] = "spe" THEN 0
                   ELSE IF code[1] \in {"put", "write"} THEN sent + 1 ELSE sent
    BY <1>1, <1>3
  <2>2. QED
    BY <1>1, <1>2, <1>3, <2>1, Operation
<1>5. Len(code') = 0
  BY <1>3, <1>4
<1>6. code' = <<>>
  <2>1. code' \in Seq(Ops)
    BY <1>4 DEF CodeInv, Shape
  <2>2. QED
    BY <1>5, <2>1, EmptySeq
<1>7. txe /\ shift = <<>>
  BY <1>3 DEF WireInv, FrameInv
<1>8. FrameInv'
  BY <1>1, <1>4, <1>5, <1>7 DEF WireInv, FrameInv
<1>9. ReceiveInv'
  BY <1>1, <1>4 DEF WireInv, ReceiveInv
<1>10. QED
  BY <1>1, <1>3, <1>4, <1>6, <1>8, <1>9 DEF WireInv

LEMMA ShiftWire ==
  ASSUME WireInv, ShiftOut
  PROVE  /\ WireInv' /\ code' = code /\ sent' = sent
         /\ Active /\ Active' /\ Len(frame) \in Nat /\ Len(frame') = Len(frame) + 1
         /\ Len(frame') <= sent
<1>1. /\ spe /\ shift # <<>>
      /\ shift' = IF txe THEN <<>> ELSE <<dr>>
      /\ txe' = TRUE
      /\ frame' = frame \o shift
      /\ UNCHANGED <<code, spe, dr, sent, value, fresh, delayed>>
  BY DEF ShiftOut
<1>2. \/ ~rxne /\ ovr = "clear" /\ rx' = Len(frame) /\ rxne' = TRUE
      \/ rx' = rx /\ rxne' = rxne
  BY DEF ShiftOut, WireInv, ReceiveInv
<1>3. ovr' \in {"clear", "set", "read"}
  BY DEF ShiftOut, WireInv, ReceiveInv
<1>4. /\ CodeInv /\ sent \in Nat /\ sent < Old /\ Old \in Nat /\ Active
  <2>1. CodeInv /\ Active
    BY <1>1 DEF WireInv, CodeInv
  <2>2. QED
    BY <2>1, Front DEF Active
<1>5. CodeInv' /\ Active' /\ (Drops(code') <=> Drops(code))
      /\ (Takes(code') <=> Takes(code))
  BY <1>1, <1>4 DEF CodeInv, Active
<1>6. /\ shift = <<Len(frame)>> /\ Len(shift) = 1 /\ Len(frame) \in Nat
      /\ frame \in Seq(0..Old-1) /\ dr \in 0..Old-1
      /\ \A i \in 1..Len(frame) : frame[i] = i - 1
      /\ sent = Len(frame) + 1 + (IF txe THEN 0 ELSE 1)
      /\ txe \/ dr = Len(frame) + 1
  <2>1. shift = <<Len(frame)>>
    BY <1>1 DEF WireInv, FrameInv
  <2>2. Len(shift) = 1
    BY <2>1
  <2>3. QED
    BY <2>1, <2>2 DEF WireInv, FrameInv
<1>7. /\ frame' \in Seq(0..Old-1) /\ Len(frame') = Len(frame) + 1
      /\ \A i \in 1..Len(frame) : frame'[i] = frame[i]
      /\ frame'[Len(frame) + 1] = Len(frame)
  <2>1. Len(frame) \in 0..Old-1
    BY <1>4, <1>6
  <2>2. frame' = Append(frame, Len(frame))
    BY <1>1, <1>6
  <2>3. QED
    BY <1>6, <2>1, <2>2, AppendProperties
<1>8. FrameInv'
  <2>1. ASSUME NEW i \in 1..Len(frame')
        PROVE  frame'[i] = i - 1
    BY <1>6, <1>7
  <2>2. /\ shift' = <<>> \/ shift' = <<Len(frame')>>
        /\ sent' = Len(frame') + Len(shift')
    <3>1. CASE txe
      BY <1>1, <1>6, <1>7, <3>1
    <3>2. CASE ~txe
      <4>1. shift' = <<dr>> /\ dr = Len(frame') /\ sent = Len(frame) + 2
        BY <1>1, <1>6, <1>7, <3>2
      <4>2. QED
        BY <1>1, <1>6, <1>7, <4>1
    <3>3. QED
      BY <3>1, <3>2 DEF WireInv, FrameInv
  <2>3. Len(code) # 1
    BY <1>1 DEF WireInv, FrameInv
  <2>4. QED
    BY <1>1, <1>6, <1>7, <2>1, <2>2, <2>3 DEF FrameInv
<1>9. ReceiveInv'
  <2>1. /\ value \in Seq(3..Old-1) /\ Len(value) \in Nat
        /\ \A i \in 1..Len(value) : i > 1 => value[i] > value[i-1]
        /\ \A i \in 1..Len(value) : value[i] < Len(frame)
    BY <1>1 DEF WireInv, ReceiveInv
  <2>2. /\ fresh' \in BOOLEAN /\ delayed' \in BOOLEAN /\ rxne' \in BOOLEAN
        /\ rx' \in 0..Old
    <3>1. /\ fresh \in BOOLEAN /\ delayed \in BOOLEAN /\ rxne \in BOOLEAN
          /\ rx \in 0..Old
      BY DEF WireInv, ReceiveInv
    <3>2. Len(frame) \in 0..Old
      BY <1>4, <1>6
    <3>3. QED
      BY <1>1, <1>2, <3>1, <3>2
  <2>3. \A i \in 1..Len(value) : value[i] < Len(frame')
    BY <1>4, <1>6, <1>7, <2>1, SMTT(30)
  <2>4. ASSUME ~Drops(code), Takes(code)
        PROVE  /\ Len(frame') >= 3
               /\ rxne' => /\ rx' \in 3..Len(frame')-1
                           /\ value # <<>> => rx' > value[Len(value)]
    <3>1. /\ Len(frame) >= 3
          /\ rxne => /\ rx \in 3..Len(frame)-1
                     /\ value # <<>> => rx > value[Len(value)]
      BY <1>4, <2>4 DEF WireInv, ReceiveInv
    <3>2. CASE rx' = rx /\ rxne' = rxne
      BY <1>6, <1>7, <3>1, <3>2
    <3>3. CASE rx' = Len(frame)
      <4>1. value # <<>> => Len(value) \in 1..Len(value)
        BY <2>1
      <4>2. QED
        BY <1>6, <1>7, <2>1, <3>1, <3>3, <4>1
    <3>4. QED
      BY <1>2, <3>2, <3>3
  <2>5. code[1] = "take" => rxne'
    BY <1>2, <1>4 DEF WireInv, ReceiveInv
  <2>6. QED
    BY <1>1, <1>3, <1>5, <2>1, <2>2, <2>3, <2>4, <2>5 DEF ReceiveInv
<1>10. Len(frame') <= sent
  BY <1>4, <1>6, <1>7
<1>11. QED
  BY <1>1, <1>4, <1>5, <1>6, <1>7, <1>8, <1>9, <1>10 DEF WireInv

LEMMA InterruptedWire ==
  ASSUME WireInv, Interrupted
  PROVE  WireInv' /\ UNCHANGED <<code, sent, frame>> /\ (Active' <=> Active)
<1>1. /\ fresh' = FALSE
      /\ delayed' = (delayed \/ (fresh /\ ovr # "clear"))
      /\ UNCHANGED <<code, spe, txe, dr, shift, rxne, rx, ovr, sent, frame, value>>
  BY DEF Interrupted
<1>2. CodeInv' /\ FrameInv' /\ (Active' <=> Active)
  BY <1>1 DEF WireInv, CodeInv, FrameInv, Active
<1>3. ReceiveInv'
  BY <1>1, <1>2 DEF WireInv, ReceiveInv, Active
<1>4. QED
  BY <1>1, <1>2, <1>3 DEF WireInv

LEMMA CallWire ==
  ASSUME WireInv, NEW name \in Calls, Call(name)
  PROVE  /\ WireInv' /\ code = <<>> /\ code' = Transfers[name]
         /\ Fresh(code') /\ ~Active' /\ UNCHANGED spi
<1>1. code = <<>> /\ code' = Transfers[name] /\ UNCHANGED spi
  BY DEF Call
<1>2. Fresh(code')
  BY <1>1, AllFresh
<1>3. ~Active /\ ~Active'
  BY <1>1, <1>2 DEF Active, Fresh
<1>4. /\ spe' = spe /\ ~spe /\ sent' = sent /\ sent \in Nat /\ sent < Old
  BY <1>1, <1>3 DEF spi, WireInv, CodeInv
<1>5. CodeInv'
  <2>1. Shape(code') /\ Reading(code') /\ Len(code') <= Old
    BY <1>2 DEF Fresh
  <2>2. Dummy(code', sent')
    BY <1>2 DEF Fresh
  <2>3. spe' \in BOOLEAN /\ (spe' <=> Active') /\ sent' \in Nat /\ sent' < Old
    BY <1>3, <1>4 DEF WireInv, CodeInv
  <2>4. QED
    BY <1>3, <2>1, <2>2, <2>3 DEF CodeInv
<1>6. ~(Len(code') = 1) /\ ~(Len(code') = 2)
  <2>1. CodeInv' /\ code' # <<>> /\ code'[1] = "spe"
    BY <1>2, <1>5 DEF Fresh
  <2>2. /\ Shape(code') /\ Len(code') \in Nat \ {0} /\ 1 \in 1..Len(code')
    BY <1>2, Rest DEF Fresh
  <2>3. Len(code') # 1
    BY <2>1, <2>2 DEF Shape
  <2>4. Len(code') # 2
    <3>1. ASSUME Len(code') = 2 PROVE FALSE
      BY <2>1, <2>2, <3>1 DEF Shape
    <3>2. QED
      BY <3>1
  <2>5. QED
    BY <2>3, <2>4
<1>7. FrameInv'
  BY <1>1, <1>3, <1>6 DEF WireInv, FrameInv, spi
<1>8. ReceiveInv'
  BY <1>1, <1>3 DEF WireInv, ReceiveInv, spi
<1>9. QED
  BY <1>1, <1>2, <1>3, <1>5, <1>7, <1>8 DEF WireInv
-----------------------------------------------------------------------------
(* The transfer under way and the answer of the chip. *)
LEMMA CpuWire ==
  ASSUME WireInv, Cpu
  PROVE  /\ WireInv' /\ code # <<>> /\ code[1] # "off"
         /\ \/ code' = code /\ sent' = sent /\ frame' = frame /\ code[1] # "spe"
            \/ /\ code' = Tail(code)
               /\ sent' = IF code[1] = "spe" THEN 0
                          ELSE IF code[1] \in {"put", "write"} THEN sent + 1 ELSE sent
               /\ frame' = IF code[1] = "spe" THEN <<>> ELSE frame
<1>1. CASE SetSpe
  BY <1>1, SetSpeWire
<1>2. CASE Poll("txe", txe) \/ Poll("rxne", rxne) \/ Poll("busy", shift = <<>>)
  BY <1>2, PollWire
<1>3. CASE WriteDr
  BY <1>3, WriteWire
<1>4. CASE ReadDr("drop") \/ ReadDr("take")
  BY <1>4, ReadWire
<1>5. QED
  BY <1>1, <1>2, <1>3, <1>4 DEF Cpu

LEMMA StepAnswer ==
  ASSUME WireInv, AnswerInv, Cpu, UNCHANGED <<mcu, chip>>
  PROVE  AnswerInv'
<1>1. UNCHANGED <<plan, answer, regs>>
  BY DEF mcu, chip
<1>2. /\ WireInv' /\ code # <<>> /\ code[1] # "off"
      /\ \/ code' = code /\ sent' = sent /\ frame' = frame /\ code[1] # "spe"
         \/ /\ code' = Tail(code)
            /\ sent' = IF code[1] = "spe" THEN 0
                       ELSE IF code[1] \in {"put", "write"} THEN sent + 1 ELSE sent
            /\ frame' = IF code[1] = "spe" THEN <<>> ELSE frame
  BY CpuWire
<1>3. CASE code' = code /\ sent' = sent /\ frame' = frame
  <2>1. (Active' <=> Active) /\ (Takes(code') <=> Takes(code))
        /\ (Drops(code') <=> Drops(code))
    BY <1>3 DEF Active
  <2>2. QED
    BY <1>1, <1>3, <2>1 DEF AnswerInv
<1>4. CASE /\ code' = Tail(code)
           /\ sent' = IF code[1] = "spe" THEN 0
                      ELSE IF code[1] \in {"put", "write"} THEN sent + 1 ELSE sent
           /\ frame' = IF code[1] = "spe" THEN <<>> ELSE frame
  <2> SUFFICES ASSUME Reads(plan[1])
               PROVE  /\ Takes(code') \/ (Active' /\ sent' >= 5)
                      /\ Active' /\ ~Drops(code') => sent' >= 4
                      /\ \A i \in 1..3 : i <= Len(code') /\ code'[i] = "take"
                                           => sent' >= 5
                      /\ Active' /\ Len(frame') >= 5 /\ plan[1].reg \in Shared
                           => answer = regs[plan[1].reg]
    BY <1>1 DEF AnswerInv, Reads
  <2>1. /\ Takes(code) \/ (Active /\ sent >= 5)
        /\ Active /\ ~Drops(code) => sent >= 4
        /\ \A i \in 1..3 : i <= Len(code) /\ code[i] = "take" => sent >= 5
        /\ Active /\ Len(frame) >= 5 /\ plan[1].reg \in Shared
             => answer = regs[plan[1].reg]
    BY <1>2 DEF AnswerInv
  <2>2. CodeInv /\ CodeInv' /\ sent \in Nat /\ sent' \in Nat
    BY <1>2 DEF WireInv, CodeInv
  <2>3. Active <=> code[1] # "spe"
    BY <1>2 DEF Active
  <2>4. spe' = (code[1] # "off")
    <3>1. code' # <<>>
      <4>1. Len(code) \in Nat \ {0} /\ Len(code) # 1
        BY <1>2, <2>2, Front
      <4>2. /\ Len(code') \in Nat /\ Len(code) = Len(code') + 1
            /\ code' = <<>> <=> Len(code') = 0
        BY <1>2, <1>4, <2>2, Rest DEF CodeInv
      <4>3. QED
        BY <4>1, <4>2
    <3>2. 1 \in 1..Len(code') /\ code'[1] # "spe"
      BY <1>2, <1>4, <2>2, <3>1, Rest DEF CodeInv
    <3>3. QED
      BY <1>2, <2>2, <3>1, <3>2 DEF CodeInv, Active
  <2>5. /\ Active'
        /\ code[1] # "drop" /\ Drops(code) => Drops(code')
        /\ code[1] # "take" /\ Takes(code) => Takes(code')
        /\ code[1] = "drop" => sent >= 4
        /\ Len(code) \in Nat \ {0} /\ Len(code') \in Nat /\ Len(code) = Len(code') + 1
        /\ \A i \in 1..Len(code') : code'[i] = code[i + 1]
    BY <1>2, <1>4, <2>2, <2>4, Operation
  <2>6. /\ code[1] # "spe" => sent' >= sent
        /\ code[1] \in {"put", "write"} => sent' = sent + 1
    BY <1>4, <2>2
  <2>7. code[1] = "take" => sent' >= 5
    <3>1. 1 <= Len(code)
      BY <2>5
    <3>2. code[1] = "take" => sent >= 5
      BY <2>1, <3>1
    <3>3. QED
      BY <2>2, <2>6, <3>2
  <2>8. Takes(code') \/ (Active' /\ sent' >= 5)
    <3>1. CASE Takes(code)
      BY <2>5, <2>7, <3>1
    <3>2. CASE Active /\ sent >= 5
      BY <1>4, <2>2, <2>3, <2>5, <2>6, <3>2
    <3>3. QED
      BY <2>1, <3>1, <3>2
  <2>9. Active' /\ ~Drops(code') => sent' >= 4
    <3>1. CASE code[1] = "spe"
      <4>1. Takes(code)
        BY <2>1, <2>3, <3>1
      <4>2. Drops(code)
        BY <1>2, <2>2, <3>1, <4>1 DEF CodeInv, Reading
      <4>3. QED
        BY <2>5, <3>1, <4>2
    <3>2. CASE code[1] # "spe"
      <4>1. ~Drops(code') => sent >= 4
        BY <2>1, <2>3, <2>5, <3>2
      <4>2. QED
        BY <2>2, <2>6, <3>2, <4>1
    <3>3. QED
      BY <3>1, <3>2
  <2>10. ASSUME NEW i \in 1..3, i <= Len(code'), code'[i] = "take"
         PROVE  sent' >= 5
    <3>1. /\ i + 1 \in 1..Len(code) /\ code[i + 1] = "take"
          /\ i \in 1..Len(code')
      BY <2>5, <2>10
    <3>2. /\ i + 1 > 1 => code[(i+1)-1] = "rxne"
          /\ i + 1 > 2 => code[(i+1)-2] = "txe"
          /\ i + 1 > 3 => code[(i+1)-3] = "write"
      BY <2>2, <3>1 DEF CodeInv, Reading
    <3>3. CASE i < 3
      <4>1. code[1] # "spe"
        <5>1. i = 1 \/ i = 2
          BY <3>3
        <5>2. QED
          BY <3>2, <5>1
      <4>2. sent >= 5
        <5>1. i + 1 \in 1..3 /\ i + 1 <= Len(code)
          BY <3>1, <3>3
        <5>2. QED
          BY <2>1, <3>1, <5>1
      <4>3. QED
        BY <2>2, <2>6, <4>1, <4>2
    <3>4. CASE i = 3
      <4>1. /\ code[1] = "write" /\ code[2] = "txe" /\ code[3] = "rxne"
            /\ code[4] = "take" /\ 4 \in 1..Len(code)
        BY <3>1, <3>2, <3>4
      <4>2. ~Drops(code)
        <5> SUFFICES ASSUME NEW k \in 1..Len(code), code[k] = "drop"
                     PROVE  FALSE
          BY DEF Drops
        <5>1. k < 4
          BY <2>2, <4>1 DEF CodeInv, Reading
        <5>2. k = 1 \/ k = 2 \/ k = 3
          BY <5>1
        <5>3. QED
          BY <4>1, <5>2
      <4>3. sent >= 4
        BY <2>1, <2>3, <4>1, <4>2
      <4>4. QED
        BY <2>2, <2>6, <4>1, <4>3
    <3>5. QED
      BY <3>3, <3>4
  <2>11. ASSUME Active', Len(frame') >= 5, plan[1].reg \in Shared
         PROVE  answer = regs[plan[1].reg]
    <3>1. code[1] # "spe"
      BY <1>4, <2>11
    <3>2. QED
      BY <1>4, <2>1, <2>3, <2>11, <3>1
  <2>12. QED
    BY <2>8, <2>9, <2>10, <2>11
<1>5. QED
  BY <1>2, <1>3, <1>4

LEMMA SendAnswer ==
  ASSUME WireInv, AnswerInv, RegsInv, PlanInv, Send
  PROVE  /\ WireInv' /\ AnswerInv' /\ RegsInv'
         /\ \A r \in Shared : regs'[r] = regs[r]
         /\ UNCHANGED <<code, plan, place, got, asked, written>>
<1>1. /\ WireInv' /\ code' = code /\ sent' = sent /\ Active /\ Active'
      /\ Len(frame) \in Nat /\ Len(frame') = Len(frame) + 1 /\ Len(frame') <= sent
  BY ShiftWire DEF Send
<1>2. UNCHANGED <<plan, place, got, cmd_rd_reg, gpu_int, asked, misread, missed, written>>
  BY DEF Send, mcu
<1>3. \/ /\ Len(frame') = 5 /\ Reads(plan[1]) /\ plan[1].reg \in Readable
         /\ answer' = regs[plan[1].reg]
         /\ regs' \in {regs, [regs EXCEPT !["REG_INT_FLAGS"] = {}]}
      \/ /\ ~(Len(frame') = 5 /\ Reads(plan[1]) /\ plan[1].reg \in Readable)
         /\ UNCHANGED <<answer, regs>>
  BY DEF Send, Become
<1>4. /\ regs \in [Readable -> SUBSET UNION {Bits[r] : r \in Readable}]
      /\ \A r \in Readable : regs[r] \subseteq Bits[r]
      /\ exti' \in BOOLEAN
  <2>1. exti' = exti \/ \E r : exti' = (exti \/ (~Low(regs) /\ Low(r)))
    BY DEF Send, Become
  <2>2. exti \in BOOLEAN
    BY DEF RegsInv
  <2>3. exti' \in BOOLEAN
    BY <2>1, <2>2
  <2>4. QED
    BY <2>3 DEF RegsInv
<1>5. /\ \A r \in Shared : regs'[r] = regs[r]
      /\ regs' \in [Readable -> SUBSET UNION {Bits[r] : r \in Readable}]
      /\ \A r \in Readable : regs'[r] \subseteq Bits[r]
  <2>1. regs' = regs \/ regs' = [regs EXCEPT !["REG_INT_FLAGS"] = {}]
    BY <1>3
  <2>2. "REG_INT_FLAGS" \notin Shared /\ Shared \subseteq Readable
    BY DEF Shared, Readable, Bits
  <2>3. QED
    BY <1>4, <2>1, <2>2
<1>6. answer' \in UNION {SUBSET Bits[r] : r \in Readable}
  BY <1>3, <1>4 DEF RegsInv
<1>7. RegsInv'
  <2>1. "REG_GPIO_DIR" \in Shared /\ "REG_GPIO" \in Shared
    BY DEF Shared
  <2>2. QED
    BY <1>2, <1>4, <1>5, <1>6, <2>1 DEF RegsInv
<1>8. AnswerInv'
  <2> SUFFICES ASSUME Reads(plan[1])
               PROVE  /\ Takes(code) \/ (Active /\ sent >= 5)
                      /\ Active /\ ~Drops(code) => sent >= 4
                      /\ \A i \in 1..3 : i <= Len(code) /\ code[i] = "take"
                                           => sent >= 5
                      /\ Len(frame') >= 5 /\ plan[1].reg \in Shared
                           => answer' = regs'[plan[1].reg]
    BY <1>1, <1>2 DEF AnswerInv, Reads
  <2>1. /\ Takes(code) \/ (Active /\ sent >= 5)
        /\ Active /\ ~Drops(code) => sent >= 4
        /\ \A i \in 1..3 : i <= Len(code) /\ code[i] = "take" => sent >= 5
        /\ Len(frame) >= 5 /\ plan[1].reg \in Shared
             => answer = regs[plan[1].reg]
    BY <1>1 DEF AnswerInv, Active
  <2>2. ASSUME Len(frame') >= 5, plan[1].reg \in Shared
        PROVE  answer' = regs'[plan[1].reg]
    <3>1. plan[1].reg \in Readable /\ regs'[plan[1].reg] = regs[plan[1].reg]
      BY <1>5, <2>2 DEF Shared, Readable, Bits
    <3>2. CASE Len(frame') = 5
      BY <1>3, <3>1, <3>2
    <3>3. CASE Len(frame') # 5
      <4>1. Len(frame) >= 5
        BY <1>1, <2>2, <3>3
      <4>2. QED
        BY <1>3, <2>1, <2>2, <3>1, <3>3, <4>1
    <3>4. QED
      BY <3>2, <3>3
  <2>3. QED
    BY <2>1, <2>2
<1>9. QED
  BY <1>1, <1>2, <1>5, <1>7, <1>8

LEMMA BeginAnswer ==
  ASSUME WireInv, PlanInv, Begin
  PROVE  WireInv' /\ AnswerInv' /\ plan # <<>> /\ UNCHANGED <<mcu, chip>>
<1>1. plan # <<>> /\ Call(plan[1].call) /\ UNCHANGED <<mcu, chip>>
  BY DEF Begin
<1>2. plan[1].call \in Calls
  <2>1. plan \in Seq(Transfer)
    BY DEF PlanInv
  <2>2. plan[1] \in Transfer
    BY <1>1, <2>1
  <2>3. QED
    BY <2>2 DEF Transfer
<1>3. /\ WireInv' /\ Fresh(code') /\ ~Active'
      /\ code' = Transfers[plan[1].call]
  BY <1>1, <1>2, CallWire
<1>4. Reads(plan[1]) => Takes(code')
  BY <1>2, <1>3, AllFresh DEF Reads
<1>5. \A i \in 1..3 : ~(i <= Len(code') /\ code'[i] = "take")
  <2> SUFFICES ASSUME NEW i \in 1..3, i <= Len(code'), code'[i] = "take"
               PROVE  FALSE
    OBVIOUS
  <2>1. i \in 1..Len(code') /\ Reading(code') /\ code'[1] = "spe"
    BY <1>3, Rest DEF Fresh
  <2>2. /\ i > 1 => code'[i-1] = "rxne"
        /\ i > 2 => code'[i-2] = "txe"
    BY <2>1 DEF Reading
  <2>3. i = 1 \/ i = 2 \/ i = 3
    OBVIOUS
  <2>4. QED
    BY <2>1, <2>2, <2>3
<1>6. plan' = plan
  BY <1>1 DEF mcu
<1>7. AnswerInv'
  BY <1>3, <1>4, <1>5, <1>6 DEF AnswerInv, Reads
<1>8. QED
  BY <1>1, <1>3, <1>7
-----------------------------------------------------------------------------
(* The registers, and the steps that leave what main counts on alone. *)
LEMMA Registers ==
  /\ Readable = {"REG_ID", "REG_GPIO_DIR", "REG_GPIO", "REG_INT_MASK",
                 "REG_INT_EN", "REG_INT_FLAGS", "REG_CMD_READ", "REG_CMD_WRITE"}
  /\ Bits["REG_GPIO_DIR"] = {"disp", "rest"} /\ Bits["REG_GPIO"] = {"disp", "rest"}
  /\ Bits["REG_INT_MASK"] = Sources /\ Bits["REG_INT_FLAGS"] = Sources
  /\ Bits["REG_INT_EN"] = {"en"} /\ Bits["REG_ID"] = {"7C"}
  /\ Bits["REG_CMD_READ"] = {"lap"} /\ Bits["REG_CMD_WRITE"] = {"lap"}
  /\ Shared \subseteq Readable
BY DEF Readable, Bits, Shared

LEMMA Elsewhere ==
  ASSUME PlanInv, PanelInv, PlaceInv,
         UNCHANGED <<plan, place, got, written, asked>>,
         code' # <<>> => plan # <<>>,
         \A r \in Shared : regs'[r] = regs[r]
  PROVE  PlanInv' /\ PanelInv' /\ PlaceInv'
<1>1. /\ regs'["REG_GPIO_DIR"] = regs["REG_GPIO_DIR"]
      /\ regs'["REG_GPIO"] = regs["REG_GPIO"]
      /\ regs'["REG_INT_MASK"] = regs["REG_INT_MASK"]
  BY DEF Shared
<1>2. PlanInv'
  <2>1. Fetched(plan, got, regs')
    BY DEF PlanInv, Fetched
  <2>2. Panel(plan, regs', asked) /\ Masked(plan, regs', asked, Booting)
    BY <1>1 DEF PlanInv, Panel, Masked
  <2>3. Booting' <=> Booting
    BY DEF Booting
  <2>4. QED
    BY <2>1, <2>2, <2>3 DEF PlanInv, Masked
<1>3. PanelInv'
  BY <1>1 DEF PanelInv
<1>4. PlaceInv'
  BY <1>1 DEF PlaceInv
<1>5. QED
  BY <1>2, <1>3, <1>4

LEMMA ChipSteps ==
  ASSUME RegsInv, Touch \/ Execute
  PROVE  /\ RegsInv' /\ UNCHANGED <<code, spi, mcu, answer, written>>
         /\ \A r \in Shared : regs'[r] = regs[r]
<1>1. /\ UNCHANGED <<code, spi, mcu, answer, written>>
      /\ exti' \in {TRUE, exti}
      /\ \E f \in SUBSET Sources :
           \/ regs' = [regs EXCEPT !["REG_INT_FLAGS"] = @ \cup f]
           \/ regs' = [regs EXCEPT !["REG_CMD_READ"] = regs["REG_CMD_WRITE"],
                                   !["REG_INT_FLAGS"] = @ \cup f]
  <2>1. {"TOUCH"} \in SUBSET Sources /\ {"CMDEMPTY"} \in SUBSET Sources
    BY DEF Sources
  <2>2. exti' \in {TRUE, exti}
    <3>1. exti' = (exti \/ (~Low(regs) /\ Low(regs')))
      BY DEF Touch, Execute, Raise, Become
    <3>2. exti \in BOOLEAN
      BY DEF RegsInv
    <3>3. QED
      BY <3>1, <3>2
  <2>3. QED
    BY <2>1, <2>2 DEF Touch, Execute, Raise, Become
<1>2. PICK f \in SUBSET Sources :
        \/ regs' = [regs EXCEPT !["REG_INT_FLAGS"] = @ \cup f]
        \/ regs' = [regs EXCEPT !["REG_CMD_READ"] = regs["REG_CMD_WRITE"],
                                !["REG_INT_FLAGS"] = @ \cup f]
  BY <1>1
<1>3. /\ regs \in [Readable -> SUBSET UNION {Bits[r] : r \in Readable}]
      /\ \A r \in Readable : regs[r] \subseteq Bits[r]
      /\ exti \in BOOLEAN
  BY DEF RegsInv
<1>4. \A r \in Readable :
        \/ regs'[r] = regs[r]
        \/ r = "REG_INT_FLAGS" /\ regs'[r] = regs[r] \cup f
        \/ r = "REG_CMD_READ" /\ regs'[r] = regs["REG_CMD_WRITE"]
  <2>1. CASE regs' = [regs EXCEPT !["REG_INT_FLAGS"] = @ \cup f]
    BY <1>3, <2>1
  <2>2. CASE regs' = [regs EXCEPT !["REG_CMD_READ"] = regs["REG_CMD_WRITE"],
                                  !["REG_INT_FLAGS"] = @ \cup f]
    BY <1>3, <2>2
  <2>3. QED
    BY <1>2, <2>1, <2>2
<1>5. \A r \in Readable : regs'[r] \subseteq Bits[r]
  <2>1. "REG_CMD_WRITE" \in Readable /\ "REG_INT_FLAGS" \in Readable
        /\ "REG_CMD_READ" \in Readable
    BY Registers
  <2>2. regs["REG_CMD_WRITE"] \subseteq Bits["REG_CMD_READ"]
        /\ regs["REG_INT_FLAGS"] \cup f \subseteq Bits["REG_INT_FLAGS"]
    BY <1>3, <2>1, Registers
  <2>3. QED
    BY <1>3, <1>4, <2>2
<1>6. regs' \in [Readable -> SUBSET UNION {Bits[r] : r \in Readable}]
  <2>1. regs' = [r \in Readable |-> regs'[r]]
    BY <1>2, <1>3
  <2>2. \A r \in Readable : regs'[r] \subseteq UNION {Bits[s] : s \in Readable}
    BY <1>5
  <2>3. QED
    BY <2>1, <2>2
<1>7. \A r \in Shared : regs'[r] = regs[r]
  BY <1>4, Registers DEF Shared
<1>8. /\ exti' \in BOOLEAN
      /\ UNCHANGED <<got, gpu_int, misread, missed, asked, answer>>
      /\ regs'["REG_GPIO_DIR"] = regs["REG_GPIO_DIR"]
      /\ regs'["REG_GPIO"] = regs["REG_GPIO"]
  BY <1>1, <1>3, <1>7 DEF mcu, Shared
<1>9. RegsInv'
  BY <1>5, <1>6, <1>8 DEF RegsInv
<1>10. QED
  BY <1>1, <1>7, <1>9
-----------------------------------------------------------------------------
(* The end of a transfer, in the plan. *)
LEMMA Effect ==
  ASSUME RegsInv, NEW t \in Transfer, Write(t)
  PROVE  /\ regs' \in [Readable -> SUBSET UNION {Bits[r] : r \in Readable}]
         /\ \A r \in Readable :
              regs'[r] = IF Writes(t, r) THEN (got \cap t.keep) \cup t.set
                                         ELSE regs[r]
         /\ \A r \in Readable : regs'[r] \subseteq Bits[r]
         /\ exti' \in BOOLEAN
         /\ written \subseteq written'
         /\ \A n : Writes(t, n) /\ n \notin Readable => n \in written'
         /\ \A n \in written' : n \in written \/ Writes(t, n)
         /\ Reads(t) => UNCHANGED <<regs, written>>
<1>1. /\ regs \in [Readable -> SUBSET UNION {Bits[r] : r \in Readable}]
      /\ \A r \in Readable : regs[r] \subseteq Bits[r]
      /\ exti \in BOOLEAN
  BY DEF RegsInv
<1>2. t.reg \in Readable => (got \cap t.keep) \cup t.set \subseteq Bits[t.reg]
  BY DEF Transfer
<1>3. CASE Reads(t) \/ t.call \notin {"wr8", "wr16", "wr32"}
  <2>1. UNCHANGED <<regs, exti, written>>
    BY <1>3 DEF Write
  <2>2. \A n : ~Writes(t, n)
    BY <1>3 DEF Writes, Reads
  <2>3. QED
    BY <1>1, <2>1, <2>2
<1>4. CASE /\ ~(Reads(t) \/ t.call \notin {"wr8", "wr16", "wr32"})
           /\ t.reg \in Readable
  <2>1. /\ regs' = [regs EXCEPT ![t.reg] = (got \cap t.keep) \cup t.set]
        /\ exti' = (exti \/ (~Low(regs) /\ Low(regs')))
        /\ written' = written
    BY <1>4 DEF Write, Become
  <2>2. \A n : Writes(t, n) <=> n = t.reg
    BY <1>4 DEF Writes
  <2>3. exti' \in BOOLEAN
    BY <1>1, <2>1
  <2>4. (got \cap t.keep) \cup t.set \subseteq UNION {Bits[r] : r \in Readable}
    BY <1>2, <1>4
  <2>5. QED
    BY <1>1, <1>2, <1>4, <2>1, <2>2, <2>3, <2>4
<1>5. CASE /\ ~(Reads(t) \/ t.call \notin {"wr8", "wr16", "wr32"})
           /\ t.reg \notin Readable
  <2>1. UNCHANGED <<regs, exti>> /\ written' = written \cup {t.reg}
    BY <1>5 DEF Write
  <2>2. \A n : Writes(t, n) <=> n = t.reg
    BY <1>5 DEF Writes
  <2>3. QED
    BY <1>1, <1>5, <2>1, <2>2
<1>6. QED
  BY <1>3, <1>4, <1>5

LEMMA EndStep ==
  ASSUME IInv, End
  PROVE  IInv'
<1> DEFINE t == plan[1]
<1>1. WireInv /\ RegsInv /\ PlanInv /\ PanelInv /\ PlaceInv /\ AnswerInv
  BY DEF IInv
<1>2. /\ ClearSpe /\ plan' = Tail(plan) /\ Write(t)
      /\ Reads(t) => got' = answer
      /\ ~Reads(t) => got' = got
      /\ misread' \in {misread, (misread \/ ~Right)}
      /\ UNCHANGED <<answer, place, cmd_rd_reg, gpu_int, asked, missed>>
  BY DEF End
<1>3. /\ WireInv' /\ code # <<>> /\ code[1] = "off" /\ Len(code) = 1
      /\ code' = <<>>
  BY <1>1, <1>2, ClearWire
<1>4. /\ plan \in Seq(Transfer) /\ plan # <<>>
      /\ Len(plan) \in Nat \ {0} /\ t \in Transfer
      /\ plan' \in Seq(Transfer) /\ Len(plan') \in Nat /\ Len(plan) = Len(plan') + 1
      /\ \A i \in 1..Len(plan') : i + 1 \in 1..Len(plan) /\ plan'[i] = plan[i + 1]
      /\ \A i \in 1..Len(plan) : i = 1 \/ (i - 1 \in 1..Len(plan') /\ plan'[i-1] = plan[i])
      /\ 1 \in 1..Len(plan)
  <2>1. plan \in Seq(Transfer) /\ plan # <<>>
    BY <1>1, <1>3 DEF PlanInv
  <2>2. /\ plan' \in Seq(Transfer) /\ Len(plan') \in Nat
        /\ Len(plan) = Len(plan') + 1
        /\ \A i \in 1..Len(plan') : plan'[i] = plan[i + 1]
    BY <1>2, <2>1, HeadTailProperties
  <2>3. t \in Transfer /\ Len(plan) \in Nat \ {0}
    BY <2>1
  <2>4. QED
    BY <2>1, <2>2, <2>3
<1> HIDE DEF t
<1>5. /\ regs' \in [Readable -> SUBSET UNION {Bits[r] : r \in Readable}]
      /\ \A r \in Readable :
           regs'[r] = IF Writes(t, r) THEN (got \cap t.keep) \cup t.set
                                      ELSE regs[r]
      /\ \A r \in Readable : regs'[r] \subseteq Bits[r]
      /\ exti' \in BOOLEAN
      /\ written \subseteq written'
      /\ \A n : Writes(t, n) /\ n \notin Readable => n \in written'
      /\ \A n \in written' : n \in written \/ Writes(t, n)
      /\ Reads(t) => UNCHANGED <<regs, written>>
  BY <1>1, <1>2, <1>4, Effect
(* The value that was read is the register's. *)
<1>6. Reads(t) /\ t.reg \in Shared => got' = regs'[t.reg]
  <2> SUFFICES ASSUME Reads(t), t.reg \in Shared
               PROVE  got' = regs'[t.reg]
    OBVIOUS
  <2>1. Takes(code) \/ sent >= 5
    BY <1>1, <1>3 DEF AnswerInv, t
  <2>2. ~Takes(code)
    <3>1. \A i \in 1..Len(code) : i = 1
      BY <1>3
    <3>2. QED
      BY <1>3, <3>1 DEF Takes
  <2>3. Len(frame) >= 5
    <3>1. txe /\ shift = <<>> /\ Len(frame) \in Nat
      BY <1>1, <1>3 DEF WireInv, FrameInv
    <3>2. sent = Len(frame)
      <4>1. sent = Len(frame) + Len(shift)
        BY <1>1, <3>1 DEF WireInv, FrameInv
      <4>2. Len(shift) = 0
        BY <3>1
      <4>3. QED
        BY <3>1, <4>1, <4>2
    <3>3. QED
      BY <2>1, <2>2, <3>2
  <2>4. answer = regs[t.reg]
    BY <1>1, <1>3, <2>3 DEF AnswerInv, Active, t
  <2>5. QED
    BY <1>2, <1>5, <2>4
<1>7. /\ Fetched(plan, got, regs) /\ Ordered(plan, written)
      /\ Panel(plan, regs, asked) /\ Masked(plan, regs, asked, Booting)
  BY <1>1 DEF PlanInv
<1>8. \A n \in Shared : Writes(t, n) /\ t.keep # {} => got = regs[n]
  <2>1. \A n \in Shared : Writes(t, n) => t.reg = n
    BY DEF Writes
  <2>2. QED
    BY <1>4, <1>7, <2>1 DEF Fetched, t
<1>9. Fetched(plan', got', regs')
  <2> SUFFICES ASSUME NEW i \in 1..Len(plan'), plan'[i].reg \in Shared,
                      Writes(plan'[i], plan'[i].reg), plan'[i].keep # {}
               PROVE  IF i = 1 THEN got' = regs'[plan'[i].reg]
                      ELSE plan'[i-1].call = "rd8" /\ plan'[i-1].reg = plan'[i].reg
    BY DEF Fetched
  <2>1. i + 1 \in 1..Len(plan) /\ plan'[i] = plan[i + 1] /\ i + 1 # 1
    BY <1>4
  <2>2. plan[(i + 1) - 1].call = "rd8" /\ plan[(i + 1) - 1].reg = plan'[i].reg
    BY <1>7, <2>1 DEF Fetched
  <2>3. (i + 1) - 1 = i
    OBVIOUS
  <2>4. plan[i].call = "rd8" /\ plan[i].reg = plan'[i].reg
    BY <2>2, <2>3
  <2>5. CASE i = 1
    BY <1>6, <2>4, <2>5 DEF t, Reads
  <2>6. CASE i # 1
    BY <1>4, <2>4, <2>6
  <2>7. QED
    BY <2>5, <2>6
<1>10. ASSUME NEW n, n \notin Readable, NEW i \in 1..Len(plan'),
              n \in written \/ Before(plan, i + 1, n)
       PROVE  n \in written' \/ Before(plan', i, n)
  <2>1. CASE n \in written
    BY <1>5, <2>1
  <2>2. CASE Before(plan, i + 1, n)
    <3>1. PICK j \in 1..(i + 1) - 1 : Writes(plan[j], n)
      BY <2>2 DEF Before
    <3>2. CASE j = 1
      BY <1>5, <1>10, <3>1, <3>2 DEF t
    <3>3. CASE j # 1
      <4>1. j \in 1..Len(plan) /\ j - 1 \in 1..i-1
        BY <1>4, <3>1, <3>3
      <4>2. plan'[j-1] = plan[j]
        BY <1>4, <3>3, <4>1
      <4>3. QED
        BY <3>1, <4>1, <4>2 DEF Before
    <3>4. QED
      BY <3>2, <3>3
  <2>3. QED
    BY <1>10, <2>1, <2>2
<1>11. "REG_PCLK" \notin Readable /\ \A n \in Setup : n \notin Readable
  BY Registers DEF Setup, Timing
<1>12. Ordered(plan', written')
  <2> SUFFICES ASSUME NEW i \in 1..Len(plan')
               PROVE  /\ Writes(plan'[i], "REG_PCLK") =>
                           \A n \in Setup : n \in written' \/ Before(plan', i, n)
                      /\ Writes(plan'[i], "REG_GPIO_DIR") =>
                           "REG_PCLK" \in written' \/ Before(plan', i, "REG_PCLK")
    BY DEF Ordered
  <2>1. i + 1 \in 1..Len(plan) /\ plan'[i] = plan[i + 1]
    BY <1>4
  <2>2. /\ Writes(plan'[i], "REG_PCLK") =>
             \A n \in Setup : n \in written \/ Before(plan, i + 1, n)
        /\ Writes(plan'[i], "REG_GPIO_DIR") =>
             "REG_PCLK" \in written \/ Before(plan, i + 1, "REG_PCLK")
    BY <1>7, <2>1 DEF Ordered
  <2>3. QED
    BY <1>10, <1>11, <2>2
<1>13. \A n : ~Before(plan, 1, n)
  BY DEF Before
<1>14. PanelInv'
  <2>1. ASSUME "REG_PCLK" \in written'
        PROVE  Setup \subseteq written'
    <3>1. CASE "REG_PCLK" \in written
      BY <1>1, <1>5, <3>1 DEF PanelInv
    <3>2. CASE Writes(t, "REG_PCLK")
      BY <1>4, <1>5, <1>7, <1>13, <3>2 DEF Ordered, t
    <3>3. QED
      BY <1>5, <2>1, <3>1, <3>2
  <2>2. ASSUME "disp" \in regs'["REG_GPIO_DIR"]
        PROVE  "REG_PCLK" \in written'
    <3>1. CASE Writes(t, "REG_GPIO_DIR")
      BY <1>4, <1>5, <1>7, <1>13, <3>1 DEF Ordered, t
    <3>2. CASE ~Writes(t, "REG_GPIO_DIR")
      <4>1. "disp" \in regs["REG_GPIO_DIR"]
        BY <1>5, <2>2, <3>2, Registers
      <4>2. QED
        BY <1>1, <1>5, <4>1 DEF PanelInv
    <3>3. QED
      BY <3>1, <3>2
  <2>3. QED
    BY <2>1, <2>2 DEF PanelInv
<1>15. \A n : Has(plan, n) => Has(plan', n) \/ Writes(t, n)
  <2> SUFFICES ASSUME NEW n, Has(plan, n), ~Writes(t, n)
               PROVE  Has(plan', n)
    OBVIOUS
  <2>1. PICK i \in 1..Len(plan) : Writes(plan[i], n)
    BY DEF Has
  <2>2. i # 1
    BY <2>1 DEF t
  <2>3. i - 1 \in 1..Len(plan') /\ plan'[i-1] = plan[i]
    BY <1>4, <2>2
  <2>4. QED
    BY <2>1, <2>3 DEF Has
<1>16. Panel(plan', regs', asked')
  <2>1. \A i \in 1..Len(plan') : Writes(plan'[i], "REG_GPIO") =>
           /\ ("disp" \in plan'[i].set) = asked.lcd
           /\ asked.lcd \/ "disp" \notin plan'[i].keep
    BY <1>4, <1>7 DEF Panel
  <2>2. ASSUME Writes(t, "REG_GPIO")
        PROVE  ("disp" \in regs'["REG_GPIO"]) = asked.lcd
    <3>1. /\ ("disp" \in t.set) = asked.lcd
          /\ asked.lcd \/ "disp" \notin t.keep
      BY <1>4, <1>7, <2>2 DEF Panel, t
    <3>2. regs'["REG_GPIO"] = (got \cap t.keep) \cup t.set
      BY <1>5, <2>2, Registers
    <3>3. asked.lcd = TRUE \/ asked.lcd = FALSE
      BY <1>1 DEF RegsInv
    <3>4. CASE asked.lcd = TRUE
      BY <3>1, <3>2, <3>4
    <3>5. CASE asked.lcd = FALSE
      BY <3>1, <3>2, <3>5
    <3>6. QED
      BY <3>3, <3>4, <3>5
  <2>3. ASSUME Writes(t, "REG_GPIO_DIR")
        PROVE  "disp" \in regs'["REG_GPIO_DIR"]
    BY <1>4, <1>5, <2>3, Registers DEF Transfer
  <2>4. /\ Has(plan', "REG_GPIO") \/ ("disp" \in regs'["REG_GPIO"]) = asked.lcd
        /\ Has(plan', "REG_GPIO_DIR") \/ "disp" \in regs'["REG_GPIO_DIR"]
    <3>1. /\ Has(plan, "REG_GPIO") \/ ("disp" \in regs["REG_GPIO"]) = asked.lcd
          /\ Has(plan, "REG_GPIO_DIR") \/ "disp" \in regs["REG_GPIO_DIR"]
      BY <1>7 DEF Panel
    <3>2. /\ ~Writes(t, "REG_GPIO") => regs'["REG_GPIO"] = regs["REG_GPIO"]
          /\ ~Writes(t, "REG_GPIO_DIR") => regs'["REG_GPIO_DIR"] = regs["REG_GPIO_DIR"]
      BY <1>5, Registers
    <3>3. QED
      BY <1>15, <2>2, <2>3, <3>1, <3>2
  <2>5. QED
    BY <1>2, <2>1, <2>4 DEF Panel
<1>17. Masked(plan', regs', asked', Booting')
  <2>1. \A i, j \in 1..Len(plan') :
           Writes(plan'[i], "REG_INT_MASK") /\ Writes(plan'[j], "REG_INT_MASK")
             => i = j
    <3> SUFFICES ASSUME NEW i \in 1..Len(plan'), NEW j \in 1..Len(plan'),
                        Writes(plan'[i], "REG_INT_MASK"),
                        Writes(plan'[j], "REG_INT_MASK")
                 PROVE  i = j
      OBVIOUS
    <3>1. i + 1 = j + 1
      BY <1>4, <1>7 DEF Masked
    <3>2. QED
      BY <3>1
  <2>2. ASSUME NEW i \in 1..Len(plan'), Writes(plan'[i], "REG_INT_MASK")
        PROVE  \/ plan'[i].keep = {} /\ plan'[i].set = asked.src
               \/ plan'[i].set = {} /\ regs'["REG_INT_MASK"] \cap plan'[i].keep = asked.src
    <3>1. i + 1 \in 1..Len(plan) /\ plan'[i] = plan[i + 1] /\ i + 1 # 1
      BY <1>4
    <3>2. ~Writes(t, "REG_INT_MASK")
      BY <1>4, <1>7, <2>2, <3>1 DEF Masked, t
    <3>3. regs'["REG_INT_MASK"] = regs["REG_INT_MASK"]
      BY <1>5, <3>2, Registers
    <3>4. QED
      BY <1>7, <2>2, <3>1, <3>3 DEF Masked
  <2>3. ASSUME Writes(t, "REG_INT_MASK")
        PROVE  regs'["REG_INT_MASK"] = asked.src
    <3>1. \/ t.keep = {} /\ t.set = asked.src
          \/ t.set = {} /\ regs["REG_INT_MASK"] \cap t.keep = asked.src
      BY <1>4, <1>7, <2>3 DEF Masked, t
    <3>2. regs'["REG_INT_MASK"] = (got \cap t.keep) \cup t.set
      BY <1>5, <2>3, Registers
    <3>3. t.keep # {} => got = regs["REG_INT_MASK"]
      BY <1>8, <2>3 DEF Shared
    <3>4. QED
      BY <3>1, <3>2, <3>3
  <2>4. Has(plan', "REG_INT_MASK") \/ Booting \/ regs'["REG_INT_MASK"] = asked.src
    <3>1. Has(plan, "REG_INT_MASK") \/ Booting \/ regs["REG_INT_MASK"] = asked.src
      BY <1>7 DEF Masked
    <3>2. ~Writes(t, "REG_INT_MASK") => regs'["REG_INT_MASK"] = regs["REG_INT_MASK"]
      BY <1>5, Registers
    <3>3. QED
      BY <1>15, <2>3, <3>1, <3>2
  <2>5. (Booting' <=> Booting) /\ asked' = asked
    BY <1>2 DEF Booting
  <2>6. QED
    BY <2>1, <2>2, <2>4, <2>5 DEF Masked
<1>18. RegsInv'
  <2>1. /\ "rest" \in regs["REG_GPIO_DIR"] /\ "rest" \in regs["REG_GPIO"]
        /\ got \in UNION {SUBSET Bits[r] : r \in Readable}
        /\ answer \in UNION {SUBSET Bits[r] : r \in Readable}
        /\ {misread, missed, exti} \subseteq BOOLEAN
        /\ gpu_int \in 0..1
        /\ asked \in [lcd : BOOLEAN, src : SUBSET Sources]
    BY <1>1 DEF RegsInv
  <2>2. /\ Writes(t, "REG_GPIO_DIR") => "rest" \in t.keep
        /\ Writes(t, "REG_GPIO") => "rest" \in t.keep
    BY <1>4 DEF Transfer
  <2>3. "rest" \in regs'["REG_GPIO_DIR"]
    BY <1>5, <1>8, <2>1, <2>2, Registers DEF Shared
  <2>4. "rest" \in regs'["REG_GPIO"]
    BY <1>5, <1>8, <2>1, <2>2, Registers DEF Shared
  <2>5. got' \in UNION {SUBSET Bits[r] : r \in Readable}
    BY <1>2, <2>1
  <2>6. misread' \in BOOLEAN
    BY <1>2, <2>1
  <2>7. QED
    BY <1>2, <1>5, <2>1, <2>3, <2>4, <2>5, <2>6 DEF RegsInv
<1>19. PlaceInv'
  <2>1. /\ place \in Seq(Places)
        /\ \A i \in 2..Len(place) : place[i] \notin {"id", "enabled?", "enabled"}
    BY <1>1 DEF PlaceInv
  <2>2. ASSUME place # <<>>, place[1] = "id"
        PROVE  /\ "REG_PCLK" \in written' \/ Has(plan', "REG_PCLK")
               /\ asked.src = Sources
    BY <1>1, <1>5, <1>11, <1>15, <2>2 DEF PlaceInv
  <2>3. ASSUME NEW r \in Shared, plan = <<Tr("rd8", r)>> \/ plan = <<>>
        PROVE  plan' = <<>> /\ got' = regs'[r]
    <3>1. plan = <<Tr("rd8", r)>>
      BY <1>4, <2>3
    <3>2. plan' = <<>>
      BY <1>2, <3>1
    <3>3. t.call = "rd8" /\ t.reg = r
      BY <3>1 DEF t, Tr
    <3>4. QED
      BY <1>6, <3>2, <3>3 DEF Reads
  <2>4. ASSUME place # <<>>, place[1] = "enabled?"
        PROVE  plan' = <<>> /\ got' = regs'["REG_GPIO_DIR"]
    BY <1>1, <2>3, <2>4 DEF PlaceInv, Shared
  <2>5. ASSUME place # <<>>, place[1] = "enabled"
        PROVE  plan' = <<>> /\ got' = regs'["REG_GPIO"]
    BY <1>1, <2>3, <2>5 DEF PlaceInv, Shared
  <2>6. QED
    BY <1>2, <2>1, <2>2, <2>4, <2>5 DEF PlaceInv
<1>20. PlanInv'
  BY <1>3, <1>4, <1>9, <1>12, <1>16, <1>17 DEF PlanInv
<1>21. AnswerInv'
  BY <1>3 DEF AnswerInv
<1>22. QED
  BY <1>3, <1>14, <1>18, <1>19, <1>20, <1>21 DEF IInv
-----------------------------------------------------------------------------
(* main goes on behind its last transfer. *)
LEMMA WireSame ==
  ASSUME WireInv, UNCHANGED <<code, spi>>
  PROVE  WireInv'
BY DEF WireInv, CodeInv, FrameInv, ReceiveInv, Active, spi

(* Nothing is under way then, and the panel and the mask are as asked for. *)
LEMMA Idle ==
  ASSUME IInv, plan = <<>>
  PROVE  /\ code = <<>>
         /\ ("disp" \in regs["REG_GPIO"]) = asked.lcd
         /\ "disp" \in regs["REG_GPIO_DIR"]
         /\ "REG_PCLK" \in written /\ Setup \subseteq written
         /\ Booting \/ regs["REG_INT_MASK"] = asked.src
         /\ asked \in [lcd : BOOLEAN, src : SUBSET Sources]
<1>1. \A n : ~Has(plan, n)
  BY DEF Has
<1>2. QED
  BY <1>1 DEF IInv, RegsInv, PlanInv, PanelInv, Panel, Masked

LEMMA Going ==
  ASSUME IInv, plan = <<>>, NEW ts \in Seq(Transfer), NEW qs, Go(ts, qs),
         gpu_int' \in 0..1, missed' \in BOOLEAN,
         asked' \in [lcd : BOOLEAN, src : SUBSET Sources],
         Fetched(ts, got, regs), Panel(ts, regs, asked'),
         Masked(ts, regs, asked', Booting'), PlaceInv'
  PROVE  IInv'
<1>1. /\ code = <<>> /\ "REG_PCLK" \in written /\ Setup \subseteq written
  BY Idle
<1>2. /\ plan' = ts /\ place' = qs
      /\ UNCHANGED <<code, spi, answer, regs, written, exti, got, misread>>
  BY DEF Go, chip
<1>3. WireInv'
  BY <1>2, WireSame DEF IInv
<1>4. RegsInv'
  BY <1>2 DEF IInv, RegsInv
<1>5. Ordered(ts, written)
  BY <1>1 DEF Ordered
<1>6. PlanInv'
  BY <1>1, <1>2, <1>5 DEF PlanInv
<1>7. PanelInv'
  BY <1>2 DEF IInv, PanelInv
<1>8. AnswerInv'
  BY <1>1, <1>2 DEF AnswerInv
<1>9. QED
  BY <1>3, <1>4, <1>6, <1>7, <1>8 DEF IInv

(* It goes on without writing the registers that are read back. *)
LEMMA Quiet ==
  ASSUME IInv, plan = <<>>, place # <<>>, NEW ts \in Seq(Transfer), NEW qs,
         Go(ts, qs), gpu_int' \in 0..1, missed' \in BOOLEAN, asked' = asked,
         \A i \in 1..Len(ts) : \A r \in Shared : ~Writes(ts[i], r),
         place[1] = "id" => qs = <<>>, PlaceInv'
  PROVE  IInv'
<1>1. /\ ("disp" \in regs["REG_GPIO"]) = asked.lcd
      /\ "disp" \in regs["REG_GPIO_DIR"]
      /\ Booting \/ regs["REG_INT_MASK"] = asked.src
      /\ asked \in [lcd : BOOLEAN, src : SUBSET Sources]
  BY Idle
<1>2. place' = qs
  BY DEF Go
<1>3. \A i \in 1..Len(ts) : /\ ~Writes(ts[i], "REG_GPIO")
                            /\ ~Writes(ts[i], "REG_GPIO_DIR")
                            /\ ~Writes(ts[i], "REG_INT_MASK")
  BY DEF Shared
<1>4. Fetched(ts, got, regs)
  BY DEF Fetched
<1>5. Panel(ts, regs, asked')
  BY <1>1, <1>3 DEF Panel
<1>6. Booting => Booting'
  BY <1>2 DEF Booting
<1>7. Masked(ts, regs, asked', Booting')
  BY <1>1, <1>3, <1>6 DEF Masked
<1>8. QED
  BY <1>1, <1>4, <1>5, <1>7, Going

(* The places. *)
Named == {"id", "enabled?", "enabled"}

LEMMA Behind ==
  ASSUME PlaceInv, place # <<>>
  PROVE  /\ Tail(place) \in Seq(Places)
         /\ \A i \in 1..Len(Tail(place)) : Tail(place)[i] \notin Named
         /\ \A q \in Places :
              LET qs == <<q>> \o Tail(place)
              IN  /\ qs \in Seq(Places) /\ qs # <<>> /\ qs[1] = q
                  /\ \A i \in 2..Len(qs) : qs[i] \notin Named
<1>1. place \in Seq(Places) /\ \A i \in 2..Len(place) : place[i] \notin Named
  BY DEF PlaceInv, Named
<1>2. /\ Tail(place) \in Seq(Places) /\ Len(Tail(place)) \in Nat
      /\ Len(place) = Len(Tail(place)) + 1
      /\ \A i \in 1..Len(Tail(place)) : Tail(place)[i] = place[i + 1]
  BY <1>1, HeadTailProperties
<1>3. \A i \in 1..Len(Tail(place)) : i + 1 \in 2..Len(place)
  BY <1>2
<1>4. ASSUME NEW q \in Places
      PROVE  LET qs == <<q>> \o Tail(place)
             IN  /\ qs \in Seq(Places) /\ qs # <<>> /\ qs[1] = q
                 /\ \A i \in 2..Len(qs) : qs[i] \notin Named
  <2> DEFINE qs == <<q>> \o Tail(place)
  <2>1. <<q>> \in Seq(Places) /\ Len(<<q>>) = 1 /\ <<q>>[1] = q
    BY <1>4
  <2>2. /\ qs \in Seq(Places) /\ Len(qs) = 1 + Len(Tail(place))
        /\ \A i \in 1..1+Len(Tail(place)) :
             qs[i] = IF i <= 1 THEN <<q>>[i] ELSE Tail(place)[i - 1]
    BY <1>2, <2>1, ConcatProperties
  <2> HIDE DEF qs
  <2>3. qs # <<>> /\ qs[1] = q
    <3>1. 1 \in 1..1+Len(Tail(place)) /\ Len(qs) # 0
      BY <1>2, <2>2
    <3>2. QED
      BY <2>1, <2>2, <3>1
  <2>4. \A i \in 2..Len(qs) : qs[i] = place[i]
    BY <1>2, <2>2
  <2>5. Len(qs) = Len(place)
    BY <1>2, <2>2
  <2>6. QED
    BY <1>1, <2>2, <2>3, <2>4, <2>5 DEF qs
<1>5. QED
  BY <1>1, <1>2, <1>3, <1>4

LEMMA NewPlace ==
  ASSUME NEW qs \in Seq(Places), place' = qs,
         \A i \in 2..Len(qs) : qs[i] \notin Named,
         qs # <<>> => qs[1] \notin Named
  PROVE  PlaceInv'
BY DEF PlaceInv, Named

LEMMA OnePlace ==
  ASSUME NEW q \in Places \ Named, place' = <<q>>
  PROVE  PlaceInv'
<1> DEFINE qs == <<q>>
<1>1. qs \in Seq(Places) /\ Len(qs) = 1 /\ qs[1] = q
  OBVIOUS
<1>2. place' = qs
  OBVIOUS
<1> HIDE DEF qs
<1>3. \A i \in 2..Len(qs) : FALSE
  BY <1>1
<1>4. QED
  BY <1>1, <1>2, <1>3, NewPlace

(* The transfers by themselves. *)
LEMMA Plain ==
  /\ \A c \in {"rd8", "rd16", "rd32", "host_cmd", "stream", "wrStream"},
        r \in Names :
       Tr(c, r) \in Transfer /\ \A n : ~Writes(Tr(c, r), n)
  /\ \A c \in Calls, r \in Names \ Shared :
       Tr(c, r) \in Transfer /\ \A n : Writes(Tr(c, r), n) => n = r
<1>1. ASSUME NEW c \in Calls, NEW r \in Names,
             r \notin Shared \/ c \notin {"wr8", "wr16", "wr32"}
      PROVE  Tr(c, r) \in Transfer
  <2> DEFINE t == Tr(c, r)
  <2>1. t = [call |-> c, reg |-> r, keep |-> {}, set |-> {}]
    BY DEF Tr
  <2>2. t \in [call : Calls, reg : Names, keep : SUBSET Parts, set : SUBSET Parts]
    BY <2>1
  <2>3. ~Writes(t, "REG_GPIO_DIR") /\ ~Writes(t, "REG_GPIO")
    BY <1>1, <2>1 DEF Writes, Shared
  <2>4. t.keep \cup t.set = {}
    BY <2>1
  <2>5. QED
    BY <2>2, <2>3, <2>4 DEF Transfer
<1>2. QED
  BY <1>1 DEF Tr, Writes, Calls

LEMMA BitWrites ==
  /\ WrBits("REG_INT_MASK", Sources) \in Transfer
  /\ \A b \in {{}, {"en"}} : WrBits("REG_INT_EN", b) \in Transfer
  /\ \A m \in SUBSET Sources : WrGot("REG_INT_MASK", m, {}) \in Transfer
  /\ WrGot("REG_GPIO_DIR", {"disp", "rest"}, {"disp"}) \in Transfer
  /\ WrGot("REG_GPIO", {"disp", "rest"}, {"disp"}) \in Transfer
  /\ WrGot("REG_GPIO", {"rest"}, {}) \in Transfer
  /\ [Tr("wr16", "REG_CMD_WRITE") EXCEPT !.set = {"lap"} \ got] \in Transfer
<1>1. ASSUME NEW c \in Calls, NEW r \in Names, NEW k \in SUBSET Parts,
             NEW s \in SUBSET Parts,
             k \cup s \subseteq Bits[r],
             r = "REG_GPIO_DIR" => "rest" \in k /\ "disp" \in s,
             r = "REG_GPIO" => "rest" \in k
      PROVE  [call |-> c, reg |-> r, keep |-> k, set |-> s] \in Transfer
  BY <1>1 DEF Transfer, Writes
<1>2. /\ "wr8" \in Calls /\ "wr16" \in Calls
      /\ {"disp", "rest", "en", "lap"} \subseteq Parts
      /\ Readable \subseteq Names
  BY DEF Calls, Parts, Names
<1>3. Sources \subseteq Parts
  BY DEF Sources, Parts
<1>4. /\ WrBits("REG_INT_MASK", Sources) \in Transfer
      /\ \A b \in {{}, {"en"}} : WrBits("REG_INT_EN", b) \in Transfer
  BY <1>1, <1>2, <1>3, Registers DEF WrBits
<1>5. \A m \in SUBSET Sources : WrGot("REG_INT_MASK", m, {}) \in Transfer
  BY <1>1, <1>2, <1>3, Registers DEF WrGot
<1>6. /\ WrGot("REG_GPIO_DIR", {"disp", "rest"}, {"disp"}) \in Transfer
      /\ WrGot("REG_GPIO", {"disp", "rest"}, {"disp"}) \in Transfer
      /\ WrGot("REG_GPIO", {"rest"}, {}) \in Transfer
  BY <1>1, <1>2, Registers DEF WrGot
<1>7. [Tr("wr16", "REG_CMD_WRITE") EXCEPT !.set = {"lap"} \ got] \in Transfer
  <2>1. [Tr("wr16", "REG_CMD_WRITE") EXCEPT !.set = {"lap"} \ got]
          = [call |-> "wr16", reg |-> "REG_CMD_WRITE", keep |-> {},
             set |-> {"lap"} \ got]
    BY DEF Tr
  <2>2. {"lap"} \ got \in SUBSET Parts
    BY <1>2
  <2>3. QED
    BY <1>1, <1>2, <2>1, <2>2, Registers
<1>8. QED
  BY <1>4, <1>5, <1>6, <1>7

(* Two lists of transfers one behind the other. *)
LEMMA Listed ==
  ASSUME NEW a \in Seq(Transfer), NEW b \in Seq(Transfer)
  PROVE  /\ a \o b \in Seq(Transfer) /\ Len(a \o b) = Len(a) + Len(b)
         /\ \A i \in 1..Len(a)+Len(b) :
              (a \o b)[i] = IF i <= Len(a) THEN a[i] ELSE b[i - Len(a)]
BY ConcatProperties

(* Of the lists main goes on with, all but three leave those registers     *)
(* alone.                                                                  *)
Quietly(ts) == /\ ts \in Seq(Transfer)
               /\ \A i \in 1..Len(ts) : \A r \in Shared : ~Writes(ts[i], r)

LEMMA QuietLists ==
  /\ Quietly(<<>>)
  /\ \A t \in Transfer :
       (\A r \in Shared : ~Writes(t, r)) => Quietly(<<t>>)
  /\ \A t, u \in Transfer :
       (\A r \in Shared : ~Writes(t, r) /\ ~Writes(u, r)) => Quietly(<<t, u>>)
  /\ Quietly(Each("rd32", Matrix))
<1>1. /\ Quietly(<<>>)
      /\ \A t \in Transfer :
           (\A r \in Shared : ~Writes(t, r)) => Quietly(<<t>>)
  BY DEF Quietly
<1>2. ASSUME NEW t \in Transfer, NEW u \in Transfer,
             \A r \in Shared : ~Writes(t, r) /\ ~Writes(u, r)
      PROVE  Quietly(<<t, u>>)
  <2>1. <<t, u>> \in Seq(Transfer) /\ Len(<<t, u>>) = 2
    OBVIOUS
  <2>2. \A i \in 1..2 : <<t, u>>[i] = t \/ <<t, u>>[i] = u
    OBVIOUS
  <2>3. QED
    BY <1>2, <2>1, <2>2 DEF Quietly
<1>3. Quietly(Each("rd32", Matrix))
  <2> DEFINE ts == Each("rd32", Matrix)
  <2>1. ts = [i \in 1..MatrixLen |-> Tr("rd32", "REG_CTOUCH_TRANSFORM")]
    BY DEF Each, Matrix
  <2>2. /\ Tr("rd32", "REG_CTOUCH_TRANSFORM") \in Transfer
        /\ \A n : ~Writes(Tr("rd32", "REG_CTOUCH_TRANSFORM"), n)
    <3>1. "REG_CTOUCH_TRANSFORM" \in Names
      BY DEF Names
    <3>2. QED
      BY <3>1, Plain
  <2> HIDE DEF ts
  <2>3. ts \in Seq(Transfer) /\ Len(ts) = MatrixLen
    BY <2>1, <2>2, MatrixAssumption
  <2>4. \A i \in 1..Len(ts) : ts[i] = Tr("rd32", "REG_CTOUCH_TRANSFORM")
    BY <2>1, <2>3
  <2>5. QED
    BY <2>2, <2>3, <2>4 DEF Quietly, ts
<1>4. QED
  BY <1>1, <1>2, <1>3

(* Two lists one behind the other. *)
LEMMA QuietTogether ==
  ASSUME NEW ts, NEW us, Quietly(ts), Quietly(us)
  PROVE  Quietly(ts \o us)
<1> DEFINE c == ts \o us
<1>1. ts \in Seq(Transfer) /\ us \in Seq(Transfer)
  BY DEF Quietly
<1>2. /\ c \in Seq(Transfer) /\ Len(c) = Len(ts) + Len(us)
      /\ \A i \in 1..Len(ts)+Len(us) :
           c[i] = IF i <= Len(ts) THEN ts[i] ELSE us[i - Len(ts)]
  BY <1>1, ConcatProperties
<1> HIDE DEF c
<1>3. Len(ts) \in Nat /\ Len(us) \in Nat
  BY <1>1
<1>4. ASSUME NEW i \in 1..Len(c), NEW r \in Shared
      PROVE  ~Writes(c[i], r)
  <2>1. CASE i <= Len(ts)
    <3>1. i \in 1..Len(ts) /\ c[i] = ts[i]
      BY <1>2, <1>3, <2>1
    <3>2. QED
      BY <3>1 DEF Quietly
  <2>2. CASE i > Len(ts)
    <3>1. i - Len(ts) \in 1..Len(us) /\ c[i] = us[i - Len(ts)]
      BY <1>2, <1>3, <2>2
    <3>2. QED
      BY <3>1 DEF Quietly
  <2>3. QED
    BY <1>2, <1>3, <2>1, <2>2
<1>5. QED
  BY <1>2, <1>4 DEF Quietly, c

LEMMA ListsOfMain ==
  /\ \A r \in Names \ Shared, s \in Names \ Shared, c \in Calls, d \in Calls :
       Quietly(<<Tr(c, r)>>) /\ Quietly(<<Tr(c, r), Tr(d, s)>>)
  /\ \A r \in Shared : Quietly(<<Tr("rd8", r)>>)
  /\ Quietly(enable_it_pin(FALSE))
  /\ Quietly(<<Tr("stream", "FT_RAM_CMD"),
               [Tr("wr16", "REG_CMD_WRITE") EXCEPT !.set = {"lap"} \ got]>>)
<1>1. \A r \in Names \ Shared, s \in Names \ Shared, c \in Calls, d \in Calls :
        Quietly(<<Tr(c, r)>>) /\ Quietly(<<Tr(c, r), Tr(d, s)>>)
  BY Plain, QuietLists
<1>2. \A r \in Shared : Quietly(<<Tr("rd8", r)>>)
  BY Plain, QuietLists DEF Shared, Names, Readable, Bits
<1>3. Quietly(enable_it_pin(FALSE))
  <2>1. enable_it_pin(FALSE) = <<WrBits("REG_INT_EN", {})>>
    BY DEF enable_it_pin
  <2>2. \A r \in Shared : ~Writes(WrBits("REG_INT_EN", {}), r)
    BY DEF WrBits, Writes, Shared
  <2>3. QED
    BY <2>1, <2>2, BitWrites, QuietLists
<1>4. Quietly(<<Tr("stream", "FT_RAM_CMD"),
                [Tr("wr16", "REG_CMD_WRITE") EXCEPT !.set = {"lap"} \ got]>>)
  <2>1. /\ Tr("stream", "FT_RAM_CMD") \in Transfer
        /\ \A n : ~Writes(Tr("stream", "FT_RAM_CMD"), n)
    <3>1. "FT_RAM_CMD" \in Names
      BY DEF Names
    <3>2. QED
      BY <3>1, Plain
  <2>2. \A r \in Shared :
          ~Writes([Tr("wr16", "REG_CMD_WRITE") EXCEPT !.set = {"lap"} \ got], r)
    BY DEF Tr, Writes, Shared
  <2>3. QED
    BY <2>1, <2>2, BitWrites, QuietLists
<1>5. QED
  BY <1>1, <1>2, <1>3, <1>4

LEMMA OnQuietly ==
  ASSUME IInv, NEW p, At(p), p # "id" \/ place' = <<>>,
         NEW ts, Quietly(ts), NEW qs \in Seq(Places), Go(ts, qs),
         \A i \in 1..Len(qs) : qs[i] \notin Named,
         gpu_int' \in 0..1, missed' \in BOOLEAN, asked' = asked
  PROVE  IInv'
<1>1. plan = <<>> /\ place # <<>> /\ place[1] = p /\ place' = qs
  BY DEF At, Go
<1>2. PlaceInv'
  <2>1. qs # <<>> => 1 \in 1..Len(qs)
    BY EmptySeq
  <2>2. \A i \in 2..Len(qs) : i \in 1..Len(qs)
    OBVIOUS
  <2>3. QED
    BY <1>1, <2>1, <2>2, NewPlace
<1>3. QED
  BY <1>1, <1>2, Quiet DEF Quietly

(* The examples of main. *)
LEMMA MainSteps ==
  ASSUME IInv, Balls \/ Cmd \/ FlushRead \/ FlushWrite \/ FlushSend
               \/ Calibrate \/ Wait \/ Flags
  PROVE  IInv'
<1>1. /\ gpu_int \in 0..1 /\ missed \in BOOLEAN /\ PlaceInv
  BY DEF IInv, RegsInv
<1>2. \A q \in Places \ Named : /\ <<q>> \in Seq(Places)
                                /\ \A i \in 1..Len(<<q>>) : <<q>>[i] \notin Named
  OBVIOUS
<1>3. place # <<>> =>
        /\ Tail(place) \in Seq(Places)
        /\ \A i \in 1..Len(Tail(place)) : Tail(place)[i] \notin Named
        /\ \A q \in Places \ Named :
             /\ <<q>> \o Tail(place) \in Seq(Places)
             /\ \A i \in 1..Len(<<q>> \o Tail(place)) :
                  (<<q>> \o Tail(place))[i] \notin Named
  <2> SUFFICES ASSUME place # <<>>, NEW q \in Places \ Named
               PROVE  /\ <<q>> \o Tail(place) \in Seq(Places)
                      /\ \A i \in 1..Len(<<q>> \o Tail(place)) :
                           (<<q>> \o Tail(place))[i] \notin Named
    BY <1>1, Behind
  <2> DEFINE qs == <<q>> \o Tail(place)
  <2>1. /\ qs \in Seq(Places) /\ qs[1] = q
        /\ \A i \in 2..Len(qs) : qs[i] \notin Named
    BY <1>1, Behind
  <2> HIDE DEF qs
  <2>2. \A i \in 1..Len(qs) : i = 1 \/ i \in 2..Len(qs)
    BY <2>1
  <2>3. QED
    BY <2>1, <2>2 DEF qs
<1>4. /\ {"balls", "flush", "flushWr", "flushCmp", "wait", "flags"} \subseteq Places \ Named
      /\ {"REG_DLSWAP", "REG_MACRO_0", "REG_MACRO_1", "FT_RAM_DL", "REG_CMD_READ",
          "REG_CMD_WRITE", "REG_INT_FLAGS"} \subseteq Names \ Shared
      /\ {"wrStream", "wr8", "wr32", "rd16", "rd8"} \subseteq Calls
  BY DEF Places, Named, Names, Shared, Readable, Bits, Calls
<1>5. CASE Balls
  <2>1. locals' = locals
    BY <1>5 DEF Balls
  <2>2. gpu_int' \in 0..1 /\ missed' \in BOOLEAN /\ asked' = asked
    BY <1>1, <2>1 DEF locals
  <2>3. Quietly(PushMacros)
    BY <1>4, ListsOfMain DEF PushMacros
  <2>4. CASE At("dl") /\ Go(PushMacros \o <<Tr("wrStream", "FT_RAM_DL"),
                                           Tr("wr8", "REG_DLSWAP")>>,
                           <<"balls">>)
    <3>1. Quietly(<<Tr("wrStream", "FT_RAM_DL"), Tr("wr8", "REG_DLSWAP")>>)
      BY <1>4, ListsOfMain
    <3>2. Quietly(PushMacros \o <<Tr("wrStream", "FT_RAM_DL"),
                                  Tr("wr8", "REG_DLSWAP")>>)
      BY <2>3, <3>1, QuietTogether
    <3>3. QED
      BY <1>2, <1>4, <2>2, <2>4, <3>2, OnQuietly
  <2>5. CASE At("balls") /\ Go(PushMacros, <<"balls">>)
    BY <1>2, <1>4, <2>2, <2>3, <2>5, OnQuietly
  <2>6. QED
    BY <1>5, <2>4, <2>5 DEF Balls
<1>6. CASE Cmd
  <2>1. At("cmd") /\ Go(<<>>, <<"flush">>) /\ locals' = locals
    BY <1>6 DEF Cmd
  <2>2. gpu_int' \in 0..1 /\ missed' \in BOOLEAN /\ asked' = asked
    BY <1>1, <2>1 DEF locals
  <2>3. QED
    BY <1>2, <1>4, <2>1, <2>2, QuietLists, OnQuietly
<1>7. CASE FlushRead
  <2>1. /\ At("flush") /\ locals' = locals /\ place # <<>>
        /\ Go(<<Tr("rd16", "REG_CMD_READ")>>, <<"flushWr">> \o Tail(place))
    BY <1>7 DEF FlushRead, At
  <2>2. gpu_int' \in 0..1 /\ missed' \in BOOLEAN /\ asked' = asked
    BY <1>1, <2>1 DEF locals
  <2>3. Quietly(<<Tr("rd16", "REG_CMD_READ")>>)
    BY <1>4, ListsOfMain
  <2>4. QED
    BY <1>3, <1>4, <2>1, <2>2, <2>3, OnQuietly
<1>8. CASE FlushWrite
  <2>1. /\ At("flushWr") /\ place # <<>> /\ UNCHANGED <<gpu_int, asked, missed>>
        /\ Go(<<Tr("rd16", "REG_CMD_WRITE")>>, <<"flushCmp">> \o Tail(place))
    BY <1>8 DEF FlushWrite, At
  <2>2. gpu_int' \in 0..1 /\ missed' \in BOOLEAN /\ asked' = asked
    BY <1>1, <2>1
  <2>3. Quietly(<<Tr("rd16", "REG_CMD_WRITE")>>)
    BY <1>4, ListsOfMain
  <2>4. QED
    BY <1>3, <1>4, <2>1, <2>2, <2>3, OnQuietly
<1>9. CASE FlushSend
  <2>1. /\ At("flushCmp") /\ place # <<>> /\ locals' = locals
        /\ \/ Go(<<Tr("stream", "FT_RAM_CMD"),
                   [Tr("wr16", "REG_CMD_WRITE") EXCEPT !.set = {"lap"} \ got]>>,
                 Tail(place))
           \/ Go(<<>>, <<"flush">> \o Tail(place))
    BY <1>9 DEF FlushSend, At
  <2>2. gpu_int' \in 0..1 /\ missed' \in BOOLEAN /\ asked' = asked
    BY <1>1, <2>1 DEF locals
  <2>3. CASE Go(<<Tr("stream", "FT_RAM_CMD"),
                  [Tr("wr16", "REG_CMD_WRITE") EXCEPT !.set = {"lap"} \ got]>>,
                Tail(place))
    <3>1. Tail(place) \in Seq(Places)
          /\ \A i \in 1..Len(Tail(place)) : Tail(place)[i] \notin Named
      BY <1>3, <2>1
    <3>2. QED
      BY <2>1, <2>2, <2>3, <3>1, ListsOfMain, OnQuietly
  <2>4. CASE Go(<<>>, <<"flush">> \o Tail(place))
    BY <1>3, <1>4, <2>1, <2>2, <2>4, QuietLists, OnQuietly
  <2>5. QED
    BY <2>1, <2>3, <2>4
<1>10. CASE Calibrate
  <2>1. /\ At("calibrate") /\ Go(<<>>, <<"flush", "wait">>) /\ gpu_int' = 0
        /\ missed' = (Low(regs) /\ ~exti) /\ asked' = asked
    BY <1>10 DEF Calibrate
  <2>2. missed' \in BOOLEAN /\ gpu_int' \in 0..1
    BY <2>1
  <2>3. /\ <<"flush", "wait">> \in Seq(Places)
        /\ \A i \in 1..Len(<<"flush", "wait">>) : <<"flush", "wait">>[i] \notin Named
    BY DEF Places, Named
  <2>4. QED
    BY <2>1, <2>2, <2>3, QuietLists, OnQuietly
<1>11. CASE Wait
  <2>1. /\ At("wait") /\ gpu_int' = 0 /\ UNCHANGED <<asked, missed>>
        /\ Go(<<Tr("rd8", "REG_INT_FLAGS")>>, <<"flags">>)
    BY <1>11 DEF Wait, read_it_flags
  <2>2. Quietly(<<Tr("rd8", "REG_INT_FLAGS")>>)
    BY <1>4, ListsOfMain
  <2>3. gpu_int' \in 0..1 /\ missed' \in BOOLEAN
    BY <1>1, <2>1
  <2>4. QED
    BY <1>2, <1>4, <2>1, <2>2, <2>3, OnQuietly
<1>12. CASE Flags
  <2>1. /\ At("flags") /\ locals' = locals
        /\ \/ Go(Each("rd32", Matrix), <<"flush">>)
           \/ Go(<<>>, <<"wait">>)
    BY <1>12 DEF Flags
  <2>2. gpu_int' \in 0..1 /\ missed' \in BOOLEAN /\ asked' = asked
    BY <1>1, <2>1 DEF locals
  <2>3. CASE Go(Each("rd32", Matrix), <<"flush">>)
    BY <1>2, <1>4, <2>1, <2>2, <2>3, QuietLists, OnQuietly
  <2>4. CASE Go(<<>>, <<"wait">>)
    BY <1>2, <1>4, <2>1, <2>2, <2>4, QuietLists, OnQuietly
  <2>5. QED
    BY <2>1, <2>3, <2>4
<1>13. QED
  BY <1>5, <1>6, <1>7, <1>8, <1>9, <1>10, <1>11, <1>12

(* main asks for both interrupt sources behind the id. *)
LEMMA ConfigureStep ==
  ASSUME IInv, Configure
  PROVE  IInv'
<1>1. /\ At("id") /\ plan = <<>> /\ place # <<>> /\ place[1] = "id"
      /\ locals' = locals
  BY DEF Configure, At
<1>2. /\ gpu_int' \in 0..1 /\ missed' \in BOOLEAN /\ asked' = asked
      /\ asked \in [lcd : BOOLEAN, src : SUBSET Sources] /\ asked.src = Sources
  BY <1>1 DEF IInv, RegsInv, PlaceInv, locals
<1>3. CASE Go(<<>>, <<>>)
  <2>1. <<>> \in Seq(Places) /\ \A i \in 1..Len(<<>>) : <<>>[i] \notin Named
    OBVIOUS
  <2>2. place' = <<>>
    BY <1>3 DEF Go
  <2>3. QED
    BY <1>1, <1>2, <1>3, <2>1, <2>2, QuietLists, OnQuietly
<1>4. ASSUME NEW example \in Examples,
             Go(enable_it_src(Sources) \o enable_it_pin(TRUE)
                \o read_it_flags \o <<Tr("wr8", "REG_PWM_DUTY")>>, <<example>>)
      PROVE  IInv'
  <2> DEFINE a  == <<WrBits("REG_INT_MASK", Sources)>>
             b  == <<WrBits("REG_INT_EN", {"en"})>>
             c  == <<Tr("rd8", "REG_INT_FLAGS")>>
             d  == <<Tr("wr8", "REG_PWM_DUTY")>>
             ts == a \o b \o c \o d
  <2>1. Go(ts, <<example>>)
    BY <1>4 DEF enable_it_src, enable_it_pin, read_it_flags
  <2>2. /\ WrBits("REG_INT_MASK", Sources) \in Transfer
        /\ WrBits("REG_INT_EN", {"en"}) \in Transfer
        /\ Tr("rd8", "REG_INT_FLAGS") \in Transfer
        /\ Tr("wr8", "REG_PWM_DUTY") \in Transfer
    <3>1. {"REG_INT_FLAGS", "REG_PWM_DUTY"} \subseteq Names \ Shared
          /\ "wr8" \in Calls
      BY DEF Names, Shared, Readable, Bits, Calls
    <3>2. QED
      BY <3>1, Plain, BitWrites
  <2>3. /\ a \in Seq(Transfer) /\ b \in Seq(Transfer)
        /\ c \in Seq(Transfer) /\ d \in Seq(Transfer)
        /\ Len(a) = 1 /\ Len(b) = 1 /\ Len(c) = 1 /\ Len(d) = 1
        /\ a[1] = WrBits("REG_INT_MASK", Sources)
        /\ b[1] = WrBits("REG_INT_EN", {"en"})
        /\ c[1] = Tr("rd8", "REG_INT_FLAGS")
        /\ d[1] = Tr("wr8", "REG_PWM_DUTY")
    BY <2>2
  <2> HIDE DEF a, b, c, d
  <2>4. /\ a \o b \in Seq(Transfer) /\ Len(a \o b) = 2
        /\ (a \o b)[1] = a[1] /\ (a \o b)[2] = b[1]
    BY <2>3, Listed
  <2>5. /\ a \o b \o c \in Seq(Transfer) /\ Len(a \o b \o c) = 3
        /\ (a \o b \o c)[1] = a[1] /\ (a \o b \o c)[2] = b[1]
        /\ (a \o b \o c)[3] = c[1]
    BY <2>3, <2>4, Listed
  <2>6. /\ ts \in Seq(Transfer) /\ Len(ts) = 4
        /\ ts[1] = a[1] /\ ts[2] = b[1] /\ ts[3] = c[1] /\ ts[4] = d[1]
    BY <2>3, <2>5, Listed
  <2> HIDE DEF ts
  <2>7. \A i \in 1..Len(ts) : \/ i = 1
                              \/ \A r \in Shared : ~Writes(ts[i], r)
    <3>1. \A r \in Shared : /\ ~Writes(WrBits("REG_INT_EN", {"en"}), r)
                            /\ ~Writes(Tr("rd8", "REG_INT_FLAGS"), r)
                            /\ ~Writes(Tr("wr8", "REG_PWM_DUTY"), r)
      BY DEF Shared, Writes, WrBits, Tr
    <3>2. \A i \in 1..4 : i = 1 \/ i = 2 \/ i = 3 \/ i = 4
      OBVIOUS
    <3>3. QED
      BY <2>3, <2>6, <3>1, <3>2
  <2>8. /\ Writes(ts[1], "REG_INT_MASK") /\ ts[1].reg = "REG_INT_MASK"
        /\ ts[1].keep = {} /\ ts[1].set = Sources
    BY <2>3, <2>6 DEF Writes, WrBits
  <2>9. 1 \in 1..Len(ts)
    BY <2>6
  <2>10. \A i \in 1..Len(ts) : ts[i].reg \in Shared /\ Writes(ts[i], ts[i].reg)
                                 => ts[i].keep = {}
    BY <2>7, <2>8
  <2>11. Fetched(ts, got, regs)
    BY <2>10 DEF Fetched
  <2>12. Panel(ts, regs, asked')
    <3>1. \A i \in 1..Len(ts) : ~Writes(ts[i], "REG_GPIO")
      BY <2>7, <2>8 DEF Shared, Writes
    <3>2. QED
      BY <1>1, <1>2, <3>1, Idle DEF Panel
  <2>13. Masked(ts, regs, asked', Booting')
    <3>1. \A i \in 1..Len(ts) : Writes(ts[i], "REG_INT_MASK") => i = 1
      BY <2>7 DEF Shared
    <3>2. Has(ts, "REG_INT_MASK")
      BY <2>8, <2>9 DEF Has
    <3>3. QED
      BY <1>2, <2>8, <3>1, <3>2 DEF Masked
  <2>14. PlaceInv'
    <3>1. example \in Places \ Named
      BY ExampleAssumption DEF Places, Named
    <3>2. place' = <<example>>
      BY <2>1 DEF Go
    <3>3. QED
      BY <3>1, <3>2, OnePlace
  <2>15. QED
    BY <1>1, <1>2, <2>1, <2>6, <2>11, <2>12, <2>13, <2>14, Going
<1>5. QED
  BY <1>3, <1>4 DEF Configure

(* The lists of the api that read a register and write it back. *)
LEMMA LcdList ==
  /\ LET ts == enable_lcd(TRUE)
     IN  /\ ts \in Seq(Transfer) /\ Len(ts) = 4
         /\ ts[1] = Tr("rd8", "REG_GPIO_DIR")
         /\ ts[2] = WrGot("REG_GPIO_DIR", {"disp", "rest"}, {"disp"})
         /\ ts[3] = Tr("rd8", "REG_GPIO")
         /\ ts[4] = WrGot("REG_GPIO", {"disp", "rest"}, {"disp"})
  /\ LET ts == enable_lcd(FALSE)
     IN  /\ ts \in Seq(Transfer) /\ Len(ts) = 3
         /\ ts[1] = Tr("rd8", "REG_GPIO_DIR")
         /\ ts[2] = Tr("rd8", "REG_GPIO")
         /\ ts[3] = WrGot("REG_GPIO", {"rest"}, {})
<1> DEFINE a == <<Tr("rd8", "REG_GPIO_DIR")>>
           b == <<WrGot("REG_GPIO_DIR", {"disp", "rest"}, {"disp"})>>
           c == <<Tr("rd8", "REG_GPIO"),
                  WrGot("REG_GPIO", {"disp", "rest"}, {"disp"})>>
           d == <<Tr("rd8", "REG_GPIO"), WrGot("REG_GPIO", {"rest"}, {})>>
           e == <<>>
<1>1. enable_lcd(TRUE) = a \o b \o c /\ enable_lcd(FALSE) = a \o e \o d
  BY DEF enable_lcd
<1>2. /\ Tr("rd8", "REG_GPIO_DIR") \in Transfer /\ Tr("rd8", "REG_GPIO") \in Transfer
      /\ WrGot("REG_GPIO_DIR", {"disp", "rest"}, {"disp"}) \in Transfer
      /\ WrGot("REG_GPIO", {"disp", "rest"}, {"disp"}) \in Transfer
      /\ WrGot("REG_GPIO", {"rest"}, {}) \in Transfer
  <2>1. "REG_GPIO_DIR" \in Names /\ "REG_GPIO" \in Names
    BY DEF Names, Readable, Bits
  <2>2. QED
    BY <2>1, Plain, BitWrites
<1>3. /\ a \in Seq(Transfer) /\ Len(a) = 1 /\ a[1] = Tr("rd8", "REG_GPIO_DIR")
      /\ b \in Seq(Transfer) /\ Len(b) = 1
      /\ b[1] = WrGot("REG_GPIO_DIR", {"disp", "rest"}, {"disp"})
      /\ e \in Seq(Transfer) /\ Len(e) = 0
  BY <1>2
<1>4. /\ c \in Seq(Transfer) /\ Len(c) = 2 /\ c[1] = Tr("rd8", "REG_GPIO")
      /\ c[2] = WrGot("REG_GPIO", {"disp", "rest"}, {"disp"})
  BY <1>2
<1>5. /\ d \in Seq(Transfer) /\ Len(d) = 2 /\ d[1] = Tr("rd8", "REG_GPIO")
      /\ d[2] = WrGot("REG_GPIO", {"rest"}, {})
  BY <1>2
<1> HIDE DEF a, b, c, d, e
<1>6. /\ a \o b \in Seq(Transfer) /\ Len(a \o b) = 2
      /\ (a \o b)[1] = a[1] /\ (a \o b)[2] = b[1]
  <2>1. /\ a \o b \in Seq(Transfer) /\ Len(a \o b) = 2
        /\ \A i \in 1..2 : (a \o b)[i] = IF i <= 1 THEN a[i] ELSE b[i - 1]
    BY <1>3, Listed, SMTT(30)
  <2>2. QED
    BY <2>1
<1>7. /\ a \o b \o c \in Seq(Transfer) /\ Len(a \o b \o c) = 4
      /\ (a \o b \o c)[1] = a[1] /\ (a \o b \o c)[2] = b[1]
      /\ (a \o b \o c)[3] = c[1] /\ (a \o b \o c)[4] = c[2]
  BY <1>4, <1>6, Listed, SMTT(30)
<1>8. a \o e \in Seq(Transfer) /\ Len(a \o e) = 1 /\ (a \o e)[1] = a[1]
  BY <1>3, Listed
<1>9. /\ a \o e \o d \in Seq(Transfer) /\ Len(a \o e \o d) = 3
      /\ (a \o e \o d)[1] = a[1]
      /\ (a \o e \o d)[2] = d[1] /\ (a \o e \o d)[3] = d[2]
  <2>1. /\ a \o e \o d \in Seq(Transfer) /\ Len(a \o e \o d) = 3
        /\ \A i \in 1..3 : (a \o e \o d)[i] = IF i <= 1 THEN (a \o e)[i] ELSE d[i - 1]
    <3>1. /\ a \o e \o d \in Seq(Transfer)
          /\ Len(a \o e \o d) = Len(a \o e) + Len(d)
          /\ \A i \in 1..Len(a \o e)+Len(d) :
               (a \o e \o d)[i] = IF i <= Len(a \o e) THEN (a \o e)[i]
                                   ELSE d[i - Len(a \o e)]
      BY <1>5, <1>8, Listed
    <3>2. QED
      BY <1>5, <1>8, <3>1
  <2>2. QED
    BY <1>8, <2>1
<1>10. QED
  BY <1>1, <1>3, <1>4, <1>5, <1>7, <1>9

LEMMA EnableStep ==
  ASSUME IInv, At("api"), NEW b \in BOOLEAN, Go(enable_lcd(b), <<"api">>),
         asked' = [asked EXCEPT !.lcd = b],
         gpu_int' \in 0..1, missed' \in BOOLEAN
  PROVE  IInv'
<1> DEFINE ts == enable_lcd(b)
<1>1. plan = <<>> /\ place # <<>> /\ place[1] = "api" /\ place' = <<"api">>
  BY DEF At, Go
<1>2. /\ "disp" \in regs["REG_GPIO_DIR"]
      /\ regs["REG_INT_MASK"] = asked.src
      /\ asked \in [lcd : BOOLEAN, src : SUBSET Sources]
  BY <1>1, Idle DEF Booting
<1>3. /\ asked' \in [lcd : BOOLEAN, src : SUBSET Sources]
      /\ asked'.lcd = b /\ asked'.src = asked.src
  BY <1>2
<1>4. PlaceInv'
  <2>1. "api" \in Places \ Named
    BY DEF Places, Named
  <2>2. QED
    BY <1>1, <2>1, OnePlace
<1>5. CASE b = TRUE
  <2>1. /\ ts \in Seq(Transfer) /\ Len(ts) = 4
        /\ ts[1] = Tr("rd8", "REG_GPIO_DIR")
        /\ ts[2] = WrGot("REG_GPIO_DIR", {"disp", "rest"}, {"disp"})
        /\ ts[3] = Tr("rd8", "REG_GPIO")
        /\ ts[4] = WrGot("REG_GPIO", {"disp", "rest"}, {"disp"})
    BY <1>5, LcdList
  <2> HIDE DEF ts
  <2>2. /\ ts[1].call = "rd8" /\ ts[1].reg = "REG_GPIO_DIR"
        /\ ts[2].call = "wr8" /\ ts[2].reg = "REG_GPIO_DIR"
        /\ ts[3].call = "rd8" /\ ts[3].reg = "REG_GPIO"
        /\ ts[4].call = "wr8" /\ ts[4].reg = "REG_GPIO"
        /\ ts[4].keep = {"disp", "rest"} /\ ts[4].set = {"disp"}
    BY <2>1 DEF Tr, WrGot
  <2>3. \A i \in 1..Len(ts) : i = 1 \/ i = 2 \/ i = 3 \/ i = 4
    BY <2>1
  <2>4. 2 \in 1..Len(ts) /\ 4 \in 1..Len(ts) /\ 2 - 1 = 1 /\ 4 - 1 = 3
    BY <2>1
  <2>5. Fetched(ts, got, regs)
    <3> SUFFICES ASSUME NEW i \in 1..Len(ts), Writes(ts[i], ts[i].reg)
                 PROVE  /\ i # 1
                        /\ ts[i-1].call = "rd8" /\ ts[i-1].reg = ts[i].reg
      BY DEF Fetched
    <3>1. i = 2 \/ i = 4
      BY <2>2, <2>3 DEF Writes
    <3>2. QED
      BY <2>2, <2>4, <3>1
  <2>6. Panel(ts, regs, asked')
    <3>1. Has(ts, "REG_GPIO") /\ Has(ts, "REG_GPIO_DIR")
      BY <2>2, <2>4 DEF Has, Writes
    <3>2. \A i \in 1..Len(ts) : Writes(ts[i], "REG_GPIO") => i = 4
      BY <2>2, <2>3 DEF Writes
    <3>3. asked'.lcd = TRUE /\ "disp" \in ts[4].set
      BY <1>3, <1>5, <2>2
    <3>4. QED
      BY <3>1, <3>2, <3>3 DEF Panel
  <2>7. Masked(ts, regs, asked', Booting')
    <3>1. \A i \in 1..Len(ts) : ~Writes(ts[i], "REG_INT_MASK")
      BY <2>2, <2>3 DEF Writes
    <3>2. QED
      BY <1>2, <1>3, <3>1 DEF Masked
  <2>8. QED
    BY <1>1, <1>3, <1>4, <2>1, <2>5, <2>6, <2>7, Going DEF ts
<1>6. CASE b = FALSE
  <2>1. /\ ts \in Seq(Transfer) /\ Len(ts) = 3
        /\ ts[1] = Tr("rd8", "REG_GPIO_DIR")
        /\ ts[2] = Tr("rd8", "REG_GPIO")
        /\ ts[3] = WrGot("REG_GPIO", {"rest"}, {})
    BY <1>6, LcdList
  <2> HIDE DEF ts
  <2>2. /\ ts[1].call = "rd8" /\ ts[1].reg = "REG_GPIO_DIR"
        /\ ts[2].call = "rd8" /\ ts[2].reg = "REG_GPIO"
        /\ ts[3].call = "wr8" /\ ts[3].reg = "REG_GPIO"
        /\ ts[3].keep = {"rest"} /\ ts[3].set = {}
    BY <2>1 DEF Tr, WrGot
  <2>3. \A i \in 1..Len(ts) : i = 1 \/ i = 2 \/ i = 3
    BY <2>1
  <2>4. 3 \in 1..Len(ts) /\ 3 - 1 = 2
    BY <2>1
  <2>5. Fetched(ts, got, regs)
    <3> SUFFICES ASSUME NEW i \in 1..Len(ts), Writes(ts[i], ts[i].reg)
                 PROVE  /\ i # 1
                        /\ ts[i-1].call = "rd8" /\ ts[i-1].reg = ts[i].reg
      BY DEF Fetched
    <3>1. i = 3
      BY <2>2, <2>3 DEF Writes
    <3>2. QED
      BY <2>2, <2>4, <3>1
  <2>6. Panel(ts, regs, asked')
    <3>1. Has(ts, "REG_GPIO")
      BY <2>2, <2>4 DEF Has, Writes
    <3>2. \A i \in 1..Len(ts) : Writes(ts[i], "REG_GPIO") => i = 3
      BY <2>2, <2>3 DEF Writes
    <3>3. asked'.lcd = FALSE /\ "disp" \notin ts[3].set /\ "disp" \notin ts[3].keep
      BY <1>3, <1>6, <2>2
    <3>4. QED
      BY <1>2, <3>1, <3>2, <3>3 DEF Panel
  <2>7. Masked(ts, regs, asked', Booting')
    <3>1. \A i \in 1..Len(ts) : ~Writes(ts[i], "REG_INT_MASK")
      BY <2>2, <2>3 DEF Writes
    <3>2. QED
      BY <1>2, <1>3, <3>1 DEF Masked
  <2>8. QED
    BY <1>1, <1>3, <1>4, <2>1, <2>5, <2>6, <2>7, Going DEF ts
<1>7. QED
  BY <1>5, <1>6

LEMMA DisableStep ==
  ASSUME IInv, At("api"), Go(disable_it_src({"TOUCH"}), <<"api">>),
         asked' = [asked EXCEPT !.src = @ \ {"TOUCH"}],
         gpu_int' \in 0..1, missed' \in BOOLEAN
  PROVE  IInv'
<1> DEFINE ts == disable_it_src({"TOUCH"})
<1>1. plan = <<>> /\ place # <<>> /\ place[1] = "api" /\ place' = <<"api">>
  BY DEF At, Go
<1>2. /\ "disp" \in regs["REG_GPIO_DIR"]
      /\ ("disp" \in regs["REG_GPIO"]) = asked.lcd
      /\ regs["REG_INT_MASK"] = asked.src
      /\ asked \in [lcd : BOOLEAN, src : SUBSET Sources]
  BY <1>1, Idle DEF Booting
<1>3. /\ asked' \in [lcd : BOOLEAN, src : SUBSET Sources]
      /\ asked'.lcd = asked.lcd /\ asked'.src = asked.src \ {"TOUCH"}
  BY <1>2
<1>4. PlaceInv'
  <2>1. "api" \in Places \ Named
    BY DEF Places, Named
  <2>2. QED
    BY <1>1, <2>1, OnePlace
<1>5. /\ ts \in Seq(Transfer) /\ Len(ts) = 2
      /\ ts[1] = Tr("rd8", "REG_INT_MASK")
      /\ ts[2] = WrGot("REG_INT_MASK", Sources \ {"TOUCH"}, {})
  <2>1. /\ Tr("rd8", "REG_INT_MASK") \in Transfer
        /\ WrGot("REG_INT_MASK", Sources \ {"TOUCH"}, {}) \in Transfer
    <3>1. "REG_INT_MASK" \in Names
      BY DEF Names, Readable, Bits
    <3>2. QED
      BY <3>1, Plain, BitWrites
  <2>2. QED
    BY <2>1 DEF disable_it_src
<1> HIDE DEF ts
<1>6. /\ ts[1].call = "rd8" /\ ts[1].reg = "REG_INT_MASK"
      /\ ts[2].call = "wr8" /\ ts[2].reg = "REG_INT_MASK"
      /\ ts[2].keep = Sources \ {"TOUCH"} /\ ts[2].set = {}
  BY <1>5 DEF Tr, WrGot
<1>7. /\ \A i \in 1..Len(ts) : i = 1 \/ i = 2
      /\ 2 \in 1..Len(ts) /\ 2 - 1 = 1
  BY <1>5
<1>8. \A i \in 1..Len(ts) : \A r : Writes(ts[i], r) => i = 2 /\ r = "REG_INT_MASK"
  BY <1>6, <1>7 DEF Writes
<1>9. Fetched(ts, got, regs)
  BY <1>6, <1>7, <1>8 DEF Fetched
<1>10. Panel(ts, regs, asked')
  <2>1. \A i \in 1..Len(ts) : ~Writes(ts[i], "REG_GPIO")
    BY <1>6, <1>7 DEF Writes
  <2>2. QED
    BY <1>2, <1>3, <2>1 DEF Panel
<1>11. Masked(ts, regs, asked', Booting')
  <2>1. Has(ts, "REG_INT_MASK")
    BY <1>6, <1>7 DEF Has, Writes
  <2>2. regs["REG_INT_MASK"] \cap ts[2].keep = asked'.src
    BY <1>2, <1>3, <1>6
  <2>3. QED
    BY <1>6, <1>8, <2>1, <2>2 DEF Masked
<1>12. QED
  BY <1>1, <1>3, <1>4, <1>5, <1>9, <1>10, <1>11, Going DEF ts

LEMMA ApiStep ==
  ASSUME IInv, Api
  PROVE  IInv'
<1>1. /\ At("api") /\ plan = <<>> /\ place # <<>> /\ place[1] = "api"
      /\ UNCHANGED <<cmd_rd_reg, gpu_int, missed>>
  BY DEF Api, At
<1>2. gpu_int' \in 0..1 /\ missed' \in BOOLEAN
  BY <1>1 DEF IInv, RegsInv
<1>3. /\ <<"api">> \in Seq(Places)
      /\ \A i \in 1..Len(<<"api">>) : <<"api">>[i] \notin Named
  BY DEF Places, Named
<1>4. CASE Go(enable_it_pin(FALSE), <<"api">>) /\ UNCHANGED asked
  BY <1>1, <1>2, <1>3, <1>4, ListsOfMain, OnQuietly
<1>5. CASE Go(<<Tr("rd8", "REG_GPIO_DIR")>>, <<"enabled?", "api">>)
           /\ UNCHANGED asked
  <2>1. Quietly(<<Tr("rd8", "REG_GPIO_DIR")>>)
    BY ListsOfMain DEF Shared
  <2>2. /\ place' = <<"enabled?", "api">>
        /\ plan' = <<Tr("rd8", "REG_GPIO_DIR")>>
    BY <1>5 DEF Go
  <2>3. PlaceInv'
    <3> DEFINE qs == <<"enabled?", "api">>
    <3>1. /\ qs \in Seq(Places) /\ Len(qs) = 2
          /\ qs[1] = "enabled?" /\ qs[2] = "api"
      BY DEF Places
    <3> HIDE DEF qs
    <3>2. place' = qs
      BY <2>2 DEF qs
    <3>3. \A i \in 2..Len(qs) : i = 2
      BY <3>1
    <3>4. QED
      BY <2>2, <3>1, <3>2, <3>3 DEF PlaceInv
  <2>4. QED
    BY <1>1, <1>2, <1>5, <2>1, <2>3, Quiet DEF Quietly
<1>6. QED
  BY <1>1, <1>2, <1>4, <1>5, EnableStep, DisableStep DEF Api

LEMMA IsEnabledStep ==
  ASSUME IInv, is_enabled
  PROVE  IInv'
<1>1. /\ plan = <<>> /\ place # <<>> /\ locals' = locals
      /\ PlaceInv
  BY DEF is_enabled, At, IInv
<1>2. gpu_int' \in 0..1 /\ missed' \in BOOLEAN /\ asked' = asked
  BY <1>1 DEF IInv, RegsInv, locals
<1>3. CASE At("enabled?")
           /\ Go(IF "disp" \in got THEN <<Tr("rd8", "REG_GPIO")>> ELSE <<>>,
                 <<"enabled">> \o Tail(place))
  <2>1. got = regs["REG_GPIO_DIR"]
    <3>1. plan # <<Tr("rd8", "REG_GPIO_DIR")>>
      BY <1>1
    <3>2. QED
      BY <1>1, <1>3, <3>1 DEF PlaceInv, At
  <2>2. "disp" \in got
    BY <1>1, <2>1, Idle
  <2>3. Go(<<Tr("rd8", "REG_GPIO")>>, <<"enabled">> \o Tail(place))
    BY <1>3, <2>2
  <2>4. Quietly(<<Tr("rd8", "REG_GPIO")>>)
    BY ListsOfMain DEF Shared
  <2>5. PlaceInv'
    <3> DEFINE qs == <<"enabled">> \o Tail(place)
    <3>1. "enabled" \in Places
      BY DEF Places
    <3>2. /\ qs \in Seq(Places) /\ qs # <<>> /\ qs[1] = "enabled"
          /\ \A i \in 2..Len(qs) : qs[i] \notin Named
      BY <1>1, <3>1, Behind
    <3>3. place' = qs /\ plan' = <<Tr("rd8", "REG_GPIO")>>
      BY <2>3 DEF Go
    <3> HIDE DEF qs
    <3>4. QED
      BY <3>2, <3>3 DEF PlaceInv, Named
  <2>6. QED
    BY <1>1, <1>2, <1>3, <2>3, <2>4, <2>5, Quiet DEF Quietly, At
<1>4. CASE At("enabled") /\ Go(<<>>, Tail(place))
  BY <1>1, <1>2, <1>4, Behind, QuietLists, OnQuietly
<1>5. QED
  BY <1>3, <1>4 DEF is_enabled
-----------------------------------------------------------------------------
(* The list main begins with. *)
LEMMA Lists ==
  /\ LET h == Each("host_cmd", <<"FT_CLKEXT", "FT_CLK48M", "FT_ACTIVE", "FT_CORERST">>)
     IN  /\ h \in Seq(Transfer) /\ Len(h) = 4
         /\ \A i \in 1..4 : h[i].call = "host_cmd"
  /\ LET t == Each("wr16", Timing)
     IN  /\ t \in Seq(Transfer) /\ Len(t) = 10
         /\ \A i \in 1..10 : t[i] = Tr("wr16", Timing[i])
  /\ LET s == Each("wr8", <<"REG_SWIZZLE", "REG_PCLK_POL", "REG_PCLK">>)
     IN  /\ s \in Seq(Transfer) /\ Len(s) = 3
         /\ s[1] = Tr("wr8", "REG_SWIZZLE") /\ s[2] = Tr("wr8", "REG_PCLK_POL")
         /\ s[3] = Tr("wr8", "REG_PCLK")
  /\ /\ ctouch_adjust \in Seq(Transfer) /\ Len(ctouch_adjust) = MatrixLen
     /\ \A i \in 1..MatrixLen : ctouch_adjust[i] = Tr("wr32", "REG_CTOUCH_TRANSFORM")
<1>1. ASSUME NEW c \in Calls, NEW n \in Nat, NEW names \in Seq(Names \ Shared),
             Len(names) = n
      PROVE  /\ Each(c, names) \in Seq(Transfer) /\ Len(Each(c, names)) = n
             /\ \A i \in 1..n : Each(c, names)[i] = Tr(c, names[i])
  <2>1. DOMAIN names = 1..n
    BY <1>1
  <2>2. Each(c, names) = [i \in 1..n |-> Tr(c, names[i])]
    BY <2>1 DEF Each
  <2>3. \A i \in 1..n : Tr(c, names[i]) \in Transfer
    BY <1>1, <2>1, Plain
  <2>4. QED
    BY <2>2, <2>3
<1>2. /\ {"FT_CLKEXT", "FT_CLK48M", "FT_ACTIVE", "FT_CORERST", "REG_PCLK",
          "REG_SWIZZLE", "REG_PCLK_POL", "REG_CTOUCH_TRANSFORM"} \subseteq Names \ Shared
      /\ "host_cmd" \in Calls /\ "wr16" \in Calls /\ "wr8" \in Calls /\ "wr32" \in Calls
  BY DEF Names, Setup, Shared, Readable, Bits, Calls
<1>3. LET h == Each("host_cmd", <<"FT_CLKEXT", "FT_CLK48M", "FT_ACTIVE", "FT_CORERST">>)
      IN  /\ h \in Seq(Transfer) /\ Len(h) = 4
          /\ \A i \in 1..4 : h[i].call = "host_cmd"
  <2> DEFINE names == <<"FT_CLKEXT", "FT_CLK48M", "FT_ACTIVE", "FT_CORERST">>
  <2>1. names \in Seq(Names \ Shared) /\ Len(names) = 4
    BY <1>2
  <2> HIDE DEF names
  <2>2. /\ Each("host_cmd", names) \in Seq(Transfer)
        /\ Len(Each("host_cmd", names)) = 4
        /\ \A i \in 1..4 : Each("host_cmd", names)[i] = Tr("host_cmd", names[i])
    BY <1>1, <1>2, <2>1
  <2>3. QED
    BY <2>2 DEF names, Tr
<1>4. LET t == Each("wr16", Timing)
      IN  /\ t \in Seq(Transfer) /\ Len(t) = 10
          /\ \A i \in 1..10 : t[i] = Tr("wr16", Timing[i])
  <2>1. Timing \in Seq(Setup) /\ Len(Timing) = 10
    <3>1. {"REG_HSIZE", "REG_HCYCLE", "REG_HOFFSET", "REG_HSYNC0", "REG_HSYNC1",
           "REG_VSIZE", "REG_VCYCLE", "REG_VOFFSET", "REG_VSYNC0", "REG_VSYNC1"}
             \subseteq Setup
      <4>1. /\ Timing[1] = "REG_HSIZE" /\ Timing[2] = "REG_HCYCLE"
            /\ Timing[3] = "REG_HOFFSET" /\ Timing[4] = "REG_HSYNC0"
            /\ Timing[5] = "REG_HSYNC1" /\ Timing[6] = "REG_VSIZE"
            /\ Timing[7] = "REG_VCYCLE" /\ Timing[8] = "REG_VOFFSET"
            /\ Timing[9] = "REG_VSYNC0" /\ Timing[10] = "REG_VSYNC1"
            /\ DOMAIN Timing = 1..10
        BY DEF Timing
      <4>2. QED
        BY <4>1 DEF Setup
    <3>2. QED
      BY <3>1 DEF Timing
  <2>2. Setup \subseteq Names \ Shared
    <3>1. \A i \in 1..10 : Timing[i] \notin Shared
      BY DEF Timing, Shared
    <3>2. DOMAIN Timing = 1..10
      BY DEF Timing
    <3>3. Setup \subseteq Names
      BY DEF Names
    <3>4. QED
      BY <3>1, <3>2, <3>3 DEF Setup, Shared
  <2>3. Timing \in Seq(Names \ Shared)
    BY <2>1, <2>2
  <2>4. QED
    BY <1>1, <1>2, <2>1, <2>3
<1>5. LET s == Each("wr8", <<"REG_SWIZZLE", "REG_PCLK_POL", "REG_PCLK">>)
      IN  /\ s \in Seq(Transfer) /\ Len(s) = 3
          /\ s[1] = Tr("wr8", "REG_SWIZZLE") /\ s[2] = Tr("wr8", "REG_PCLK_POL")
          /\ s[3] = Tr("wr8", "REG_PCLK")
  <2> DEFINE names == <<"REG_SWIZZLE", "REG_PCLK_POL", "REG_PCLK">>
  <2>1. /\ names \in Seq(Names \ Shared) /\ Len(names) = 3
        /\ names[1] = "REG_SWIZZLE" /\ names[2] = "REG_PCLK_POL"
        /\ names[3] = "REG_PCLK"
    BY <1>2
  <2> HIDE DEF names
  <2>2. /\ Each("wr8", names) \in Seq(Transfer) /\ Len(Each("wr8", names)) = 3
        /\ \A i \in 1..3 : Each("wr8", names)[i] = Tr("wr8", names[i])
    BY <1>1, <1>2, <2>1
  <2>3. QED
    BY <2>1, <2>2 DEF names
<1>6. /\ ctouch_adjust \in Seq(Transfer) /\ Len(ctouch_adjust) = MatrixLen
      /\ \A i \in 1..MatrixLen : ctouch_adjust[i] = Tr("wr32", "REG_CTOUCH_TRANSFORM")
  <2>1. /\ Matrix \in Seq(Names \ Shared) /\ Len(Matrix) = MatrixLen
        /\ \A i \in 1..MatrixLen : Matrix[i] = "REG_CTOUCH_TRANSFORM"
    BY <1>2, MatrixAssumption DEF Matrix
  <2>2. QED
    BY <1>1, <1>2, <2>1, MatrixAssumption DEF ctouch_adjust
<1>7. QED
  BY <1>3, <1>4, <1>5, <1>6

LEMMA Boot ==
  LET p == init_lcd \o <<Tr("rd8", "REG_ID")>>
      m == MatrixLen
  IN  /\ p \in Seq(Transfer) /\ Len(p) = 22 + m
      /\ \A i \in 1..4 : p[i].call = "host_cmd"
      /\ \A i \in 5..14 : p[i] = Tr("wr16", Timing[i-4])
      /\ p[15] = Tr("wr8", "REG_SWIZZLE") /\ p[16] = Tr("wr8", "REG_PCLK_POL")
      /\ p[17] = Tr("wr8", "REG_PCLK")
      /\ \A i \in 18..17+m : p[i] = Tr("wr32", "REG_CTOUCH_TRANSFORM")
      /\ p[18+m] = Tr("rd8", "REG_GPIO_DIR")
      /\ p[19+m] = WrGot("REG_GPIO_DIR", {"disp", "rest"}, {"disp"})
      /\ p[20+m] = Tr("rd8", "REG_GPIO")
      /\ p[21+m] = WrGot("REG_GPIO", {"disp", "rest"}, {"disp"})
      /\ p[22+m] = Tr("rd8", "REG_ID")
<1> DEFINE m == MatrixLen
           h == Each("host_cmd", <<"FT_CLKEXT", "FT_CLK48M", "FT_ACTIVE", "FT_CORERST">>)
           t == Each("wr16", Timing)
           s == Each("wr8", <<"REG_SWIZZLE", "REG_PCLK_POL", "REG_PCLK">>)
           c == ctouch_adjust
           l == enable_lcd(TRUE)
           d == <<Tr("rd8", "REG_ID")>>
<1>1. /\ h \in Seq(Transfer) /\ Len(h) = 4
      /\ \A i \in 1..4 : h[i].call = "host_cmd"
      /\ t \in Seq(Transfer) /\ Len(t) = 10
      /\ \A i \in 1..10 : t[i] = Tr("wr16", Timing[i])
      /\ s \in Seq(Transfer) /\ Len(s) = 3
      /\ s[1] = Tr("wr8", "REG_SWIZZLE") /\ s[2] = Tr("wr8", "REG_PCLK_POL")
      /\ s[3] = Tr("wr8", "REG_PCLK")
      /\ c \in Seq(Transfer) /\ Len(c) = m
      /\ \A i \in 1..m : c[i] = Tr("wr32", "REG_CTOUCH_TRANSFORM")
  BY Lists
<1>2. /\ l \in Seq(Transfer) /\ Len(l) = 4
      /\ l[1] = Tr("rd8", "REG_GPIO_DIR")
      /\ l[2] = WrGot("REG_GPIO_DIR", {"disp", "rest"}, {"disp"})
      /\ l[3] = Tr("rd8", "REG_GPIO")
      /\ l[4] = WrGot("REG_GPIO", {"disp", "rest"}, {"disp"})
  BY LcdList
<1>3. d \in Seq(Transfer) /\ Len(d) = 1 /\ d[1] = Tr("rd8", "REG_ID")
  <2>1. "REG_ID" \in Names
    BY DEF Names, Readable, Bits
  <2>2. Tr("rd8", "REG_ID") \in Transfer
    BY <2>1, Plain
  <2>3. QED
    BY <2>2
<1>4. m \in Nat
  BY MatrixAssumption
<1>5. init_lcd \o d = h \o t \o s \o c \o l \o d
  BY DEF init_lcd
<1> HIDE DEF m, h, t, s, c, l, d
<1> DEFINE a == h \o t
           b == a \o s
           e == b \o c
           f == e \o l
           p == f \o d
<1>6. /\ a \in Seq(Transfer) /\ Len(a) = 14
      /\ \A i \in 1..14 : a[i] = IF i <= 4 THEN h[i] ELSE t[i - 4]
  <2>1. /\ a \in Seq(Transfer) /\ Len(a) = Len(h) + Len(t)
        /\ \A i \in 1..Len(h)+Len(t) :
             a[i] = IF i <= Len(h) THEN h[i] ELSE t[i - Len(h)]
    BY <1>1, Listed
  <2>2. Len(h) = 4 /\ Len(t) = 10 /\ Len(h) + Len(t) = 14
    BY <1>1
  <2>3. Len(a) = 14
    BY <2>1, <2>2
  <2>4. ASSUME NEW i \in 1..14
        PROVE  a[i] = IF i <= 4 THEN h[i] ELSE t[i - 4]
    <3>1. a[i] = IF i <= Len(h) THEN h[i] ELSE t[i - Len(h)]
      BY <2>1, <2>2
    <3>2. QED
      BY <2>2, <3>1
  <2>5. QED
    BY <2>1, <2>3, <2>4
<1> HIDE DEF a
<1>7. /\ b \in Seq(Transfer) /\ Len(b) = 17
      /\ \A i \in 1..17 : b[i] = IF i <= 14 THEN a[i] ELSE s[i - 14]
  <2>1. /\ b \in Seq(Transfer) /\ Len(b) = Len(a) + Len(s)
        /\ \A i \in 1..Len(a)+Len(s) :
             b[i] = IF i <= Len(a) THEN a[i] ELSE s[i - Len(a)]
    BY <1>1, <1>6, Listed
  <2>2. Len(a) = 14 /\ Len(s) = 3 /\ Len(a) + Len(s) = 17
    BY <1>1, <1>6
  <2>3. Len(b) = 17
    BY <2>1, <2>2
  <2>4. ASSUME NEW i \in 1..17
        PROVE  b[i] = IF i <= 14 THEN a[i] ELSE s[i - 14]
    <3>1. b[i] = IF i <= Len(a) THEN a[i] ELSE s[i - Len(a)]
      BY <2>1, <2>2
    <3>2. QED
      BY <2>2, <3>1
  <2>5. QED
    BY <2>1, <2>3, <2>4
<1> HIDE DEF b
<1>8. /\ e \in Seq(Transfer) /\ Len(e) = 17 + m
      /\ \A i \in 1..17+m : e[i] = IF i <= 17 THEN b[i] ELSE c[i - 17]
  <2>1. /\ e \in Seq(Transfer) /\ Len(e) = Len(b) + Len(c)
        /\ \A i \in 1..Len(b)+Len(c) :
             e[i] = IF i <= Len(b) THEN b[i] ELSE c[i - Len(b)]
    BY <1>1, <1>7, Listed
  <2>2. QED
    BY <1>1, <1>7, <2>1
<1> HIDE DEF e
<1>9. /\ f \in Seq(Transfer) /\ Len(f) = 21 + m
      /\ \A i \in 1..21+m : f[i] = IF i <= 17 + m THEN e[i] ELSE l[i - (17 + m)]
  <2>1. /\ f \in Seq(Transfer) /\ Len(f) = Len(e) + Len(l)
        /\ \A i \in 1..Len(e)+Len(l) :
             f[i] = IF i <= Len(e) THEN e[i] ELSE l[i - Len(e)]
    BY <1>2, <1>8, Listed
  <2>2. Len(e) + Len(l) = 21 + m
    BY <1>2, <1>4, <1>8
  <2>3. QED
    BY <1>8, <2>1, <2>2
<1> HIDE DEF f
<1>10. /\ p \in Seq(Transfer) /\ Len(p) = 22 + m
       /\ \A i \in 1..22+m : p[i] = IF i <= 21 + m THEN f[i] ELSE d[i - (21 + m)]
  <2>1. /\ p \in Seq(Transfer) /\ Len(p) = Len(f) + Len(d)
        /\ \A i \in 1..Len(f)+Len(d) :
             p[i] = IF i <= Len(f) THEN f[i] ELSE d[i - Len(f)]
    BY <1>3, <1>9, Listed
  <2>2. Len(f) + Len(d) = 22 + m
    BY <1>3, <1>4, <1>9
  <2>3. QED
    BY <1>9, <2>1, <2>2
<1>11. p = init_lcd \o d
  BY <1>5 DEF a, b, e, f
<1> HIDE DEF p
<1>12. \A i \in 1..17 : p[i] = b[i]
  BY <1>4, <1>8, <1>9, <1>10
<1>13. \A i \in 1..14 : p[i] = a[i]
  <2>1. \A i \in 1..17 : b[i] = IF i <= 14 THEN a[i] ELSE s[i - 14]
    BY <1>7
  <2>2. QED
    BY <1>12, <2>1
<1>14. /\ \A i \in 1..4 : p[i].call = "host_cmd"
       /\ \A i \in 5..14 : p[i] = Tr("wr16", Timing[i-4])
  <2>1. \A i \in 1..4 : p[i] = h[i]
    BY <1>6, <1>13
  <2>2. \A i \in 5..14 : p[i] = t[i-4] /\ i - 4 \in 1..10
    BY <1>6, <1>13
  <2>3. QED
    BY <1>1, <2>1, <2>2
<1>15. /\ p[15] = Tr("wr8", "REG_SWIZZLE") /\ p[16] = Tr("wr8", "REG_PCLK_POL")
       /\ p[17] = Tr("wr8", "REG_PCLK")
  <2>1. \A i \in 15..17 : p[i] = s[i - 14]
    BY <1>7, <1>12
  <2>2. p[15] = s[1] /\ p[16] = s[2] /\ p[17] = s[3]
    BY <2>1
  <2>3. QED
    BY <1>1, <2>2
<1>16. \A i \in 18..17+m : p[i] = Tr("wr32", "REG_CTOUCH_TRANSFORM")
  <2>1. \A i \in 18..17+m : p[i] = c[i - 17] /\ i - 17 \in 1..m
    BY <1>4, <1>8, <1>9, <1>10
  <2>2. QED
    BY <1>1, <2>1
<1>17. /\ p[18+m] = l[1] /\ p[19+m] = l[2] /\ p[20+m] = l[3] /\ p[21+m] = l[4]
  <2>1. \A i \in 18+m..21+m : p[i] = l[i - (17 + m)]
    BY <1>4, <1>9, <1>10
  <2>2. /\ (18 + m) - (17 + m) = 1 /\ (19 + m) - (17 + m) = 2
        /\ (20 + m) - (17 + m) = 3 /\ (21 + m) - (17 + m) = 4
        /\ 18 + m \in 18+m..21+m /\ 19 + m \in 18+m..21+m
        /\ 20 + m \in 18+m..21+m /\ 21 + m \in 18+m..21+m
    BY <1>4
  <2>3. QED
    BY <2>1, <2>2
<1>18. p[22+m] = Tr("rd8", "REG_ID")
  <2>1. (22 + m) - (21 + m) = 1 /\ 22 + m \in 1..22+m /\ ~(22 + m <= 21 + m)
    BY <1>4
  <2>2. QED
    BY <1>3, <1>10, <2>1
<1>19. QED
  BY <1>2, <1>10, <1>11, <1>14, <1>15, <1>16, <1>17, <1>18 DEF m, d
-----------------------------------------------------------------------------
(* The invariant. *)
LEMMA InitIInv ==
  ASSUME Init
  PROVE  IInv
<1> DEFINE p == plan
           m == MatrixLen
<1>1. /\ code = <<>> /\ spe = FALSE /\ txe = TRUE /\ dr = 0 /\ shift = <<>>
      /\ rxne = FALSE /\ rx = 0 /\ ovr = "clear"
      /\ sent = 0 /\ frame = <<>> /\ value = <<>>
      /\ fresh = FALSE /\ delayed = FALSE
  BY DEF Init, SpiInit
<1>2. ~Active /\ Old \in Nat \ {0}
  BY <1>1, LengthAssumption DEF Active, Old
<1>3. CodeInv
  <2>1. \A i \in 1..Len(code) : FALSE
    BY <1>1
  <2>2. code \in Seq(Ops) /\ Len(code) = 0
    BY <1>1
  <2>3. Shape(code) /\ Reading(code) /\ Dummy(code, sent)
    BY <1>1, <2>1, <2>2 DEF Shape, Reading, Dummy
  <2>4. spe \in BOOLEAN /\ (spe <=> Active) /\ sent \in Nat
    BY <1>1, <1>2
  <2>5. sent < Old /\ Len(code) <= Old
    BY <1>1, <1>2, <2>2
  <2>6. QED
    BY <1>2, <2>3, <2>4, <2>5 DEF CodeInv
<1>4. FrameInv
  BY <1>1, <1>2 DEF FrameInv
<1>5. ReceiveInv
  <2>1. value \in Seq(3..Old-1) /\ Len(value) = 0
    BY <1>1
  <2>2. /\ rxne \in BOOLEAN /\ ovr \in {"clear", "set", "read"}
        /\ fresh \in BOOLEAN /\ delayed \in BOOLEAN
    BY <1>1
  <2>3. rx \in 0..Old
    BY <1>1, <1>2
  <2>4. QED
    BY <1>2, <2>1, <2>2, <2>3 DEF ReceiveInv
<1>6. /\ p \in Seq(Transfer) /\ Len(p) = 22 + m
      /\ \A i \in 1..4 : p[i].call = "host_cmd"
      /\ \A i \in 5..14 : p[i] = Tr("wr16", Timing[i-4])
      /\ p[15] = Tr("wr8", "REG_SWIZZLE") /\ p[16] = Tr("wr8", "REG_PCLK_POL")
      /\ p[17] = Tr("wr8", "REG_PCLK")
      /\ \A i \in 18..17+m : p[i] = Tr("wr32", "REG_CTOUCH_TRANSFORM")
      /\ p[18+m] = Tr("rd8", "REG_GPIO_DIR")
      /\ p[19+m] = WrGot("REG_GPIO_DIR", {"disp", "rest"}, {"disp"})
      /\ p[20+m] = Tr("rd8", "REG_GPIO")
      /\ p[21+m] = WrGot("REG_GPIO", {"disp", "rest"}, {"disp"})
      /\ p[22+m] = Tr("rd8", "REG_ID")
  <2>1. p = init_lcd \o <<Tr("rd8", "REG_ID")>>
    BY DEF Init
  <2>2. QED
    BY <2>1, Boot
<1>7. m \in Nat
  BY MatrixAssumption
<1> HIDE DEF p, m
<1>8. \A i \in 1..Len(p) :
         \/ i \in 1..4 \/ i \in 5..14 \/ i = 15 \/ i = 16 \/ i = 17
         \/ i \in 18..17+m \/ i = 18+m \/ i = 19+m \/ i = 20+m \/ i = 21+m
         \/ i = 22+m
  <2>1. Len(p) = 22 + m
    BY <1>6
  <2>2. QED
    BY <1>7, <2>1
<1>9. \A i \in 5..14 : i - 4 \in 1..10
  OBVIOUS
<1>10. /\ \A i \in 1..10 : Timing[i] \notin Shared /\ Timing[i] # "REG_PCLK"
       /\ DOMAIN Timing = 1..10
  BY DEF Timing, Shared
<1>11. \A i \in 1..Len(p) : \A n \in Shared \cup {"REG_PCLK"} :
         Writes(p[i], n) => \/ n = "REG_PCLK" /\ i = 17
                            \/ n = "REG_GPIO_DIR" /\ i = 19 + m
                            \/ n = "REG_GPIO" /\ i = 21 + m
  <2> SUFFICES ASSUME NEW i \in 1..Len(p), NEW n \in Shared \cup {"REG_PCLK"},
                      Writes(p[i], n)
               PROVE  \/ n = "REG_PCLK" /\ i = 17
                      \/ n = "REG_GPIO_DIR" /\ i = 19 + m
                      \/ n = "REG_GPIO" /\ i = 21 + m
    OBVIOUS
  <2>1. p[i].call \in {"wr8", "wr16", "wr32"} /\ p[i].reg = n
    BY DEF Writes
  <2>2. i \notin 1..4
    BY <1>6, <2>1
  <2>3. i \notin 5..14
    <3> SUFFICES ASSUME i \in 5..14
                 PROVE  FALSE
      OBVIOUS
    <3>1. p[i] = Tr("wr16", Timing[i-4]) /\ i - 4 \in 1..10
      BY <1>6, <1>9
    <3>2. p[i].reg = Timing[i-4]
      BY <3>1 DEF Tr
    <3>3. QED
      BY <1>10, <2>1, <3>1, <3>2
  <2>4. i # 15 /\ i # 16
    BY <1>6, <2>1, SMTT(30) DEF Tr, Shared
  <2>5. i = 17 => n = "REG_PCLK"
    BY <1>6, <2>1 DEF Tr
  <2>6. i \notin 18..17+m
    <3>1. \A k \in 18..17+m : p[k] = Tr("wr32", "REG_CTOUCH_TRANSFORM")
      BY <1>6
    <3>2. n # "REG_CTOUCH_TRANSFORM"
      BY DEF Shared
    <3>3. QED
      BY <2>1, <3>1, <3>2 DEF Tr
  <2>7. i # 18+m /\ i # 20+m /\ i # 22+m
    <3>1. /\ p[18+m].call = "rd8" /\ p[20+m].call = "rd8" /\ p[22+m].call = "rd8"
      BY <1>6 DEF Tr
    <3>2. QED
      BY <2>1, <3>1
  <2>8. /\ i = 19+m => n = "REG_GPIO_DIR"
        /\ i = 21+m => n = "REG_GPIO"
    <3>1. p[19+m].reg = "REG_GPIO_DIR" /\ p[21+m].reg = "REG_GPIO"
      BY <1>6 DEF WrGot
    <3>2. QED
      BY <2>1, <3>1
  <2>9. QED
    BY <1>8, <2>2, <2>3, <2>4, <2>5, <2>6, <2>7, <2>8
<1>12. /\ 17 \in 1..Len(p) /\ 19+m \in 1..Len(p) /\ 21+m \in 1..Len(p)
       /\ 19+m # 1 /\ 21+m # 1 /\ (19+m)-1 = 18+m /\ (21+m)-1 = 20+m
       /\ 17 \in 1..(19+m)-1
  <2>1. Len(p) = 22 + m
    BY <1>6
  <2>2. QED
    BY <1>7, <2>1
<1>13. /\ p[17].call = "wr8" /\ p[17].reg = "REG_PCLK"
       /\ p[19+m].call = "wr8" /\ p[19+m].reg = "REG_GPIO_DIR"
       /\ p[21+m].call = "wr8" /\ p[21+m].reg = "REG_GPIO"
       /\ p[21+m].set = {"disp"}
       /\ p[18+m].call = "rd8" /\ p[18+m].reg = "REG_GPIO_DIR"
       /\ p[20+m].call = "rd8" /\ p[20+m].reg = "REG_GPIO"
  BY <1>6 DEF Tr, WrGot
<1>14. Has(p, "REG_PCLK") /\ Has(p, "REG_GPIO_DIR") /\ Has(p, "REG_GPIO")
  BY <1>12, <1>13 DEF Has, Writes
<1>15. Fetched(p, got, regs)
  <2> SUFFICES ASSUME NEW i \in 1..Len(p), p[i].reg \in Shared,
                      Writes(p[i], p[i].reg)
               PROVE  i # 1 /\ p[i-1].call = "rd8" /\ p[i-1].reg = p[i].reg
    BY DEF Fetched
  <2>1. i = 19 + m \/ i = 21 + m
    BY <1>11 DEF Shared
  <2>2. QED
    BY <1>12, <1>13, <2>1, SMTT(30)
<1>16. Ordered(p, written)
  <2>1. ASSUME NEW n \in Setup
        PROVE  Before(p, 17, n)
    <3>1. CASE n = "REG_SWIZZLE"
      <4>1. Writes(p[15], "REG_SWIZZLE") /\ 15 \in 1..17-1
        BY <1>6 DEF Writes, Tr
      <4>2. QED
        BY <3>1, <4>1 DEF Before
    <3>2. CASE n = "REG_PCLK_POL"
      <4>1. Writes(p[16], "REG_PCLK_POL") /\ 16 \in 1..17-1
        BY <1>6 DEF Writes, Tr
      <4>2. QED
        BY <3>2, <4>1 DEF Before
    <3>3. CASE n \in {Timing[i] : i \in DOMAIN Timing}
      <4>1. PICK k \in 1..10 : n = Timing[k]
        BY <1>10, <3>3
      <4>2. k + 4 \in 5..14 /\ (k + 4) - 4 = k /\ k + 4 \in 1..17-1
        OBVIOUS
      <4>3. p[k+4] = Tr("wr16", Timing[k])
        BY <1>6, <4>2
      <4>4. Writes(p[k+4], n)
        BY <4>1, <4>3 DEF Writes, Tr
      <4>5. QED
        BY <4>2, <4>4 DEF Before
    <3>4. QED
      BY <2>1, <3>1, <3>2, <3>3 DEF Setup
  <2>2. \A i \in 1..Len(p) : Writes(p[i], "REG_PCLK") => i = 17
    BY <1>11 DEF Shared
  <2>3. \A i \in 1..Len(p) : Writes(p[i], "REG_GPIO_DIR") => i = 19 + m
    BY <1>11 DEF Shared
  <2>4. Before(p, 19+m, "REG_PCLK")
    BY <1>12, <1>13 DEF Before, Writes
  <2>5. QED
    BY <2>1, <2>2, <2>3, <2>4 DEF Ordered
<1>17. asked.lcd = TRUE /\ asked.src = Sources
       /\ asked \in [lcd : BOOLEAN, src : SUBSET Sources]
  BY DEF Init
<1>18. Panel(p, regs, asked)
  <2>1. \A i \in 1..Len(p) : Writes(p[i], "REG_GPIO") => i = 21 + m
    BY <1>11 DEF Shared
  <2>2. "disp" \in p[21+m].set
    BY <1>13
  <2>3. QED
    BY <1>14, <1>17, <2>1, <2>2 DEF Panel
<1>19. place = <<"id">> /\ got = {} /\ answer = {} /\ gpu_int = 0 /\ written = {}
       /\ exti = FALSE /\ misread = FALSE /\ missed = FALSE
  BY DEF Init
<1>20. Booting /\ place # <<>> /\ place[1] = "id" /\ Len(place) = 1
       /\ place \in Seq(Places)
  BY <1>19 DEF Booting, Places
<1>21. Masked(p, regs, asked, Booting)
  <2>1. \A i \in 1..Len(p) : ~Writes(p[i], "REG_INT_MASK")
    BY <1>11 DEF Shared
  <2>2. QED
    BY <1>20, <2>1 DEF Masked
<1>22. PlanInv
  BY <1>1, <1>6, <1>15, <1>16, <1>18, <1>21 DEF PlanInv, p
<1>23. \A r \in Readable : r # "REG_ID" => regs[r] = IF r \in {"REG_GPIO_DIR", "REG_GPIO"}
                                                     THEN {"rest"} ELSE {}
  BY DEF Init
<1>24. \A r \in Readable : regs[r] \subseteq Bits[r]
  <2>1. regs["REG_ID"] \in {{"7C"}, {}}
    BY Registers DEF Init
  <2>2. QED
    BY <1>23, <2>1, Registers
<1>25. regs \in [Readable -> SUBSET UNION {Bits[r] : r \in Readable}]
  <2>1. regs = [r \in Readable |-> regs[r]]
    BY DEF Init
  <2>2. \A r \in Readable : regs[r] \subseteq UNION {Bits[s] : s \in Readable}
    BY <1>24
  <2>3. QED
    BY <2>1, <2>2
<1>26. RegsInv
  <2>1. {} \in UNION {SUBSET Bits[r] : r \in Readable}
    BY Registers
  <2>2. "rest" \in regs["REG_GPIO_DIR"] /\ "rest" \in regs["REG_GPIO"]
    BY <1>23, Registers
  <2>3. gpu_int \in 0..1
    BY <1>19
  <2>4. {misread, missed, exti} \subseteq BOOLEAN
    BY <1>19
  <2>5. /\ got \in UNION {SUBSET Bits[r] : r \in Readable}
        /\ answer \in UNION {SUBSET Bits[r] : r \in Readable}
    BY <1>19, <2>1
  <2>6. QED
    BY <1>17, <1>24, <1>25, <2>2, <2>3, <2>4, <2>5 DEF RegsInv
<1>27. PanelInv
  BY <1>19, <1>23, Registers DEF PanelInv
<1>28. PlaceInv
  BY <1>14, <1>17, <1>20 DEF PlaceInv, p
<1>29. AnswerInv
  BY <1>1 DEF AnswerInv
<1>30. QED
  BY <1>3, <1>4, <1>5, <1>22, <1>26, <1>27, <1>28, <1>29 DEF IInv, WireInv

LEMMA NextIInv ==
  ASSUME IInv, [Next]_vars
  PROVE  IInv'
<1>1. /\ WireInv /\ RegsInv /\ PlanInv /\ PanelInv /\ PlaceInv /\ AnswerInv
      /\ code # <<>> => plan # <<>>
  BY DEF IInv, PlanInv
<1>2. CASE Begin
  <2>1. WireInv' /\ AnswerInv' /\ plan # <<>> /\ UNCHANGED <<mcu, chip>>
    BY <1>1, <1>2, BeginAnswer
  <2>2. RegsInv'
    BY <1>1, <2>1 DEF RegsInv, mcu, chip
  <2>3. PlanInv' /\ PanelInv' /\ PlaceInv'
    <3>1. UNCHANGED <<plan, place, got, written, asked, regs>>
      BY <2>1 DEF mcu, chip
    <3>2. QED
      BY <1>1, <2>1, <3>1, Elsewhere
  <2>4. QED
    BY <2>1, <2>2, <2>3 DEF IInv
<1>3. CASE Step
  <2>1. Cpu /\ UNCHANGED <<mcu, chip>>
    BY <1>3 DEF Step
  <2>2. WireInv' /\ AnswerInv' /\ code # <<>>
    BY <1>1, <2>1, CpuWire, StepAnswer
  <2>3. RegsInv'
    BY <1>1, <2>1 DEF RegsInv, mcu, chip
  <2>4. PlanInv' /\ PanelInv' /\ PlaceInv'
    <3>1. UNCHANGED <<plan, place, got, written, asked, regs>>
      BY <2>1 DEF mcu, chip
    <3>2. QED
      BY <1>1, <2>2, <3>1, Elsewhere
  <2>5. QED
    BY <2>2, <2>3, <2>4 DEF IInv
<1>4. CASE End
  BY <1>4, EndStep
<1>5. CASE Configure
  BY <1>5, ConfigureStep
<1>6. CASE Balls \/ Cmd \/ FlushRead \/ FlushWrite \/ FlushSend
           \/ Calibrate \/ Wait \/ Flags
  BY <1>6, MainSteps
<1>7. CASE Api
  BY <1>7, ApiStep
<1>8. CASE is_enabled
  BY <1>8, IsEnabledStep
<1>9. CASE ExtiHandler
  <2>1. /\ Interrupted /\ exti' = FALSE /\ gpu_int' = 1
        /\ UNCHANGED <<plan, place, got, cmd_rd_reg, asked, misread, missed, answer,
                       regs, written>>
    BY <1>9 DEF ExtiHandler
  <2>2. WireInv' /\ UNCHANGED <<code, sent, frame>> /\ (Active' <=> Active)
    BY <1>1, <2>1, InterruptedWire
  <2>3. RegsInv'
    <3>1. gpu_int' \in 0..1
      BY <2>1
    <3>2. {misread', missed', exti'} \subseteq BOOLEAN
      BY <1>1, <2>1 DEF RegsInv
    <3>3. QED
      BY <1>1, <2>1, <3>1, <3>2 DEF RegsInv
  <2>4. AnswerInv'
    BY <1>1, <2>1, <2>2 DEF AnswerInv, Takes, Drops, Reads
  <2>5. PlanInv' /\ PanelInv' /\ PlaceInv'
    BY <1>1, <2>1, <2>2, Elsewhere
  <2>6. QED
    BY <2>2, <2>3, <2>4, <2>5 DEF IInv
<1>10. CASE Send
  <2>1. /\ WireInv' /\ AnswerInv' /\ RegsInv'
        /\ \A r \in Shared : regs'[r] = regs[r]
        /\ UNCHANGED <<code, plan, place, got, asked, written>>
    BY <1>1, <1>10, SendAnswer
  <2>2. PlanInv' /\ PanelInv' /\ PlaceInv'
    BY <1>1, <2>1, Elsewhere
  <2>3. QED
    BY <2>1, <2>2 DEF IInv
<1>11. CASE Touch \/ Execute
  <2>1. /\ RegsInv' /\ UNCHANGED <<code, spi, mcu, answer, written>>
        /\ \A r \in Shared : regs'[r] = regs[r]
    BY <1>1, <1>11, ChipSteps
  <2>2. WireInv'
    BY <1>1, <2>1, WireSame
  <2>3. UNCHANGED <<plan, place, got, asked, sent, frame>>
    BY <2>1 DEF mcu, spi
  <2>4. AnswerInv'
    BY <1>1, <2>1, <2>3 DEF AnswerInv, Active, Takes, Drops, Reads
  <2>5. PlanInv' /\ PanelInv' /\ PlaceInv'
    BY <1>1, <2>1, <2>3, Elsewhere
  <2>6. QED
    BY <2>1, <2>2, <2>4, <2>5 DEF IInv
<1>12. CASE UNCHANGED vars
  <2>1. UNCHANGED <<code, spi, mcu, chip>>
    BY <1>12 DEF vars
  <2>2. WireInv'
    BY <1>1, <2>1, WireSame
  <2>3. /\ UNCHANGED <<plan, place, got, gpu_int, asked, misread, missed, answer,
                       regs, written, exti, sent, frame>>
        /\ \A r \in Shared : regs'[r] = regs[r]
    BY <2>1 DEF mcu, chip, spi
  <2>4. RegsInv'
    BY <1>1, <2>3 DEF RegsInv
  <2>5. AnswerInv'
    BY <1>1, <2>1, <2>3 DEF AnswerInv, Active, Takes, Drops, Reads
  <2>6. PlanInv' /\ PanelInv' /\ PlaceInv'
    BY <1>1, <2>1, <2>3, Elsewhere
  <2>7. QED
    BY <2>2, <2>4, <2>5, <2>6 DEF IInv
<1>13. QED
  BY <1>2, <1>3, <1>4, <1>5, <1>6, <1>7, <1>8, <1>9, <1>10, <1>11, <1>12
     DEF Next, Main

LEMMA IInvHolds == Spec => []IInv
<1>1. Init => IInv
  BY InitIInv
<1>2. IInv /\ [Next]_vars => IInv'
  BY NextIInv
<1>3. QED
  BY <1>1, <1>2, PTL DEF Spec
-----------------------------------------------------------------------------
(* The variables keep their types: no transfer is longer than Old, and the *)
(* chip's registers hold only bits they have.                              *)
THEOREM TypeCorrect == Spec => []TypeOK
<1>1. ASSUME IInv
      PROVE  TypeOK
  <2>1. WireInv /\ RegsInv
    BY <1>1 DEF IInv
  <2>2. sent \in Nat /\ sent < Old /\ Old \in Nat /\ spe \in BOOLEAN
    <3>1. Old \in Nat
      BY LengthAssumption DEF Old
    <3>2. CodeInv
      BY <2>1 DEF WireInv
    <3>3. sent \in Nat /\ spe \in BOOLEAN
      BY <3>2 DEF CodeInv
    <3>4. Len(code) \in Nat
      BY <3>2 DEF CodeInv, Shape
    <3>5. sent < Old
      BY <3>1, <3>2, <3>3, <3>4 DEF CodeInv
    <3>6. QED
      BY <3>1, <3>3, <3>5
  <2>3. 0..Old-1 = Slots \ {Old} /\ 0..Old-1 \subseteq Slots /\ 3..Old-1 \subseteq Slots
    BY <2>2 DEF Slots
  <2>4. shift \in {<<>>} \cup [1..1 -> Slots]
    <3>1. shift = <<>> \/ shift = <<Len(frame)>>
      BY <2>1 DEF WireInv, FrameInv
    <3>2. Len(frame) \in Slots
      <4>1. Len(frame) \in Nat /\ Len(shift) \in Nat
        BY <2>1, <3>1 DEF WireInv, FrameInv
      <4>2. \/ sent = Len(frame) + Len(shift)
            \/ sent = Len(frame) + Len(shift) + 1
        BY <2>1, <4>1 DEF WireInv, FrameInv
      <4>3. QED
        BY <2>2, <4>1, <4>2 DEF Slots
    <3>3. <<Len(frame)>> \in [1..1 -> Slots]
      BY <3>2
    <3>4. QED
      BY <3>1, <3>3
  <2>5. frame \in Seq(Slots \ {Old}) /\ dr \in Slots /\ txe \in BOOLEAN
    BY <2>1, <2>3 DEF WireInv, FrameInv
  <2>6. value \in Seq(Slots)
    <3>1. value \in Seq(3..Old-1)
      BY <2>1 DEF WireInv, ReceiveInv
    <3>2. 3..Old-1 \subseteq Slots
      BY <2>3
    <3>3. value \in [1..Len(value) -> 3..Old-1] /\ Len(value) \in Nat
      BY <3>1, LenProperties
    <3>4. value \in [1..Len(value) -> Slots]
      BY <3>2, <3>3
    <3>5. QED
      BY <3>3, <3>4
  <2>7. /\ rx \in Slots /\ ovr \in {"clear", "set", "read"}
        /\ rxne \in BOOLEAN /\ fresh \in BOOLEAN /\ delayed \in BOOLEAN
    BY <2>1 DEF WireInv, ReceiveInv, Slots
  <2>8. sent \in Slots
    BY <2>2 DEF Slots
  <2>9. SpiTypeOK
    BY <2>2, <2>4, <2>5, <2>6, <2>7, <2>8 DEF SpiTypeOK
  <2>10. asked.src \subseteq Sources
    BY <2>1 DEF RegsInv
  <2>11. QED
    BY <2>1, <2>9, <2>10 DEF TypeOK, RegsInv
<1>2. QED
  BY <1>1, IInvHolds, PTL

(* Each transfer the chip got is one whole frame: none of its bytes is     *)
(* overwritten in DR or cut off in the shift register when SPE is cleared. *)
THEOREM FramesAreWhole == Spec => []FrameWhole
<1>1. ASSUME IInv
      PROVE  FrameWhole
  <2> SUFFICES ASSUME ~spe
               PROVE  frame = [i \in 1..sent |-> i - 1]
    BY DEF FrameWhole
  <2>1. /\ frame \in Seq(0..Old-1) /\ txe /\ shift = <<>>
        /\ \A i \in 1..Len(frame) : frame[i] = i - 1
        /\ sent = Len(frame) + Len(shift) + (IF txe THEN 0 ELSE 1)
    BY <1>1 DEF IInv, WireInv, FrameInv
  <2>2. Len(frame) \in Nat /\ Len(shift) = 0
    BY <2>1
  <2>3. sent = Len(frame)
    BY <2>1, <2>2
  <2>4. frame \in [1..Len(frame) -> 0..Old-1]
    BY <2>1, LenProperties
  <2>5. QED
    BY <2>1, <2>3, <2>4
<1>2. QED
  BY <1>1, IInvHolds, PTL

(* A value that was read is put together from bytes of its own transfer,   *)
(* behind the address and in order, whatever was left in the receive       *)
(* buffer and however many bytes were overrun.                             *)
THEOREM ReadsInOrder == Spec => []ReadInOrder
<1>1. ASSUME IInv
      PROVE  ReadInOrder
  <2>1. /\ value \in Seq(3..Old-1)
        /\ \A i \in 1..Len(value) : i > 1 => value[i] > value[i-1]
    BY <1>1 DEF IInv, WireInv, ReceiveInv
  <2>2. Old \in Nat
    BY LengthAssumption DEF Old
  <2>3. \A i \in 1..Len(value) : value[i] \in 3..Old-1
    BY <2>1, LenProperties
  <2>4. \A n \in 3..Old-1 : n > 2 /\ n # Old
    BY <2>2
  <2>5. QED
    BY <2>1, <2>3, <2>4 DEF ReadInOrder
<1>2. QED
  BY <1>1, IInvHolds, PTL

(* The panel is never on without its timing and its clock, in the boot     *)
(* sequence and whatever is called afterwards.                             *)
THEOREM PanelIsLast == Spec => []PanelComesLast
<1>1. ASSUME IInv
      PROVE  PanelComesLast
  BY <1>1 DEF IInv, PanelInv, PanelComesLast, PanelOn, Setup
<1>2. QED
  BY <1>1, IInvHolds, PTL

(* Between two calls of the api the panel, the enabled sources and the     *)
(* other bits of the registers are what was asked for, and is_enabled      *)
(* answers accordingly.                                                    *)
THEOREM ApiAsAsked == Spec => []AsAsked
<1>1. ASSUME IInv
      PROVE  AsAsked
  <2> SUFFICES ASSUME At("api") \/ At("enabled")
               PROVE  /\ PanelOn = asked.lcd
                      /\ regs["REG_INT_MASK"] = asked.src
                      /\ "rest" \in regs["REG_GPIO_DIR"] \cap regs["REG_GPIO"]
                      /\ At("enabled") => ("disp" \in got) = asked.lcd
    BY DEF AsAsked
  <2>1. plan = <<>> /\ place # <<>> /\ place[1] # "id"
    BY DEF At
  <2>2. /\ ("disp" \in regs["REG_GPIO"]) = asked.lcd
        /\ "disp" \in regs["REG_GPIO_DIR"]
        /\ regs["REG_INT_MASK"] = asked.src
    BY <1>1, <2>1, Idle DEF Booting
  <2>3. PanelOn = ("disp" \in regs["REG_GPIO"])
    BY <2>2 DEF PanelOn
  <2>4. "rest" \in regs["REG_GPIO_DIR"] \cap regs["REG_GPIO"]
    BY <1>1 DEF IInv, RegsInv
  <2>5. ASSUME At("enabled")
        PROVE  got = regs["REG_GPIO"]
    <3>1. plan # <<Tr("rd8", "REG_GPIO")>>
      BY <2>1
    <3>2. QED
      BY <1>1, <2>1, <2>5, <3>1 DEF IInv, PlaceInv, At
  <2>6. QED
    BY <2>2, <2>3, <2>4, <2>5
<1>2. QED
  BY <1>1, IInvHolds, PTL
=============================================================================
