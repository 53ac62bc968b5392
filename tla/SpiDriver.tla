----------------------------- MODULE SpiDriver -----------------------------
(***************************************************************************)
(* spi.c: the blocking transfers, down to the registers of the SPI.        *)
(*                                                                         *)
(* A transfer is a fixed sequence of accesses to SPI_CR1, SPI_SR and       *)
(* SPI_DR, here a sequence of operations of which code is what is left to  *)
(* do.  Beside it the peripheral runs at a speed of its own: a byte in DR  *)
(* goes into the shift register as soon as that is empty, and every byte   *)
(* sent brings one back, which nobody reads while an address or a value is *)
(* written.                                                                *)
(*                                                                         *)
(* Bytes are numbered by their place in the transfer: 0, 1, 2 carry the    *)
(* address, 3 is the dummy byte of a read, and the chip puts the value     *)
(* into the ones from 4 on.                                                *)
(***************************************************************************)
EXTENDS Naturals, Sequences

CONSTANTS StreamLen,  \* bytes in a stream: an address and a command list
          DlLen       \* bytes in a display list

ASSUME LengthAssumption == StreamLen \in Nat \ {0} /\ DlLen \in Nat

VARIABLES
  code,        \* the rest of the transfer, <<>> between two
  spe,         \* SPE: the chip is selected
  txe, dr,     \* TXE, and the byte in DR while it is not set
  shift,       \* the byte in the shift register, if any; then BSY is set
  rxne, rx,    \* RXNE, and the last byte in the receive buffer
  ovr,         \* OVR: "clear", "set", or "read" when DR was read since
  sent,        \* bytes written to DR in this transfer
  frame,       \* bytes the chip got since it was selected
  value,       \* the bytes of the value read
  fresh,       \* DR was written and SR not looked at since
  delayed      \* history: an interrupt came then, and an overrun was pending

spi == <<spe, txe, dr, shift, rxne, rx, ovr, sent, frame, value, fresh, delayed>>

(* A byte left over from an earlier transfer: more than any transfer has.  *)
Old == StreamLen + DlLen + 28
Slots == 0..Old

SpiInit == /\ code = <<>>
           /\ spe = FALSE /\ txe = TRUE /\ dr = 0 /\ shift = <<>>
           /\ rxne = FALSE /\ rx = 0 /\ ovr = "clear"
           /\ sent = 0 /\ frame = <<>> /\ value = <<>>
           /\ fresh = FALSE /\ delayed = FALSE

-----------------------------------------------------------------------------
(* The transfers. *)
Put(n) == [i \in 1..n |-> "put"]

(* A byte is read by writing one. *)
ReadByte == <<"write", "txe", "rxne", "take">>
ReadBytes(n) == [i \in 1..4*n |-> ReadByte[((i - 1) % 4) + 1]]

Enable == <<"spe">>

(* Faulty: line 138, which was commented out, leaves when either holds. *)
DisableEither == <<"txe", "off">>

Disable == <<"txe", "busy", "off">>

host_cmd         == Enable \o Put(3) \o Disable
spi_write_stream == Enable \o Put(StreamLen) \o <<"busy">> \o Disable
mem_wr(n)        == Enable \o Put(3 + n) \o Disable

(* rd8 takes the second of the two bytes it reads. *)
rd8 == Enable \o Put(3) \o <<"txe">>
       \o <<"write", "txe", "drop", "write", "txe", "rxne", "take">> \o Disable

(* Faulty: the dummy byte is not read. *)
rdKeepsDummy(n) == Enable \o Put(3) \o <<"txe">>
                   \o <<"write", "txe">>
                   \o ReadBytes(n) \o Disable

(* Faulty: the dummy byte is read twice. *)
rdTwoDummies(n) == Enable \o Put(3) \o <<"txe">>
                   \o <<"write", "txe", "rxne", "drop", "rxne", "drop">>
                   \o ReadBytes(n) \o Disable

(* rd16 and rd32 take every byte behind the dummy. *)
rd(n) == Enable \o Put(3) \o <<"txe">>
         \o <<"write", "txe", "rxne", "drop">>
         \o ReadBytes(n) \o Disable

rd16 == rd(2)
rd32 == rd(4)

Transfers == [host_cmd |-> host_cmd, stream |-> spi_write_stream,
              wrStream |-> mem_wr(DlLen), wr8 |-> mem_wr(1), wr16 |-> mem_wr(2),
              wr32 |-> mem_wr(4), rd8 |-> rd8, rd16 |-> rd16, rd32 |-> rd32]

Call(name) == /\ code = <<>>
              /\ code' = Transfers[name]
              /\ UNCHANGED spi

-----------------------------------------------------------------------------
(* The processor. *)
Op(name) == code # <<>> /\ Head(code) = name
Done     == code' = Tail(code) /\ fresh' = FALSE

SetSpe == /\ Op("spe") /\ Done
          /\ spe' = TRUE
          /\ sent' = 0 /\ frame' = <<>> /\ value' = <<>>
          /\ rx' = Old
          /\ UNCHANGED <<txe, dr, shift, rxne, ovr, delayed>>

(* A look at SR: it ends an overrun if DR was read before. *)
Poll(name, flag) ==
  /\ Op(name)
  /\ code' = IF flag THEN Tail(code) ELSE code
  /\ fresh' = FALSE
  /\ ovr' = IF ovr = "read" THEN "clear" ELSE ovr
  /\ UNCHANGED <<spe, txe, dr, shift, rxne, rx, sent, frame, value, delayed>>

(* A byte is written, or put: written after a look at TXE.  It then takes  *)
(* 32 cycles (CR1 divides the clock by four): without an interrupt SR is   *)
(* read before it is through.                                              *)
WriteDr == /\ Op("write") \/ (Op("put") /\ txe)
           /\ code' = Tail(code)
           /\ IF shift = <<>> /\ spe THEN shift' = <<sent>> /\ UNCHANGED <<dr, txe>>
                               ELSE dr' = sent /\ txe' = FALSE /\ UNCHANGED shift
           /\ sent' = sent + 1
           /\ fresh' = TRUE
           /\ ovr' = IF Op("put") /\ ovr = "read" THEN "clear" ELSE ovr
           /\ UNCHANGED <<spe, rxne, rx, frame, value, delayed>>

ReadDr(name) == /\ Op(name) /\ Done
                /\ rxne' = FALSE
                /\ ovr' = IF ovr = "set" THEN "read" ELSE ovr
                /\ value' = IF name = "take" THEN Append(value, rx) ELSE value
                /\ UNCHANGED <<spe, txe, dr, shift, rx, sent, frame, delayed>>

(* The end: the chip is deselected; what the shift register still holds is *)
(* cut off.                                                                *)
ClearSpe == /\ Op("off") /\ Done
            /\ spe' = FALSE
            /\ shift' = <<>>
            /\ UNCHANGED <<txe, dr, rxne, rx, ovr, sent, frame, value, delayed>>

(* The steps before that. *)
Cpu == \/ SetSpe
       \/ Poll("txe", txe) \/ Poll("rxne", rxne) \/ Poll("busy", shift = <<>>)
       \/ WriteDr \/ ReadDr("drop") \/ ReadDr("take")

(* An interrupt handler that leaves the SPI alone: time passes. *)
Interrupted == /\ fresh' = FALSE
               /\ delayed' = (delayed \/ (fresh /\ ovr # "clear"))
               /\ UNCHANGED <<code, spe, txe, dr, shift, rxne, rx, ovr, sent,
                              frame, value>>

-----------------------------------------------------------------------------
(* The peripheral: a byte is through, and the next one follows it.  The    *)
(* one that came back goes to the receive buffer; it is lost when that is  *)
(* full, and until the overrun is over.                                    *)
ShiftOut ==
  /\ spe /\ shift # <<>>
  /\ fresh => ~txe
  /\ shift' = IF txe THEN <<>> ELSE <<dr>>
  /\ txe' = TRUE
  /\ frame' = frame \o shift
  /\ LET kept == ~rxne /\ ovr = "clear"
     IN  /\ rx'   = IF kept THEN Len(frame) ELSE rx
         /\ rxne' = (rxne \/ kept)
         /\ ovr'  = IF rxne THEN "set" ELSE ovr
  /\ UNCHANGED <<code, spe, dr, sent, value, fresh, delayed>>

-----------------------------------------------------------------------------
(* The variables keep their types, and no transfer is longer than Old. *)
SpiTypeOK == /\ {spe, txe, rxne, fresh, delayed} \subseteq BOOLEAN
             /\ dr \in Slots /\ rx \in Slots
             /\ shift \in {<<>>} \cup [1..1 -> Slots]
             /\ ovr \in {"clear", "set", "read"}
             /\ sent \in Slots
             /\ frame \in Seq(Slots \ {Old}) /\ value \in Seq(Slots)

(* Each transfer is one whole frame: when the chip is deselected it has    *)
(* got every byte of it, in order, none overwritten in DR or cut off in    *)
(* the shift register, at whatever speed the processor and the SPI run.    *)
FrameWhole == ~spe => frame = [i \in 1..sent |-> i - 1]

(* Whatever an earlier transfer left in the receive buffer and however     *)
(* many bytes were overrun, a value is put together from bytes of this     *)
(* transfer, none of the address, each later than the one before it.       *)
ReadInOrder == \A i \in 1..Len(value) :
                  /\ value[i] > 2 /\ value[i] # Old
                  /\ i > 1 => value[i] > value[i - 1]

(* No transfer waits for a flag that never comes, unless an interrupt      *)
(* came at the one place where its bytes can be overrun behind the         *)
(* processor's back.                                                       *)
CallsReturn == code # <<>> ~> code = <<>> \/ delayed
=============================================================================
