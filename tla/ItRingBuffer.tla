---------------------------- MODULE ItRingBuffer ----------------------------
(***************************************************************************)
(* ft80x_it_ringbuffer.c: the byte ring buffer between the main thread,    *)
(* which appends command bytes, and the SPI interrupt handler, which takes *)
(* them.  There is no lock: the main thread alone writes head, the handler *)
(* alone writes tail, and the handler can run between any two steps of an  *)
(* append.  An append is therefore three kinds of step here: the test for  *)
(* room, one step per copied byte, and the store that publishes head.  The *)
(* handler is not preempted by the main thread, so get is one step.        *)
(*                                                                         *)
(* `x & (FT801_RINGBUFFER_SIZE-1)' is `x % Size': the size is a power of   *)
(* two.  head and tail are not masked when they are stored, they only grow *)
(* until the next reset; MaxIndex bounds them (INT_MAX in the program,     *)
(* where every painting starts with a reset).                              *)
(***************************************************************************)
EXTENDS Naturals, Sequences

CONSTANTS Size,      \* FT801_RINGBUFFER_SIZE
          Byte,      \* the values a byte can take
          WordLen,   \* bytes in one command word (4)
          MaxLen,    \* longest string passed to appendBuff or copyto
          MaxIndex   \* bound on head

ASSUME SizeAssumption == Size \in Nat \ {0, 1}
ASSUME ByteAssumption == Byte # {}
ASSUME LenAssumption == WordLen \in Nat \ {0} /\ MaxLen \in Nat \ {0}

VARIABLES buf,      \* the cells
          head,     \* bytes ever appended since the reset
          tail,     \* bytes ever taken since the reset
          data,     \* the string being appended, <<>> between two calls
          written,  \* how many bytes of it are already in their cells
          result,   \* what the last append returned
          out       \* the byte the last successful get handed over

vars == <<buf, head, tail, data, written, result, out>>

Cell(n) == n % Size

(* Every string the main thread may append. *)
Strings == UNION {[1..n -> Byte] : n \in {1, WordLen} \cup 1..MaxLen}

-----------------------------------------------------------------------------
(* Faulty: no cell is kept free. *)
freespaceNoGap == Size - ((head - tail) % Size)

isempty   == head = tail
isfull    == Cell(head + 1) = Cell(tail)
fullness  == (head - tail) % Size
freespace == (Size - fullness) - 1

-----------------------------------------------------------------------------
Init == /\ buf \in [0..Size-1 -> Byte]
        /\ head = 0
        /\ tail = 0
        /\ data = <<>>
        /\ written = 0
        /\ result = TRUE
        /\ out \in Byte

(* The entry of an append: the test for room, then the copying starts. *)
Enter(s, room) ==
  /\ data = <<>>
  /\ head + Len(s) <= MaxIndex
  /\ IF room THEN data' = s /\ UNCHANGED result
             ELSE result' = FALSE /\ UNCHANGED data
  /\ UNCHANGED <<buf, head, tail, written, out>>

append(b) == Enter(<<b>>, ~isfull)

append_32b_ld(w) == Enter(w, WordLen <= freespace)

appendBuff(s) == Enter(s, ~isfull /\ Len(s) <= freespace)

copyto(b, n) == Enter([j \in 1..n |-> b], ~isfull /\ n <= freespace)

(* One turn of the copying loop; head is not moved yet. *)
WriteByte ==
  /\ data # <<>>
  /\ written < Len(data)
  /\ buf' = [buf EXCEPT ![Cell(head + written)] = data[written + 1]]
  /\ written' = written + 1
  /\ UNCHANGED <<head, tail, data, result, out>>

(* Faulty: head is moved before the bytes are in their cells. *)
PublishEarly ==
  /\ data # <<>>
  /\ head' = head + Len(data)
  /\ data' = <<>>
  /\ written' = 0
  /\ result' = TRUE
  /\ UNCHANGED <<buf, tail, out>>

(* Faulty: the loop index survives the call. *)
PublishKeepsWritten ==
  /\ data # <<>>
  /\ written = Len(data)
  /\ head' = head + Len(data)
  /\ data' = <<>>
  /\ result' = TRUE
  /\ UNCHANGED <<buf, tail, out, written>>

(* The store to head that makes the string visible to the handler. *)
Publish ==
  /\ data # <<>>
  /\ written = Len(data)
  /\ head' = head + Len(data)
  /\ data' = <<>>
  /\ written' = 0
  /\ result' = TRUE
  /\ UNCHANGED <<buf, tail, out>>

(* The handler's side. *)
get ==
  /\ ~isempty
  /\ out' = buf[Cell(tail)]
  /\ tail' = tail + 1
  /\ UNCHANGED <<buf, head, data, written, result>>

(* Called by the main thread between two appends, the handler disabled. *)
reset ==
  /\ data = <<>>
  /\ head' = 0
  /\ tail' = 0
  /\ UNCHANGED <<buf, data, written, result, out>>

Next == \/ \E b \in Byte : append(b)
        \/ \E w \in [1..WordLen -> Byte] : append_32b_ld(w)
        \/ \E n \in 1..MaxLen : \E s \in [1..n -> Byte] : appendBuff(s)
        \/ \E b \in Byte, n \in 1..MaxLen : copyto(b, n)
        \/ WriteByte
        \/ Publish
        \/ get
        \/ reset

Spec == Init /\ [][Next]_vars

-----------------------------------------------------------------------------
(* The variables keep their types, and between two calls nothing is left   *)
(* of the last string.                                                     *)
TypeOK == /\ buf \in [0..Size-1 -> Byte]
          /\ head \in Nat
          /\ tail \in Nat
          /\ data \in {<<>>} \cup Strings
          /\ written \in 0..Len(data)
          /\ result \in BOOLEAN
          /\ out \in Byte

(* The room an append found is still there when it writes and publishes,   *)
(* however many bytes the handler takes meanwhile: tail never passes head, *)
(* and head plus the string in flight stays short of lapping tail (one     *)
(* cell is always kept free, which is what tells full from empty).         *)
NoOverrun == /\ tail <= head
             /\ (head + Len(data)) - tail <= Size - 1

(* The bytes between tail and head, oldest first. *)
Contents == [j \in 1..(head - tail) |-> buf[Cell(tail + j - 1)]]

(* The ring buffer implements the bounded byte queue: the handler gets the *)
(* bytes the appends were called with, in order, never a byte of a string  *)
(* still being copied; an append returns false only when its string does   *)
(* not fit.                                                                *)
Fifo == INSTANCE ByteFifo WITH Capacity <- Size - 1,
                               arg <- data, queue <- Contents
ImplementsFifo == Fifo!Spec

=============================================================================
