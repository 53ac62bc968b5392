--------------------------- MODULE RingBufferProofs ---------------------------
(***************************************************************************)
(* Proofs about the two ring buffers of the driver.                        *)
(*                                                                         *)
(* ItRingBuffer, for every size, byte set and string length: its type      *)
(* invariant, NoOverrun, and that it implements ByteFifo.  Size need not   *)
(* be a power of two for any of this: the power of two is what lets the    *)
(* program mask instead of dividing.                                       *)
(*                                                                         *)
(* RingBufferApi, for every number of rings, all attributes and every      *)
(* width of size_t: Held.                                                  *)
(***************************************************************************)
EXTENDS ItRingBuffer, RingBufferApi, Modulo, SequenceTheorems

-----------------------------------------------------------------------------
(* The transmit ring: cell numbers.                                        *)

LEMMA SmallModulo == ASSUME NEW x \in 0..Size-1 PROVE x % Size = x
BY Small, SizeAssumption

LEMMA CellRange == ASSUME NEW x \in Nat PROVE Cell(x) \in 0..Size-1
BY Division, SizeAssumption DEF Cell

(* Two indices less than Size apart are in different cells. *)
LEMMA DistinctCells ==
  ASSUME NEW x \in Nat, NEW y \in Nat, x < y, y - x < Size
  PROVE  Cell(x) # Cell(y)
<1>1. x \in Int /\ y \in Int /\ Size \in Nat \ {0}
  BY SizeAssumption
<1>2. x % Size # y % Size
  BY <1>1, Apart
<1>3. QED
  BY <1>2 DEF Cell

(* Indices Size apart share a cell. *)
LEMMA SameCell == ASSUME NEW x \in Nat PROVE Cell(x + Size) = Cell(x)
<1>1. /\ 1 \in Int /\ Size * 1 = Size /\ Size \in Nat \ {0}
      /\ x \in Int
  BY SizeAssumption
<1>2. (x + Size * 1) % Size = x % Size
  BY <1>1, Turns
<1>3. QED
  BY <1>1, <1>2 DEF Cell

-----------------------------------------------------------------------------
(* Strings are non-empty sequences of bytes. *)
LEMMA StringType == ASSUME NEW s \in Strings
                    PROVE  s \in Seq(Byte) /\ Len(s) \in Nat \ {0}
<1>1. PICK n \in {1, WordLen} \cup 1..MaxLen : s \in [1..n -> Byte]
  BY DEF Strings
<1>2. n \in Nat \ {0}
  BY LenAssumption
<1>3. QED
  BY <1>1, <1>2

(* The room the appends test for is room for the whole string. *)
LEMMA Room ==
  ASSUME TypeOK, NoOverrun, data = <<>>
  PROVE  /\ isfull <=> (head - tail) + 1 > Size - 1
         /\ freespace = (Size - 1) - (head - tail)
<1>1. head - tail \in 0..Size-1
  BY SizeAssumption DEF TypeOK, NoOverrun
<1>2. freespace = (Size - 1) - (head - tail)
  BY <1>1, SmallModulo, SizeAssumption DEF freespace, fullness
<1>3. ASSUME head - tail = Size - 1 PROVE isfull
  <2>1. head + 1 = tail + Size
    BY <1>3, SizeAssumption DEF TypeOK
  <2>2. QED
    BY <2>1, SameCell DEF isfull, TypeOK
<1>4. ASSUME head - tail < Size - 1 PROVE ~isfull
  <2>1. tail < head + 1 /\ (head + 1) - tail < Size
    BY <1>1, <1>4, SizeAssumption DEF TypeOK
  <2>2. QED
    BY <2>1, DistinctCells, SizeAssumption DEF isfull, TypeOK
<1>5. QED
  BY <1>1, <1>2, <1>3, <1>4, SizeAssumption DEF TypeOK

(* Whatever its own test, every append enters its string exactly when the  *)
(* string fits.                                                            *)
Fits(s) == Len(s) <= (Size - 1) - (head - tail)

LEMMA AppendsAreEntries ==
  ASSUME TypeOK, NoOverrun, Next
  PROVE  (\E s \in Strings : Enter(s, Fits(s)))
         \/ WriteByte \/ Publish \/ get \/ reset
<1>1. CASE \E b \in Byte : append(b)
  <2>1. PICK b \in Byte : append(b)
    BY <1>1
  <2>2. <<b>> \in [1..1 -> Byte] /\ Len(<<b>>) = 1
    OBVIOUS
  <2>3. <<b>> \in Strings
    BY <2>2 DEF Strings
  <2>4. data = <<>> /\ (~isfull <=> Fits(<<b>>))
    BY <2>1, <2>2, Room, SizeAssumption DEF append, Enter, TypeOK, Fits
  <2>5. Enter(<<b>>, Fits(<<b>>))
    BY <2>1, <2>4 DEF append, Enter
  <2>6. QED
    BY <2>3, <2>5
<1>2. CASE \E w \in [1..WordLen -> Byte] : append_32b_ld(w)
  <2>1. PICK w \in [1..WordLen -> Byte] : append_32b_ld(w)
    BY <1>2
  <2>2. w \in Strings /\ Len(w) = WordLen
    BY LenAssumption DEF Strings
  <2>3. WordLen <= freespace <=> Fits(w)
    BY <2>1, <2>2, Room DEF append_32b_ld, Enter, Fits
  <2>4. Enter(w, Fits(w))
    BY <2>1, <2>3 DEF append_32b_ld, Enter
  <2>5. QED
    BY <2>2, <2>4
<1>3. CASE \E n \in 1..MaxLen : \E s \in [1..n -> Byte] : appendBuff(s)
  <2>1. PICK n \in 1..MaxLen : \E s \in [1..n -> Byte] : appendBuff(s)
    BY <1>3
  <2>2. PICK s \in [1..n -> Byte] : appendBuff(s)
    BY <2>1
  <2>3. s \in Strings /\ Len(s) = n
    BY LenAssumption DEF Strings
  <2>4. ~isfull /\ Len(s) <= freespace <=> Fits(s)
    BY <2>2, <2>3, Room, SizeAssumption, LenAssumption
       DEF appendBuff, Enter, TypeOK, Fits
  <2>5. Enter(s, Fits(s))
    BY <2>2, <2>4 DEF appendBuff, Enter
  <2>6. QED
    BY <2>3, <2>5
<1>4. CASE \E b \in Byte, n \in 1..MaxLen : copyto(b, n)
  <2>1. PICK b \in Byte, n \in 1..MaxLen : copyto(b, n)
    BY <1>4
  <2> DEFINE s == [j \in 1..n |-> b]
  <2>2. s \in [1..n -> Byte] /\ Len(s) = n
    BY LenAssumption
  <2>3. s \in Strings
    BY <2>2 DEF Strings
  <2>4. ~isfull /\ n <= freespace <=> Fits(s)
    BY <2>1, <2>2, Room, SizeAssumption, LenAssumption
       DEF copyto, Enter, TypeOK, Fits
  <2>5. Enter(s, Fits(s))
    BY <2>1, <2>4 DEF copyto, Enter
  <2>6. QED
    BY <2>3, <2>5
<1>5. QED
  BY <1>1, <1>2, <1>3, <1>4 DEF Next

-----------------------------------------------------------------------------
(* The inductive invariant: the two invariants the runs check, and, for    *)
(* the refinement, the bytes of the string in flight that are already in   *)
(* their cells.                                                            *)
Copied == \A j \in 1..written : buf[Cell(head + j - 1)] = data[j]

IInv == TypeOK /\ NoOverrun /\ Copied

LEMMA InitIInv == Init => IInv
<1> SUFFICES ASSUME Init PROVE IInv
  OBVIOUS
<1>1. TypeOK
  BY DEF Init, TypeOK
<1>2. NoOverrun
  BY SizeAssumption DEF Init, NoOverrun
<1>3. Copied
  BY DEF Init, Copied
<1>4. QED
  BY <1>1, <1>2, <1>3 DEF IInv

(* Indices from tail up to the last byte of the string in flight are less  *)
(* than Size apart: the copying never touches a byte still to be taken,    *)
(* nor a byte it has copied before.                                        *)
LEMMA StepIInv == ASSUME IInv, [Next]_vars PROVE IInv'
<1> USE DEF IInv
<1> TypeOK /\ NoOverrun /\ Copied
  OBVIOUS
<1>1. ASSUME NEW s \in Strings, Enter(s, Fits(s)) PROVE IInv'
  <2>1. CASE Fits(s)
    <3>1. /\ data' = s /\ data = <<>>
          /\ UNCHANGED <<buf, head, tail, written, result, out>>
      BY <1>1, <2>1 DEF Enter
    <3>2. Len(s) \in Nat \ {0} /\ written = 0
      BY <3>1, StringType DEF TypeOK
    <3>3. TypeOK'
      BY <3>1, <3>2 DEF TypeOK
    <3>4. NoOverrun'
      BY <2>1, <3>1, <3>2, SizeAssumption DEF TypeOK, NoOverrun, Fits
    <3>5. Copied'
      BY <3>1, <3>2 DEF Copied
    <3>6. QED
      BY <3>3, <3>4, <3>5
  <2>2. CASE ~Fits(s)
    <3>1. result' = FALSE /\ UNCHANGED <<buf, head, tail, data, written, out>>
      BY <1>1, <2>2 DEF Enter
    <3>2. QED
      BY <3>1 DEF TypeOK, NoOverrun, Copied
  <2>3. QED
    BY <2>1, <2>2
<1>2. ASSUME WriteByte PROVE IInv'
  <2>1. data \in Strings /\ data \in Seq(Byte) /\ written \in 0..Len(data)-1
    BY <1>2, StringType DEF WriteByte, TypeOK
  <2>2. data[written + 1] \in Byte
    BY <2>1
  <2>3. Cell(head + written) \in 0..Size-1
    <3>1. head + written \in Nat
      BY <2>1 DEF TypeOK
    <3>2. QED
      BY <3>1, CellRange
  <2>4. TypeOK'
    BY <1>2, <2>1, <2>2, <2>3 DEF WriteByte, TypeOK
  <2>5. NoOverrun'
    BY <1>2 DEF WriteByte, NoOverrun
  <2>6. ASSUME NEW j \in 1..written'
        PROVE  buf'[Cell(head' + j - 1)] = data'[j]
    <3>1. j \in 1..written+1 /\ head' = head /\ data' = data
      BY <1>2, <2>1 DEF WriteByte
    <3>2. CASE j = written + 1
      <4>1. head + j - 1 = head + written
        BY <2>1, <3>2 DEF TypeOK
      <4>2. QED
        BY <1>2, <2>3, <3>1, <3>2, <4>1 DEF WriteByte, TypeOK
    <3>3. CASE j \in 1..written
      <4>1. Cell(head + j - 1) # Cell(head + written)
        <5>1. /\ head + j - 1 \in Nat /\ head + written \in Nat
              /\ head + j - 1 < head + written
              /\ (head + written) - (head + j - 1) < Size
          BY <2>1, <3>3, SizeAssumption DEF TypeOK, NoOverrun
        <5>2. QED
          BY <5>1, DistinctCells
      <4>2. Cell(head + j - 1) \in 0..Size-1
        <5>1. head + j - 1 \in Nat
          BY <2>1, <3>3 DEF TypeOK
        <5>2. QED
          BY <5>1, CellRange
      <4>3. buf'[Cell(head + j - 1)] = buf[Cell(head + j - 1)]
        BY <1>2, <4>1, <4>2 DEF WriteByte, TypeOK
      <4>4. QED
        BY <3>1, <3>3, <4>3 DEF Copied
    <3>4. QED
      BY <2>1, <3>1, <3>2, <3>3
  <2>7. QED
    BY <2>4, <2>5, <2>6 DEF Copied
<1>3. ASSUME Publish PROVE IInv'
  <2>1. data \in Strings /\ Len(data) \in Nat
    BY <1>3, StringType DEF Publish, TypeOK
  <2>2. TypeOK'
    BY <1>3, <2>1 DEF Publish, TypeOK
  <2>3. NoOverrun'
    BY <1>3, <2>1, SizeAssumption DEF Publish, TypeOK, NoOverrun
  <2>4. Copied'
    BY <1>3 DEF Publish, Copied
  <2>5. QED
    BY <2>2, <2>3, <2>4
<1>4. ASSUME get PROVE IInv'
  <2>1. Cell(tail) \in 0..Size-1
    BY CellRange DEF TypeOK
  <2>2. TypeOK'
    BY <1>4, <2>1 DEF get, TypeOK
  <2>3. Len(data) \in Nat
    BY StringType DEF TypeOK
  <2>4. NoOverrun'
    BY <1>4, <2>3, SizeAssumption DEF get, isempty, TypeOK, NoOverrun
  <2>5. Copied'
    BY <1>4 DEF get, Copied
  <2>6. QED
    BY <2>2, <2>4, <2>5
<1>5. ASSUME reset PROVE IInv'
  <2>1. written = 0 /\ data = <<>>
    BY <1>5 DEF reset, TypeOK
  <2>2. TypeOK'
    BY <1>5 DEF reset, TypeOK
  <2>3. NoOverrun'
    BY <1>5, <2>1, SizeAssumption DEF reset, NoOverrun
  <2>4. Copied'
    BY <1>5, <2>1 DEF reset, Copied
  <2>5. QED
    BY <2>2, <2>3, <2>4
<1>6. ASSUME UNCHANGED vars PROVE IInv'
  BY <1>6 DEF vars, TypeOK, NoOverrun, Copied
<1>7. QED
  BY <1>1, <1>2, <1>3, <1>4, <1>5, <1>6, AppendsAreEntries

(* The variables keep their types for every size and every string length. *)
THEOREM TypeCorrect == Spec => []TypeOK
<1>1. IInv => TypeOK
  BY DEF IInv
<1>2. QED
  BY InitIInv, StepIInv, <1>1, PTL DEF Spec

(* No append ever overwrites a byte the handler has still to take, for     *)
(* every size and every string length, wherever the handler runs.          *)
THEOREM NeverOverruns == Spec => []NoOverrun
<1>1. IInv => NoOverrun
  BY DEF IInv
<1>2. QED
  BY InitIInv, StepIInv, <1>1, PTL DEF Spec

-----------------------------------------------------------------------------
(* The refinement: queue is Contents.                                      *)

ContentsOK == /\ Contents \in Seq(Byte)
              /\ Len(Contents) = head - tail
              /\ head - tail \in Nat
              /\ \A j \in 1..(head - tail) :
                    Contents[j] = buf[Cell(tail + j - 1)]

LEMMA ContentsType == IInv => ContentsOK
<1> SUFFICES ASSUME IInv PROVE ContentsOK
  OBVIOUS
<1>1. head - tail \in Nat
  BY DEF IInv, TypeOK, NoOverrun
<1>2. ASSUME NEW j \in 1..(head - tail) PROVE buf[Cell(tail + j - 1)] \in Byte
  <2>1. tail + j - 1 \in Nat
    BY <1>1 DEF IInv, TypeOK
  <2>2. Cell(tail + j - 1) \in 0..Size-1
    BY <2>1, CellRange
  <2>3. QED
    BY <2>2 DEF IInv, TypeOK
<1>3. Contents \in [1..(head - tail) -> Byte]
  BY <1>2 DEF Contents
<1>4. QED
  BY <1>1, <1>3 DEF Contents, ContentsOK

(* An append that finds room begins, one that finds none refuses. *)
LEMMA EnterRefines ==
  ASSUME IInv, IInv', NEW s \in Strings, Enter(s, Fits(s))
  PROVE  Fifo!Next
<1>1. UNCHANGED Contents /\ out' = out /\ data = <<>>
  BY DEF Enter, Contents
<1>2. Fits(s) <=> Fifo!Fits(s)
  <2>1. Len(s) \in Nat /\ head \in Nat /\ tail \in Nat
    BY StringType DEF IInv, TypeOK
  <2>2. Len(Contents) = head - tail
    BY ContentsType DEF ContentsOK
  <2>3. QED
    BY <2>1, <2>2, SizeAssumption DEF Fits, Fifo!Fits
<1>3. CASE Fits(s)
  <2>1. Fifo!Begin(s)
    BY <1>1, <1>2, <1>3 DEF Enter, Fifo!Begin
  <2>2. QED
    BY <2>1 DEF Fifo!Next
<1>4. CASE ~Fits(s)
  <2>1. Fifo!Refuse(s)
    BY <1>1, <1>2, <1>4 DEF Enter, Fifo!Refuse
  <2>2. QED
    BY <2>1 DEF Fifo!Next
<1>5. QED
  BY <1>3, <1>4

(* The copying loop writes outside the queue. *)
LEMMA WriteByteRefines ==
  ASSUME IInv, IInv', WriteByte
  PROVE  UNCHANGED Fifo!fifoVars
<1>1. head' = head /\ tail' = tail /\ UNCHANGED <<data, result, out>>
  BY DEF WriteByte
<1>2. data \in Seq(Byte) /\ written \in 0..Len(data)-1
  BY StringType DEF WriteByte, IInv, TypeOK
<1>3. ASSUME NEW j \in 1..(head - tail)
      PROVE  buf'[Cell(tail + j - 1)] = buf[Cell(tail + j - 1)]
  <2>1. /\ tail + j - 1 \in Nat /\ head + written \in Nat
        /\ tail + j - 1 < head + written
        /\ (head + written) - (tail + j - 1) < Size
    BY <1>2, SizeAssumption DEF IInv, TypeOK, NoOverrun
  <2>2. Cell(tail + j - 1) # Cell(head + written)
    BY <2>1, DistinctCells
  <2>3. Cell(tail + j - 1) \in 0..Size-1
    BY <2>1, CellRange
  <2>4. QED
    BY <2>2, <2>3 DEF WriteByte, IInv, TypeOK
<1>4. Contents' = Contents
  BY <1>1, <1>3 DEF Contents
<1>5. QED
  BY <1>1, <1>4 DEF Fifo!fifoVars

(* The store to head puts the whole string. *)
LEMMA PublishRefines ==
  ASSUME IInv, IInv', Publish
  PROVE  Fifo!Next
<1>1. /\ data \in Strings /\ data \in Seq(Byte) /\ Len(data) \in Nat
      /\ head \in Nat /\ tail \in Nat /\ head - tail \in Nat
      /\ written = Len(data) /\ head' = head + Len(data)
      /\ tail' = tail /\ buf' = buf /\ result' = TRUE /\ out' = out
  BY StringType DEF Publish, IInv, TypeOK, NoOverrun
<1>2. Len(Contents) + Len(data) <= Size - 1
  <2>1. Len(Contents) = head - tail
    BY ContentsType DEF ContentsOK
  <2>2. (head + Len(data)) - tail <= Size - 1
    BY DEF IInv, NoOverrun
  <2>3. QED
    BY <1>1, <2>1, <2>2, SizeAssumption
<1>3. /\ Contents' \in Seq(Byte)
      /\ Len(Contents') = (head - tail) + Len(data)
      /\ \A j \in 1..((head - tail) + Len(data)) :
            Contents'[j] = buf[Cell(tail + j - 1)]
  <2>1. head' - tail' = (head - tail) + Len(data)
    BY <1>1
  <2>2. /\ Contents' \in Seq(Byte) /\ Len(Contents') = head' - tail'
        /\ \A j \in 1..(head' - tail') :
              Contents'[j] = buf'[Cell(tail' + j - 1)]
    <3>1. ContentsOK'
      BY ContentsType, PTL
    <3>2. QED
      BY <3>1 DEF ContentsOK
  <2>3. QED
    BY <1>1, <2>1, <2>2
<1>4. /\ Contents \o data \in Seq(Byte)
      /\ Len(Contents \o data) = (head - tail) + Len(data)
      /\ \A j \in 1..((head - tail) + Len(data)) :
            (Contents \o data)[j] = IF j <= head - tail THEN Contents[j]
                                    ELSE data[j - (head - tail)]
  <2>1. Contents \in Seq(Byte) /\ Len(Contents) = head - tail
    BY ContentsType DEF ContentsOK
  <2>2. data \in Seq(Byte) /\ Len(data) \in Nat
    BY <1>1
  <2>3. /\ Contents \o data \in Seq(Byte)
        /\ Len(Contents \o data) = Len(Contents) + Len(data)
        /\ \A j \in 1..(Len(Contents) + Len(data)) :
              (Contents \o data)[j] = IF j <= Len(Contents) THEN Contents[j]
                                      ELSE data[j - Len(Contents)]
    BY <2>1, <2>2, ConcatProperties
  <2>4. QED
    BY <2>1, <2>3
<1>5. ASSUME NEW j \in 1..((head - tail) + Len(data))
      PROVE  Contents'[j] = (Contents \o data)[j]
  <2> /\ head - tail \in Nat
      /\ \A k \in 1..head - tail : Contents[k] = buf[Cell(tail + k - 1)]
    BY ContentsType DEF ContentsOK
  <2>1. CASE j <= head - tail
    <3>1. j \in 1..head - tail
      BY <2>1
    <3>2. (Contents \o data)[j] = Contents[j]
      BY <1>4, <2>1
    <3>3. QED
      BY <1>3, <3>1, <3>2
  <2>2. CASE j > head - tail
    <3> DEFINE i == j - (head - tail)
    <3>1. i \in 1..written /\ head + i - 1 = tail + j - 1
      BY <1>1, <2>2
    <3>2. buf[Cell(head + i - 1)] = data[i]
      BY <3>1 DEF IInv, Copied
    <3>3. (Contents \o data)[j] = data[i]
      <4>1. /\ j \in 1..((head - tail) + Len(data)) /\ ~(j <= head - tail)
            /\ i = j - (head - tail)
        BY <2>2
      <4>2. (Contents \o data)[j] = data[j - (head - tail)]
        BY <1>4, <4>1
      <4>3. QED
        BY <4>1, <4>2
    <3>4. QED
      BY <1>3, <3>1, <3>2, <3>3
  <2>3. QED
    BY <1>1, <2>1, <2>2, ContentsType DEF ContentsOK
<1>6. Contents' = Contents \o data
  BY <1>3, <1>4, <1>5, SeqEqual
<1>7. data # <<>> /\ data' = <<>>
  BY DEF Publish
<1>8. Fifo!Commit
  BY <1>1, <1>2, <1>6, <1>7 DEF Fifo!Commit, Fifo!Put, Fifo!Fits
<1>9. QED
  BY <1>8 DEF Fifo!Next

(* get takes the head of the queue. *)
LEMMA GetRefines ==
  ASSUME IInv, IInv', get
  PROVE  Fifo!Next
<1>1. /\ head \in Nat /\ tail \in Nat /\ head - tail \in Nat \ {0}
      /\ tail' = tail + 1 /\ head' = head /\ buf' = buf
      /\ out' = buf[Cell(tail)] /\ result' = result
  BY DEF get, isempty, IInv, TypeOK, NoOverrun
<1>2. /\ Contents \in Seq(Byte) /\ Len(Contents) = head - tail
      /\ Contents # <<>> /\ Head(Contents) = Contents[1]
  BY <1>1, ContentsType DEF ContentsOK
<1>3. Contents[1] = buf[Cell(tail)]
  <2>1. 1 \in 1..(head - tail) /\ tail + 1 - 1 = tail
    BY <1>1
  <2>2. QED
    BY <2>1, ContentsType DEF ContentsOK
<1>4. /\ Contents' \in Seq(Byte) /\ Len(Contents') = (head - tail) - 1
      /\ \A j \in 1..((head - tail) - 1) : Contents'[j] = buf[Cell(tail + j)]
  <2>1. /\ Contents' \in Seq(Byte) /\ Len(Contents') = head' - tail'
        /\ \A j \in 1..(head' - tail') :
              Contents'[j] = buf'[Cell(tail' + j - 1)]
    <3>1. ContentsOK'
      BY ContentsType, PTL
    <3>2. QED
      BY <3>1 DEF ContentsOK
  <2>2. head' - tail' = (head - tail) - 1
        /\ \A j \in 1..((head - tail) - 1) : tail' + j - 1 = tail + j
    BY <1>1
  <2>3. QED
    BY <1>1, <2>1, <2>2
<1>5. /\ Tail(Contents) \in Seq(Byte)
      /\ Len(Tail(Contents)) = (head - tail) - 1
      /\ \A j \in 1..((head - tail) - 1) : Tail(Contents)[j] = Contents[j + 1]
  BY <1>1, <1>2, HeadTailProperties
<1>6. ASSUME NEW j \in 1..((head - tail) - 1)
      PROVE  Contents'[j] = Tail(Contents)[j]
  <2>1. j + 1 \in 1..(head - tail) /\ tail + (j + 1) - 1 = tail + j
    BY <1>1
  <2>2. Contents[j + 1] = buf[Cell(tail + j)]
    BY <2>1, ContentsType DEF ContentsOK
  <2>3. QED
    BY <1>4, <1>5, <2>2
<1>7. Contents' = Tail(Contents)
  BY <1>4, <1>5, <1>6, SeqEqual
<1>8. data' = data
  BY DEF get
<1>9. Fifo!Get
  BY <1>1, <1>2, <1>3, <1>7, <1>8 DEF Fifo!Get
<1>10. QED
  BY <1>9 DEF Fifo!Next

LEMMA ResetRefines ==
  ASSUME IInv, IInv', reset
  PROVE  Fifo!Next
<1>1. head' = 0 /\ tail' = 0 /\ data = <<>> /\ UNCHANGED <<data, result, out>>
  BY DEF reset
<1>2. Contents' = <<>>
  BY <1>1 DEF Contents
<1>3. QED
  BY <1>1, <1>2 DEF Fifo!Next, Fifo!Reset

(* For every size and every string length the ring buffer is the bounded   *)
(* byte queue: what the handler takes is what was appended, in order, and  *)
(* an append is refused only when the string does not fit.                 *)
THEOREM ImplementsByteFifo == Spec => ImplementsFifo
<1>1. Init => Fifo!Init
  <2> SUFFICES ASSUME Init PROVE Fifo!Init
    OBVIOUS
  <2>1. Contents = <<>>
    BY DEF Init, Contents
  <2>2. QED
    BY <2>1 DEF Init, Fifo!Init
<1>2. IInv /\ IInv' /\ [Next]_vars => [Fifo!Next]_(Fifo!fifoVars)
  <2> SUFFICES ASSUME IInv, IInv', [Next]_vars
               PROVE  Fifo!Next \/ UNCHANGED Fifo!fifoVars
    OBVIOUS
  <2>1. CASE Next
    <3>1. TypeOK /\ NoOverrun
      BY DEF IInv
    <3>2. QED
      BY <2>1, <3>1, AppendsAreEntries, EnterRefines, WriteByteRefines,
         PublishRefines, GetRefines, ResetRefines
  <2>2. CASE UNCHANGED vars
    BY <2>2 DEF vars, Contents, Fifo!fifoVars
  <2>3. QED
    BY <2>1, <2>2
<1>3. QED
  BY InitIInv, StepIInv, <1>1, <1>2, PTL DEF Spec, ImplementsFifo, Fifo!Spec
-----------------------------------------------------------------------------
(* The generic ring.  The invariant says of each ring that head is as far  *)
(* ahead of tail, on the circle of size_t, as it holds elements, and that  *)
(* the number of its elements divides that circle: so the place of an      *)
(* element does not jump when an index overflows.  A put and a get in      *)
(* progress are recorded with what their tests found, which the other side *)
(* cannot undo.                                                            *)

Record(b) == b = [head |-> b.head, tail |-> b.tail, s_elem |-> b.s_elem,
                  n_elem |-> b.n_elem, buf |-> b.buf]

(* A ring b that holds h; used tells whether it was initialised. *)
RingOK(b, h, used) ==
  /\ Record(b)
  /\ h \in Seq(Elem)
  /\ b.tail \in 0..Sizes-1 /\ b.n_elem \in 0..Sizes-1
  /\ b.head = (b.tail + Len(h)) % Sizes
  /\ Len(h) <= b.n_elem
  /\ PowerOf2(b.n_elem)
  /\ used => /\ b.s_elem \in Nat \ {0}
             /\ b.buf \in [0..(b.n_elem + 1) * b.s_elem - 2 -> Elem]
  /\ ~used => b.n_elem = 0 /\ b.s_elem = 0
  /\ b.s_elem = 1 =>
       \A j \in 1..Len(h) : h[j] = b.buf[(b.tail + j - 1) % b.n_elem]

RingsInv == /\ idx \in 0..RING_BUFFER_MAX
            /\ rb = [r \in Rings |-> rb[r]]
            /\ held \in [Rings -> Seq(Elem)]
            /\ \A r \in Rings : RingOK(rb[r], held[r], r < idx)

PutInv == putting # <<>> =>
  \E r \in Rings, e \in Elem :
     /\ Len(held[r]) < rb[r].n_elem
     /\ \/ putting = <<r, Offset(r, rb[r].head), e>>
        \/ /\ putting = <<r, e>>
           /\ rb[r].s_elem = 1 => rb[r].buf[Offset(r, rb[r].head)] = e

GetInv == getting # <<>> =>
  \E r \in Rings, v \in Elem :
     /\ Len(held[r]) > 0
     /\ \/ getting = <<r>>
        \/ getting = <<r, v>> /\ (rb[r].s_elem = 1 => v = held[r][1])

RbInv == RingsInv /\ PutInv /\ GetInv
-----------------------------------------------------------------------------
(* There is a size. *)
LEMMA SizesPositive == Sizes \in Nat \ {0}
BY RbAssumption

(* A reduced index is on the circle of sizes. *)
LEMMA OnCircle == \A x \in Int : x % Sizes \in 0..Sizes-1
BY SizesPositive, Division

(* What the descriptor counts is what the ring holds. *)
LEMMA Counted ==
  ASSUME NEW b, NEW h, NEW used, RingOK(b, h, used)
  PROVE  /\ (b.head - b.tail) % Sizes = Len(h)
         /\ Len(h) \in 0..Sizes-1 /\ b.head \in 0..Sizes-1
<1>1. /\ h \in Seq(Elem) /\ b.tail \in 0..Sizes-1 /\ b.n_elem \in 0..Sizes-1
      /\ b.head = (b.tail + Len(h)) % Sizes /\ Len(h) <= b.n_elem
  BY DEF RingOK
<1>2. Len(h) \in 0..Sizes-1
  BY <1>1, LenProperties, SizesPositive
<1> DEFINE t == b.tail
           l == Len(h)
<1>3. t \in 0..Sizes-1 /\ l \in 0..Sizes-1 /\ b.head = (t + l) % Sizes
  BY <1>1, <1>2
<1> HIDE DEF t, l
<1>4. (((t + l) % Sizes) - t) % Sizes = l
  BY <1>3, Ahead, SizesPositive
<1>5. (t + l) % Sizes \in 0..Sizes-1
  <2>1. t + l \in Int
    BY <1>3
  <2>2. QED
    BY <2>1, Division, SizesPositive
<1>6. QED
  BY <1>3, <1>4, <1>5 DEF t, l

(* The place of an index does not change when the index overflows. *)
LEMMA PlaceKept ==
  ASSUME NEW n \in Nat \ {0}, PowerOf2(n), NEW x \in Int
  PROVE  (x % Sizes) % n = x % n
<1>1. PICK m \in 1..Sizes : n * m = Sizes
  BY DEF PowerOf2
<1>2. m \in Nat \ {0}
  BY SizesPositive
<1>3. QED
  BY <1>1, <1>2, Inner, SizesPositive

(* The place of the next element. *)
LEMMA HeadPlace ==
  ASSUME NEW b, NEW h, NEW used, RingOK(b, h, used), b.n_elem > 0
  PROVE  b.head % b.n_elem = (b.tail + Len(h)) % b.n_elem
<1>1. /\ b.n_elem \in 0..Sizes-1 /\ PowerOf2(b.n_elem)
      /\ b.tail \in 0..Sizes-1 /\ b.head = (b.tail + Len(h)) % Sizes
  BY DEF RingOK
<1>2. Len(h) \in 0..Sizes-1
  BY Counted
<1>3. b.n_elem \in Nat \ {0} /\ b.tail + Len(h) \in Int
  BY <1>1, <1>2, SizesPositive
<1>4. QED
  BY <1>1, <1>3, PlaceKept

(* Every element is inside the client's memory. *)
LEMMA InMemory ==
  ASSUME NEW n \in Nat \ {0}, NEW s \in Nat \ {0}, NEW x \in Int
  PROVE  x % (s * n) \in 0..(n + 1) * s - 2
<1>1. s * n \in Nat \ {0}
  OBVIOUS
<1>2. x % (s * n) \in 0..(s * n)-1
  BY <1>1, Division
<1>3. (n + 1) * s = s * n + s
  OBVIOUS
<1>4. QED
  BY <1>1, <1>2, <1>3

-----------------------------------------------------------------------------
Written(b, at, e) == [i \in DOMAIN b.buf |->
                        IF i \in at..at + b.s_elem - 1 THEN e ELSE b.buf[i]]

HeadAt(b) == b.head % (b.s_elem * b.n_elem)

(* The copy of a put: the elements that are held stay what they were. *)
LEMMA CopyIn ==
  ASSUME NEW b, NEW h, NEW e \in Elem, NEW c, RingOK(b, h, TRUE),
         Len(h) < b.n_elem,
         Record(c), c.head = b.head, c.tail = b.tail, c.s_elem = b.s_elem,
         c.n_elem = b.n_elem,
         c.buf = Written(b, HeadAt(b), e)
  PROVE  RingOK(c, h, TRUE) /\ (b.s_elem = 1 => c.buf[HeadAt(b)] = e)
<1> DEFINE at == HeadAt(b)
<1>1. /\ b.n_elem \in Nat \ {0} /\ b.s_elem \in Nat \ {0}
      /\ h \in Seq(Elem) /\ Len(h) \in Nat /\ b.tail \in Int /\ b.head \in Int
      /\ b.buf \in [0..(b.n_elem + 1) * b.s_elem - 2 -> Elem]
  BY Counted, LenProperties, SizesPositive DEF RingOK
<1>2. c.buf \in [0..(c.n_elem + 1) * c.s_elem - 2 -> Elem]
  BY <1>1 DEF Written, at
<1>3. at \in 0..(b.n_elem + 1) * b.s_elem - 2
  BY <1>1, InMemory DEF HeadAt
<1> HIDE DEF at
<1>4. ASSUME b.s_elem = 1
      PROVE  /\ c.buf[at] = e
             /\ \A j \in 1..Len(h) : h[j] = c.buf[(c.tail + j - 1) % c.n_elem]
  <2>1. b.s_elem * b.n_elem = b.n_elem
    BY <1>1, <1>4
  <2>2. at = (b.tail + Len(h)) % b.n_elem
    <3>1. b.n_elem > 0
      BY <1>1
    <3>2. b.head % b.n_elem = (b.tail + Len(h)) % b.n_elem
      BY <3>1, HeadPlace
    <3>3. QED
      BY <2>1, <3>2 DEF HeadAt, at
  <2>3. at..at + b.s_elem - 1 = {at}
    BY <1>3, <1>4
  <2>4. c.buf[at] = e
    BY <1>1, <1>3, <2>3 DEF Written, at
  <2>5. ASSUME NEW j \in 1..Len(h)
        PROVE  h[j] = c.buf[(c.tail + j - 1) % c.n_elem]
    <3> DEFINE x == b.tail + j - 1
               y == b.tail + Len(h)
    <3>1. j \in Int /\ 1 <= j /\ j <= Len(h)
      BY <1>1
    <3>2. x \in Int /\ y \in Int /\ x < y /\ y - x < b.n_elem
      <4>1. x \in Int /\ y \in Int /\ y - x = Len(h) - j + 1
        BY <1>1, <3>1, SMTT(30)
      <4> HIDE DEF x, y
      <4>2. Len(h) \in Int /\ b.n_elem \in Int /\ Len(h) < b.n_elem
        BY <1>1
      <4>3. QED
        BY <3>1, <4>1, <4>2
    <3> HIDE DEF x, y
    <3>3. x % b.n_elem # y % b.n_elem
      BY <1>1, <3>2, Apart
    <3>4. x % b.n_elem \in 0..(b.n_elem + 1) * b.s_elem - 2
      BY <1>1, <2>1, <3>2, InMemory
    <3>5. x % b.n_elem # at
      BY <2>2, <3>3 DEF y
    <3>6. c.buf[x % b.n_elem] = b.buf[x % b.n_elem]
      BY <1>1, <2>3, <3>4, <3>5 DEF Written, at
    <3>7. h[j] = b.buf[x % b.n_elem]
      BY <1>4 DEF RingOK, x
    <3>8. QED
      BY <3>6, <3>7 DEF x
  <2>6. QED
    BY <2>4, <2>5
<1>5. QED
  BY <1>2, <1>4 DEF RingOK, at

(* The end of a put. *)
LEMMA CopiedIn ==
  ASSUME NEW b, NEW h, NEW e \in Elem, NEW c, RingOK(b, h, TRUE),
         Len(h) < b.n_elem,
         b.s_elem = 1 => b.buf[b.head % (b.s_elem * b.n_elem)] = e,
         Record(c), c.head = (b.head + 1) % Sizes, c.tail = b.tail,
         c.s_elem = b.s_elem, c.n_elem = b.n_elem, c.buf = b.buf
  PROVE  RingOK(c, Append(h, e), TRUE)
<1> DEFINE g == Append(h, e)
<1>1. /\ b.n_elem \in Nat \ {0} /\ h \in Seq(Elem) /\ Len(h) \in Nat
      /\ b.tail \in Int /\ b.n_elem < Sizes
      /\ b.head = (b.tail + Len(h)) % Sizes
  BY LenProperties, SizesPositive, SMTT(30) DEF RingOK
<1>2. /\ g \in Seq(Elem) /\ Len(g) = Len(h) + 1
      /\ \A j \in 1..Len(h) : g[j] = h[j]
      /\ g[Len(h) + 1] = e
  BY <1>1, AppendProperties
<1> HIDE DEF g
<1>3. c.head = (c.tail + Len(g)) % Sizes
  <2> DEFINE x == b.tail + Len(h)
  <2>1. x \in Int /\ b.head = x % Sizes /\ c.tail + Len(g) = x + 1
    BY <1>1, <1>2, SMTT(30)
  <2> HIDE DEF x
  <2>2. \A k \in Int : ((x % Sizes) + k) % Sizes = (x + k) % Sizes
    BY <2>1, ReducedSame, SizesPositive
  <2>3. QED
    BY <2>1, <2>2
<1>4. ASSUME c.s_elem = 1, NEW j \in 1..Len(g)
      PROVE  g[j] = c.buf[(c.tail + j - 1) % c.n_elem]
  <2>1. CASE j <= Len(h)
    BY <1>1, <1>2, <1>4, <2>1, SMTT(30) DEF RingOK
  <2>2. CASE j = Len(h) + 1
    <3>1. b.s_elem * b.n_elem = b.n_elem
      BY <1>1, <1>4
    <3>2. e = b.buf[b.head % b.n_elem]
      BY <1>4, <3>1
    <3>3. b.head % b.n_elem = (b.tail + Len(h)) % b.n_elem
      <4>1. b.n_elem > 0
        BY <1>1
      <4>2. QED
        BY <4>1, HeadPlace
    <3>4. b.tail + j - 1 = b.tail + Len(h)
      BY <1>1, <2>2
    <3>5. QED
      BY <1>2, <2>2, <3>2, <3>3, <3>4
  <2>3. QED
    BY <1>1, <1>2, <2>1, <2>2
<1>5. QED
  <2>1. Len(g) <= c.n_elem
    BY <1>1, <1>2
  <2>2. RingOK(c, g, TRUE)
    BY <1>2, <1>3, <1>4, <2>1 DEF RingOK
  <2>3. QED
    BY <2>2 DEF g

(* The end of a get. *)
LEMMA CopiedOut ==
  ASSUME NEW b, NEW h, NEW c, RingOK(b, h, TRUE), Len(h) > 0,
         Record(c), c.tail = (b.tail + 1) % Sizes, c.head = b.head,
         c.s_elem = b.s_elem, c.n_elem = b.n_elem, c.buf = b.buf
  PROVE  RingOK(c, Tail(h), TRUE)
<1> DEFINE g == Tail(h)
<1>1. /\ h \in Seq(Elem) /\ Len(h) \in Nat /\ h # <<>>
      /\ b.tail \in Int /\ b.n_elem \in Nat \ {0} /\ PowerOf2(b.n_elem)
      /\ b.head = (b.tail + Len(h)) % Sizes
  BY LenProperties, EmptySeq, SizesPositive DEF RingOK
<1>2. /\ g \in Seq(Elem) /\ Len(g) = Len(h) - 1
      /\ \A j \in 1..Len(g) : g[j] = h[j + 1]
  BY <1>1, HeadTailProperties
<1> HIDE DEF g
<1>3. \A k \in Int : (c.tail + k) % Sizes = (b.tail + 1 + k) % Sizes
                     /\ (c.tail + k) % b.n_elem = (b.tail + 1 + k) % b.n_elem
  <2> SUFFICES ASSUME NEW k \in Int
               PROVE  /\ (c.tail + k) % Sizes = (b.tail + 1 + k) % Sizes
                      /\ (c.tail + k) % b.n_elem = (b.tail + 1 + k) % b.n_elem
    OBVIOUS
  <2> DEFINE x == b.tail + 1
  <2>1. x \in Int /\ c.tail = x % Sizes
    BY <1>1
  <2> HIDE DEF x
  <2>2. ((x % Sizes) + k) % Sizes = (x + k) % Sizes
    BY <2>1, ReducedSame, SizesPositive
  <2>3. PICK m \in 1..Sizes : b.n_elem * m = Sizes
    BY <1>1 DEF PowerOf2
  <2> DEFINE n == b.n_elem
  <2>4. n \in Nat \ {0} /\ m \in Nat \ {0} /\ n * m = Sizes
    BY <1>1, <2>3, SizesPositive
  <2> HIDE DEF n
  <2>5. ((x % Sizes) + k) % n = (x + k) % n
    BY <2>1, <2>4, Reduced, SizesPositive, ZenonT(30)
  <2>6. QED
    BY <2>1, <2>2, <2>5 DEF x, n
<1>4. c.head = (c.tail + Len(g)) % Sizes
  <2>1. Len(g) \in Int /\ b.tail + 1 + Len(g) = b.tail + Len(h)
    BY <1>1, <1>2
  <2>2. QED
    BY <1>1, <1>3, <2>1
<1>5. ASSUME c.s_elem = 1, NEW j \in 1..Len(g)
      PROVE  g[j] = c.buf[(c.tail + j - 1) % c.n_elem]
  <2>1. j + 1 \in 1..Len(h) /\ j - 1 \in Int
    BY <1>1, <1>2
  <2>2. h[j + 1] = b.buf[(b.tail + (j + 1) - 1) % b.n_elem]
    BY <1>5, <2>1 DEF RingOK
  <2>3. c.tail \in Int
    <3>1. b.tail + 1 \in Int
      BY <1>1
    <3>2. c.tail \in 0..Sizes-1
      BY <3>1, OnCircle
    <3>3. QED
      BY <3>2, SizesPositive
  <2>4. /\ b.tail + (j + 1) - 1 = b.tail + 1 + (j - 1)
        /\ c.tail + j - 1 = c.tail + (j - 1)
    BY <1>1, <2>1, <2>3
  <2>5. QED
    BY <1>2, <1>3, <2>1, <2>2, <2>4
<1>6. QED
  <2>1. Len(g) <= c.n_elem /\ c.tail \in 0..Sizes-1
    <3>1. (b.tail + 1) % Sizes \in 0..Sizes-1
      <4>1. b.tail + 1 \in Int
        BY <1>1
      <4>2. QED
        BY <4>1, OnCircle
    <3>2. QED
      BY <1>1, <1>2, <3>1 DEF RingOK
  <2>2. RingOK(c, g, TRUE)
    BY <1>2, <1>4, <1>5, <2>1 DEF RingOK
  <2>3. QED
    BY <2>2 DEF g

-----------------------------------------------------------------------------
(* A ring that was never initialised. *)
LEMMA Initial == RbInit => RbInv
<1> SUFFICES ASSUME RbInit PROVE RbInv
  OBVIOUS
<1>1. idx \in 0..RING_BUFFER_MAX /\ held \in [Rings -> Seq(Elem)]
  BY RbAssumption DEF RbInit
<1>2. rb = [r \in Rings |-> rb[r]]
  BY DEF RbInit
<1>3. ASSUME NEW r \in Rings
      PROVE  RingOK(rb[r], held[r], r < idx)
  <2>1. /\ rb[r] = [head |-> 0, tail |-> 0, s_elem |-> 0, n_elem |-> 0,
                    buf |-> <<>>]
        /\ held[r] = <<>> /\ ~(r < idx)
    BY DEF RbInit, Rings
  <2>2. held[r] \in Seq(Elem) /\ Len(held[r]) = 0
    BY <2>1
  <2>3. 0 \in 0..Sizes-1
    BY SizesPositive
  <2>4. (0 + 0) % Sizes = 0
    BY <2>3, Small, SizesPositive
  <2>5. QED
    BY <2>1, <2>2, <2>3, <2>4 DEF RingOK, Record, PowerOf2
<1>4. QED
  BY <1>1, <1>2, <1>3 DEF RbInit, RbInv, RingsInv, PutInv, GetInv

(* A ring that holds something, or could, was initialised. *)
LEMMA Used ==
  ASSUME RingsInv, NEW r \in Rings, rb[r].n_elem > 0
  PROVE  RingOK(rb[r], held[r], TRUE)
BY DEF RingsInv, RingOK

(* The count the code computes is the number of elements held. *)
LEMMA CountIs ==
  ASSUME RingsInv, NEW r \in Rings
  PROVE  count(r) = Len(held[r]) /\ Len(held[r]) \in 0..Sizes-1
<1>1. RingOK(rb[r], held[r], r < idx)
  BY DEF RingsInv
<1>2. QED
  BY <1>1, Counted DEF count

(* One ring changes, the others stay as they are. *)
LEMMA OneRing ==
  ASSUME RingsInv, NEW r \in Rings, NEW c, NEW h \in Seq(Elem),
         NEW i \in 0..RING_BUFFER_MAX, i >= idx,
         \A s \in Rings : s < i <=> s < idx \/ (s = r /\ r < i),
         RingOK(c, h, r < i),
         idx' = i, rb' = [rb EXCEPT ![r] = c], held' = [held EXCEPT ![r] = h]
  PROVE  RingsInv'
<1>1. /\ held' \in [Rings -> Seq(Elem)]
      /\ rb' = [s \in Rings |-> rb'[s]]
  BY DEF RingsInv
<1>2. ASSUME NEW s \in Rings
      PROVE  RingOK(rb'[s], held'[s], s < idx')
  <2>1. CASE s = r
    <3>1. rb'[s] = c /\ held'[s] = h
      BY <2>1 DEF RingsInv
    <3>2. QED
      BY <2>1, <3>1
  <2>2. CASE s # r
    <3>1. rb'[s] = rb[s] /\ held'[s] = held[s]
      BY <2>2 DEF RingsInv
    <3>2. (s < idx') = (s < idx)
      BY <2>2
    <3>3. RingOK(rb[s], held[s], s < idx)
      BY DEF RingsInv
    <3>4. QED
      BY <3>1, <3>2, <3>3
  <2>3. QED
    BY <2>1, <2>2
<1>3. QED
  BY <1>1, <1>2 DEF RingsInv

(* ring_buffer_init, when it fails and when it succeeds. *)
LEMMA InitKeeps ==
  ASSUME RbInv, NEW a \in Attrs, NEW null \in BOOLEAN,
         ring_buffer_init(a, null)
  PROVE  RbInv'
<1>1. CASE UNCHANGED <<idx, rb>>
  BY <1>1 DEF ring_buffer_init, RbInv, RingsInv, PutInv, GetInv, Offset
<1>2. CASE ~UNCHANGED <<idx, rb>>
  <2>1. /\ idx < RING_BUFFER_MAX /\ a.s_elem > 0 /\ PowerOf2(a.n_elem)
        /\ idx' = idx + 1 /\ putting = <<>>
        /\ UNCHANGED <<putting, getting, held>>
    BY <1>2 DEF ring_buffer_init
  <2>2. /\ a.n_elem \in 0..Sizes-1 /\ a.s_elem \in Nat \ {0}
        /\ RING_BUFFER_MAX \in Nat /\ idx \in 0..RING_BUFFER_MAX
    BY <2>1, RbAssumption DEF RbInv, RingsInv
  <2>3. PICK e \in Elem :
          rb' = [rb EXCEPT ![idx] =
                   [head |-> 0, tail |-> 0, s_elem |-> a.s_elem,
                    n_elem |-> a.n_elem,
                    buf |-> [i \in 0..(a.n_elem + 1) * a.s_elem - 2 |-> e]]]
    BY <1>2 DEF ring_buffer_init
  <2> DEFINE c == [head |-> 0, tail |-> 0, s_elem |-> a.s_elem,
                   n_elem |-> a.n_elem,
                   buf |-> [i \in 0..(a.n_elem + 1) * a.s_elem - 2 |-> e]]
  <2>4. idx \in Rings
    BY <2>1, <2>2 DEF Rings
  <2>5. held[idx] = <<>>
    <3>1. RingOK(rb[idx], held[idx], FALSE)
      <4>1. RingOK(rb[idx], held[idx], idx < idx)
        BY <2>4 DEF RbInv, RingsInv
      <4>2. ~(idx < idx)
        BY <2>2
      <4>3. QED
        BY <4>1, <4>2 DEF RingOK
    <3>2. held[idx] \in Seq(Elem) /\ Len(held[idx]) <= 0
      BY <3>1 DEF RingOK
    <3>3. QED
      BY <3>2, LenProperties, EmptySeq
  <2>6. RingOK(c, <<>>, TRUE)
    <3>1. 0 \in 0..Sizes-1 /\ 0 + 0 = 0 /\ Len(<<>>) = 0 /\ <<>> \in Seq(Elem)
      BY SizesPositive
    <3>2. 0 = (0 + Len(<<>>)) % Sizes
      BY <3>1, Small, SizesPositive
    <3>3. c.buf \in [0..(c.n_elem + 1) * c.s_elem - 2 -> Elem]
      OBVIOUS
    <3>4. QED
      BY <2>1, <2>2, <3>1, <3>2, <3>3 DEF RingOK, Record
  <2>7. RingsInv'
    <3>1. \A s \in Rings :
            s < idx + 1 <=> s < idx \/ (s = idx /\ idx < idx + 1)
      BY <2>2 DEF Rings
    <3>2. held' = [held EXCEPT ![idx] = <<>>]
      BY <2>1, <2>4, <2>5 DEF RbInv, RingsInv
    <3>3. RingOK(c, <<>>, idx < idx + 1)
      <4>1. (idx < idx + 1) = TRUE
        BY <2>2
      <4>2. QED
        BY <2>6, <4>1
    <3>4. /\ <<>> \in Seq(Elem)
          /\ idx + 1 \in 0..RING_BUFFER_MAX /\ idx + 1 >= idx
      BY <2>1, <2>2
    <3>5. RingsInv /\ rb' = [rb EXCEPT ![idx] = c] /\ idx' = idx + 1
      BY <2>1, <2>3 DEF RbInv
    <3> HIDE DEF c
    <3>6. QED
      BY <2>4, <3>1, <3>2, <3>3, <3>4, <3>5, OneRing
  <2>8. PutInv'
    BY <2>1 DEF PutInv
  <2>9. GetInv'
    <3> SUFFICES ASSUME getting # <<>> PROVE GetInv'
      BY <2>1 DEF GetInv
    <3>1. PICK r \in Rings, v \in Elem :
            /\ Len(held[r]) > 0
            /\ \/ getting = <<r>>
               \/ getting = <<r, v>> /\ (rb[r].s_elem = 1 => v = held[r][1])
      BY DEF RbInv, GetInv
    <3>2. r # idx
      BY <2>5, <3>1
    <3>3. rb'[r] = rb[r]
      BY <2>3, <3>2 DEF RbInv, RingsInv
    <3>4. QED
      BY <2>1, <3>1, <3>3 DEF GetInv
  <2>10. QED
    BY <2>7, <2>8, <2>9 DEF RbInv
<1>3. QED
  BY <1>1, <1>2

(* The guards of ring_buffer_put. *)
LEMMA PutKeeps ==
  ASSUME RbInv, NEW r \in 0..RING_BUFFER_MAX, NEW e \in Elem,
         ring_buffer_put(r, e)
  PROVE  RbInv'
<1>1. RingsInv' /\ GetInv'
  BY DEF ring_buffer_put, RbInv, RingsInv, GetInv
<1>2. PutInv'
  <2>1. CASE putting' = <<>>
    BY <2>1 DEF PutInv
  <2>2. CASE putting' # <<>>
    <3>1. /\ r \in Rings /\ ~full(r) /\ UNCHANGED <<rb, held>>
          /\ putting' = <<r, Offset(r, rb[r].head), e>>
      BY <2>2 DEF ring_buffer_put
    <3>2. /\ Len(held[r]) # rb[r].n_elem
          /\ Len(held[r]) \in Nat
      BY <3>1, CountIs, SizesPositive DEF full, RbInv
    <3>3. rb[r].n_elem \in 0..Sizes-1 /\ Len(held[r]) <= rb[r].n_elem
      BY <3>1 DEF RbInv, RingsInv, RingOK
    <3>4. Len(held[r]) < rb[r].n_elem
      BY <3>2, <3>3, SizesPositive
    <3>5. QED
      BY <3>1, <3>4 DEF PutInv, Offset
  <2>3. QED
    BY <2>1, <2>2
<1>3. QED
  BY <1>1, <1>2 DEF RbInv

(* The guards of ring_buffer_get. *)
LEMMA GetKeeps ==
  ASSUME RbInv, NEW r \in 0..RING_BUFFER_MAX, ring_buffer_get(r)
  PROVE  RbInv'
<1>1. RingsInv' /\ PutInv'
  BY DEF ring_buffer_get, RbInv, RingsInv, PutInv, Offset
<1>2. GetInv'
  <2>1. CASE getting' = <<>>
    BY <2>1 DEF GetInv
  <2>2. CASE getting' # <<>>
    <3>1. /\ r \in Rings /\ ~empty(r) /\ UNCHANGED <<rb, held>>
          /\ getting' = <<r>>
      BY <2>2 DEF ring_buffer_get
    <3>2. Len(held[r]) > 0
      BY <3>1, CountIs, SizesPositive DEF empty, RbInv
    <3>3. held[r][1] \in Elem
      <4>1. held[r] \in Seq(Elem)
        BY <3>1 DEF RbInv, RingsInv
      <4>2. QED
        BY <3>2, <4>1, LenProperties, ElementOfSeq
    <3>4. QED
      BY <3>1, <3>2, <3>3 DEF GetInv
  <2>3. QED
    BY <2>1, <2>2
<1>3. QED
  BY <1>1, <1>2 DEF RbInv

(* The copy of a put. *)
LEMMA PutCopyKeeps == ASSUME RbInv, PutCopy PROVE RbInv'
<1>1. PICK r \in Rings, e \in Elem :
        /\ Len(held[r]) < rb[r].n_elem
        /\ putting = <<r, Offset(r, rb[r].head), e>>
  <2>1. putting # <<>>
    BY DEF PutCopy
  <2>2. PICK r \in Rings, e \in Elem :
          /\ Len(held[r]) < rb[r].n_elem
          /\ \/ putting = <<r, Offset(r, rb[r].head), e>>
             \/ putting = <<r, e>>
    BY <2>1 DEF RbInv, PutInv
  <2>3. QED
    BY <2>2 DEF PutCopy
<1> DEFINE b == rb[r]
           h == held[r]
           at == HeadAt(b)
           c == [head |-> b.head, tail |-> b.tail, s_elem |-> b.s_elem,
                 n_elem |-> b.n_elem,
                 buf |-> Written(b, at, e)]
<1>2. RingOK(b, h, TRUE) /\ Len(h) < b.n_elem /\ r < idx
  <2>1. RingOK(b, h, r < idx) /\ Len(h) < b.n_elem
    BY <1>1 DEF RbInv, RingsInv
  <2>2. r < idx
    <3>1. Len(h) \in Nat
      BY CountIs, SizesPositive DEF RbInv
    <3>2. b.n_elem # 0
      BY <2>1, <3>1
    <3>3. QED
      BY <2>1, <3>2 DEF RingOK
  <2>3. QED
    BY <2>1, <2>2 DEF RingOK
<1>3. rb' = [rb EXCEPT ![r] = c]
  <2>1. Record(b)
    BY <1>2 DEF RingOK
  <2>2. putting[1] = r /\ putting[2] = at /\ putting[3] = e
    BY <1>1 DEF Offset, HeadAt
  <2>3. rb' = [rb EXCEPT ![r].buf =
                 [i \in DOMAIN @ |-> IF i \in at..at + b.s_elem - 1
                                     THEN e ELSE @[i]]]
    BY <2>2 DEF PutCopy
  <2>4. [b EXCEPT !.buf = c.buf] = c
    BY <2>1 DEF Record
  <2>5. QED
    BY <2>3, <2>4 DEF Written
<1>4. RingOK(c, h, TRUE) /\ (b.s_elem = 1 => c.buf[at] = e)
  <2>1. /\ Record(c) /\ c.head = b.head /\ c.tail = b.tail
        /\ c.s_elem = b.s_elem /\ c.n_elem = b.n_elem
        /\ c.buf = Written(b, at, e)
    BY DEF Record
  <2> HIDE DEF b, h, c
  <2>2. QED
    BY <1>2, <2>1, CopyIn, ZenonT(30)
<1>5. /\ UNCHANGED <<idx, getting, ok, held>> /\ putting' = <<r, e>>
      /\ idx \in 0..RING_BUFFER_MAX /\ RingsInv
  BY <1>1 DEF PutCopy, RbInv, RingsInv
<1>6. /\ rb'[r] = c
      /\ \A s \in Rings : rb'[s].s_elem = rb[s].s_elem
  BY <1>3, <1>5 DEF RingsInv
<1>7. h \in Seq(Elem) /\ held' = [held EXCEPT ![r] = h]
  BY <1>5 DEF RingsInv
<1>8. RingsInv'
  <2>1. RingOK(c, h, r < idx)
    BY <1>2, <1>4 DEF RingOK
  <2>2. \A s \in Rings : s < idx <=> s < idx \/ (s = r /\ r < idx)
    OBVIOUS
  <2>3. idx' = idx /\ idx >= idx
    BY <1>5
  <2> HIDE DEF c, h, b
  <2>4. QED
    BY <1>3, <1>5, <1>7, <2>1, <2>2, <2>3, OneRing
<1>9. PutInv'
  <2>1. Offset(r, rb[r].head)' = at
    BY <1>6 DEF Offset, HeadAt
  <2>2. rb'[r].s_elem = 1 => rb'[r].buf[Offset(r, rb[r].head)'] = e
    BY <1>4, <1>6, <2>1
  <2>3. Len(held'[r]) < rb'[r].n_elem
    BY <1>1, <1>5, <1>6
  <2>4. QED
    BY <1>5, <2>2, <2>3 DEF PutInv
<1>10. GetInv'
  BY <1>5, <1>6 DEF RbInv, GetInv
<1>11. QED
  BY <1>8, <1>9, <1>10 DEF RbInv

(* The advance of the head. *)
LEMMA PutDoneKeeps == ASSUME RbInv, PutDone PROVE RbInv'
<1>1. PICK r \in Rings, e \in Elem :
        /\ Len(held[r]) < rb[r].n_elem /\ putting = <<r, e>>
        /\ rb[r].s_elem = 1 => rb[r].buf[Offset(r, rb[r].head)] = e
  <2>1. putting # <<>>
    BY DEF PutDone
  <2>2. PICK r \in Rings, e \in Elem :
          /\ Len(held[r]) < rb[r].n_elem
          /\ \/ putting = <<r, Offset(r, rb[r].head), e>>
             \/ /\ putting = <<r, e>>
                /\ rb[r].s_elem = 1 => rb[r].buf[Offset(r, rb[r].head)] = e
    BY <2>1 DEF RbInv, PutInv
  <2>3. QED
    BY <2>2, SMTT(30) DEF PutDone
<1> DEFINE b == rb[r]
           h == held[r]
           g == Append(h, e)
           c == [head |-> (b.head + 1) % Sizes, tail |-> b.tail,
                 s_elem |-> b.s_elem, n_elem |-> b.n_elem, buf |-> b.buf]
<1>2. RingOK(b, h, TRUE) /\ Len(h) < b.n_elem /\ r < idx
  <2>1. RingOK(b, h, r < idx) /\ Len(h) < b.n_elem
    BY <1>1 DEF RbInv, RingsInv
  <2>2. r < idx
    <3>1. Len(h) \in Nat
      BY CountIs, SizesPositive DEF RbInv
    <3>2. b.n_elem # 0
      BY <2>1, <3>1
    <3>3. QED
      BY <2>1, <3>2 DEF RingOK
  <2>3. QED
    BY <2>1, <2>2 DEF RingOK
<1>3. rb' = [rb EXCEPT ![r] = c]
  <2>1. Record(b)
    BY <1>2 DEF RingOK
  <2>2. rb' = [rb EXCEPT ![r].head = (@ + 1) % Sizes]
    BY <1>1 DEF PutDone
  <2>3. [b EXCEPT !.head = (b.head + 1) % Sizes] = c
    BY <2>1 DEF Record
  <2>4. QED
    BY <2>2, <2>3
<1>4. RingOK(c, g, TRUE)
  <2>1. /\ Record(c) /\ c.head = (b.head + 1) % Sizes /\ c.tail = b.tail
        /\ c.s_elem = b.s_elem /\ c.n_elem = b.n_elem /\ c.buf = b.buf
    BY DEF Record
  <2>2. b.s_elem = 1 => b.buf[b.head % (b.s_elem * b.n_elem)] = e
    BY <1>1 DEF Offset
  <2> HIDE DEF b, h, c
  <2>3. QED
    BY <1>2, <2>1, <2>2, CopiedIn
<1>5. /\ UNCHANGED <<idx, getting>> /\ putting' = <<>>
      /\ held' = [held EXCEPT ![r] = g]
      /\ idx \in 0..RING_BUFFER_MAX /\ RingsInv
  BY <1>1 DEF PutDone, RbInv, RingsInv
<1>6. \A s \in Rings : rb'[s].s_elem = rb[s].s_elem
  BY <1>3, <1>5 DEF RingsInv
<1>7. h \in Seq(Elem) /\ g \in Seq(Elem)
  BY <1>5 DEF RingsInv
<1>8. RingsInv'
  <2>1. RingOK(c, g, r < idx)
    BY <1>2, <1>4 DEF RingOK
  <2>2. \A s \in Rings : s < idx <=> s < idx \/ (s = r /\ r < idx)
    OBVIOUS
  <2>3. idx' = idx /\ idx >= idx
    BY <1>5
  <2> HIDE DEF c, h, b, g
  <2>4. QED
    BY <1>3, <1>5, <1>7, <2>1, <2>2, <2>3, OneRing
<1>9. PutInv'
  BY <1>5 DEF PutInv
<1>10. \A s \in Rings : Len(held[s]) > 0 =>
          Len(held'[s]) > 0 /\ held'[s][1] = held[s][1]
  <2>1. Len(h) > 0 => Len(g) > 0 /\ g[1] = h[1]
    BY <1>7, LenProperties, AppendProperties
  <2>2. QED
    BY <1>5, <2>1 DEF RingsInv
<1>11. GetInv'
  BY <1>5, <1>6, <1>10 DEF RbInv, GetInv
<1>12. QED
  BY <1>8, <1>9, <1>11 DEF RbInv

(* The copy of a get. *)
LEMMA GetCopyKeeps == ASSUME RbInv, GetCopy PROVE RbInv'
<1>1. PICK r \in Rings : Len(held[r]) > 0 /\ getting = <<r>>
  <2>1. getting # <<>>
    BY DEF GetCopy
  <2>2. PICK r \in Rings, v \in Elem :
          /\ Len(held[r]) > 0
          /\ getting = <<r>> \/ getting = <<r, v>>
    BY <2>1 DEF RbInv, GetInv
  <2>3. QED
    BY <2>2 DEF GetCopy
<1> DEFINE b == rb[r]
           h == held[r]
           at == Offset(r, b.tail)
<1>2. RingOK(b, h, r < idx)
  BY DEF RbInv, RingsInv
<1>3. /\ h \in Seq(Elem) /\ Len(h) \in Nat /\ Len(h) <= b.n_elem
      /\ b.n_elem \in Nat \ {0} /\ b.tail \in Int
  BY <1>1, <1>2, LenProperties, SizesPositive DEF RingOK
<1>4. /\ b.s_elem \in Nat \ {0}
      /\ b.buf \in [0..(b.n_elem + 1) * b.s_elem - 2 -> Elem]
  BY <1>2, <1>3 DEF RingOK
<1>5. at \in 0..(b.n_elem + 1) * b.s_elem - 2
  BY <1>3, <1>4, InMemory DEF Offset
<1>6. b.buf[at] \in Elem
  BY <1>4, <1>5
<1>7. b.s_elem = 1 => b.buf[at] = h[1]
  <2> SUFFICES ASSUME b.s_elem = 1 PROVE b.buf[at] = h[1]
    OBVIOUS
  <2>1. 1 \in 1..Len(h)
    BY <1>1, <1>3
  <2>2. h[1] = b.buf[(b.tail + 1 - 1) % b.n_elem]
    BY <1>2, <2>1 DEF RingOK
  <2>3. b.tail + 1 - 1 = b.tail /\ b.s_elem * b.n_elem = b.n_elem
    BY <1>3
  <2>4. QED
    BY <2>2, <2>3 DEF Offset
<1>8. /\ getting' = <<r, b.buf[at]>> /\ UNCHANGED <<idx, rb, putting, held>>
  BY <1>1 DEF GetCopy
<1>9. GetInv'
  BY <1>1, <1>6, <1>7, <1>8 DEF GetInv
<1>10. QED
  BY <1>8, <1>9 DEF RbInv, RingsInv, PutInv, Offset

(* The advance of the tail. *)
LEMMA GetDoneKeeps == ASSUME RbInv, GetDone PROVE RbInv'
<1>1. PICK r \in Rings : Len(held[r]) > 0 /\ getting[1] = r
  <2>1. getting # <<>>
    BY DEF GetDone
  <2>2. PICK r \in Rings, v \in Elem :
          /\ Len(held[r]) > 0
          /\ getting = <<r>> \/ getting = <<r, v>>
    BY <2>1 DEF RbInv, GetInv
  <2>3. QED
    BY <2>2 DEF GetDone
<1> DEFINE b == rb[r]
           h == held[r]
           g == Tail(h)
           c == [head |-> b.head, tail |-> (b.tail + 1) % Sizes,
                 s_elem |-> b.s_elem, n_elem |-> b.n_elem, buf |-> b.buf]
<1>2. RingOK(b, h, TRUE) /\ Len(h) > 0 /\ r < idx
  <2>1. RingOK(b, h, r < idx)
    BY DEF RbInv, RingsInv
  <2>2. r < idx
    <3>1. Len(h) \in Nat /\ Len(h) <= b.n_elem
      BY <2>1, CountIs, SizesPositive DEF RbInv, RingOK
    <3>2. b.n_elem # 0
      BY <1>1, <3>1
    <3>3. QED
      BY <2>1, <3>2 DEF RingOK
  <2>3. QED
    BY <1>1, <2>1, <2>2 DEF RingOK
<1>3. rb' = [rb EXCEPT ![r] = c]
  <2>1. Record(b)
    BY <1>2 DEF RingOK
  <2>2. rb' = [rb EXCEPT ![r].tail = (@ + 1) % Sizes]
    BY <1>1 DEF GetDone
  <2>3. [b EXCEPT !.tail = (b.tail + 1) % Sizes] = c
    BY <2>1 DEF Record
  <2>4. QED
    BY <2>2, <2>3
<1>4. RingOK(c, g, TRUE)
  <2>1. /\ Record(c) /\ c.tail = (b.tail + 1) % Sizes /\ c.head = b.head
        /\ c.s_elem = b.s_elem /\ c.n_elem = b.n_elem /\ c.buf = b.buf
    BY DEF Record
  <2> HIDE DEF b, h, c
  <2>2. QED
    BY <1>2, <2>1, CopiedOut
<1>5. /\ UNCHANGED <<idx, putting>> /\ getting' = <<>>
      /\ held' = [held EXCEPT ![r] = g]
      /\ idx \in 0..RING_BUFFER_MAX /\ RingsInv
  BY <1>1 DEF GetDone, RbInv, RingsInv
<1>6. \A s \in Rings : /\ rb'[s].s_elem = rb[s].s_elem
                       /\ rb'[s].n_elem = rb[s].n_elem
                       /\ rb'[s].head = rb[s].head /\ rb'[s].buf = rb[s].buf
  BY <1>3, <1>5 DEF RingsInv
<1>7. /\ h \in Seq(Elem) /\ g \in Seq(Elem) /\ Len(g) = Len(h) - 1
      /\ Len(h) \in Nat
  <2>1. h \in Seq(Elem)
    BY <1>5 DEF RingsInv
  <2>2. h # <<>> /\ Len(h) \in Nat
    BY <1>2, <2>1, LenProperties
  <2>3. QED
    BY <2>1, <2>2, HeadTailProperties
<1>8. RingsInv'
  <2>1. RingOK(c, g, r < idx)
    BY <1>2, <1>4 DEF RingOK
  <2>2. \A s \in Rings : s < idx <=> s < idx \/ (s = r /\ r < idx)
    OBVIOUS
  <2>3. idx' = idx /\ idx >= idx
    BY <1>5
  <2> HIDE DEF c, h, b, g
  <2>4. QED
    BY <1>3, <1>5, <1>7, <2>1, <2>2, <2>3, OneRing
<1>9. PutInv'
  <2>1. \A s \in Rings : Len(held[s]) < rb[s].n_elem =>
          Len(held'[s]) < rb'[s].n_elem
    <3>1. Len(held'[r]) < rb[r].n_elem
      <4>1. rb[r].n_elem \in Nat /\ Len(h) <= b.n_elem
        BY <1>2, SizesPositive DEF RingOK
      <4>2. held'[r] = g
        BY <1>5 DEF RingsInv
      <4>3. QED
        BY <1>7, <4>1, <4>2
    <3>2. \A s \in Rings : s # r => held'[s] = held[s]
      BY <1>5 DEF RingsInv
    <3>3. QED
      BY <1>6, <3>1, <3>2
  <2>2. \A s \in Rings : Offset(s, rb[s].head)' = Offset(s, rb[s].head)
    BY <1>6 DEF Offset
  <2> HIDE DEF b, h, g, c
  <2>3. SUFFICES ASSUME putting # <<>> PROVE PutInv'
    BY <1>5 DEF PutInv
  <2>4. PICK s \in Rings, e \in Elem :
         /\ Len(held[s]) < rb[s].n_elem
         /\ \/ putting = <<s, Offset(s, rb[s].head), e>>
            \/ /\ putting = <<s, e>>
               /\ rb[s].s_elem = 1 => rb[s].buf[Offset(s, rb[s].head)] = e
    BY <2>3 DEF RbInv, PutInv
  <2>5. QED
    BY <1>5, <1>6, <2>1, <2>2, <2>4 DEF PutInv
<1>10. GetInv'
  BY <1>5 DEF GetInv
<1>11. QED
  BY <1>8, <1>9, <1>10 DEF RbInv

(* Every step keeps the invariant. *)
LEMMA StepKeeps == RbInv /\ [RbNext]_rbVars => RbInv'
<1> SUFFICES ASSUME RbInv, [RbNext]_rbVars PROVE RbInv'
  OBVIOUS
<1>1. CASE \E a \in Attrs, null \in BOOLEAN : ring_buffer_init(a, null)
  BY <1>1, InitKeeps
<1>2. CASE \E r \in 0..RING_BUFFER_MAX, e \in Elem : ring_buffer_put(r, e)
  BY <1>2, PutKeeps
<1>3. CASE \E r \in 0..RING_BUFFER_MAX : ring_buffer_get(r)
  BY <1>3, GetKeeps
<1>4. CASE PutCopy
  BY <1>4, PutCopyKeeps
<1>5. CASE PutDone
  BY <1>5, PutDoneKeeps
<1>6. CASE GetCopy
  BY <1>6, GetCopyKeeps
<1>7. CASE GetDone
  BY <1>7, GetDoneKeeps
<1>8. CASE UNCHANGED rbVars
  BY <1>8 DEF rbVars, RbInv, RingsInv, PutInv, GetInv, Offset
<1>9. QED
  BY <1>1, <1>2, <1>3, <1>4, <1>5, <1>6, <1>7, <1>8 DEF RbNext

-----------------------------------------------------------------------------
(* Each ring's descriptor is as the invariant says, with what a put and a  *)
(* get in progress rely on (ringBuffer_api.c:53-117).                      *)
THEOREM RingsKept == RbSpec => []RbInv
<1>1. QED
  BY Initial, StepKeeps, PTL DEF RbSpec

(* The invariant says what the ring holds. *)
LEMMA InvHeld == RbInv => Held
<1> SUFFICES ASSUME RbInv, NEW r \in Rings, rb[r].s_elem = 1
             PROVE  /\ Len(held[r]) = count(r) /\ count(r) <= rb[r].n_elem
                    /\ \A j \in 1..Len(held[r]) :
                         held[r][j] = rb[r].buf[Offset(r, rb[r].tail + j - 1)]
                    /\ Len(getting) = 2 /\ getting[1] = r =>
                         getting[2] = held[r][1]
  BY DEF Held
<1>1. RingOK(rb[r], held[r], r < idx)
  BY DEF RbInv, RingsInv
<1>2. Len(held[r]) = count(r) /\ count(r) <= rb[r].n_elem
  BY <1>1, CountIs DEF RbInv, RingOK
<1>3. ASSUME NEW j \in 1..Len(held[r])
      PROVE  held[r][j] = rb[r].buf[Offset(r, rb[r].tail + j - 1)]
  <2>1. rb[r].s_elem * rb[r].n_elem = rb[r].n_elem
    BY <1>1, SizesPositive DEF RingOK
  <2>2. held[r][j] = rb[r].buf[(rb[r].tail + j - 1) % rb[r].n_elem]
    BY <1>1 DEF RingOK
  <2>3. QED
    BY <2>1, <2>2 DEF Offset
<1>4. ASSUME Len(getting) = 2, getting[1] = r PROVE getting[2] = held[r][1]
  <2>1. getting # <<>>
    <3>1. SUFFICES ASSUME getting = <<>> PROVE Len(getting) = 0
      BY <1>4
    <3>2. QED
      BY <3>1
  <2>2. PICK s \in Rings, v \in Elem :
          \/ getting = <<s>>
          \/ getting = <<s, v>> /\ (rb[s].s_elem = 1 => v = held[s][1])
    BY <2>1 DEF RbInv, GetInv
  <2>3. QED
    BY <1>4, <2>2
<1>5. QED
  BY <1>2, <1>3, <1>4

(* Each ring of one-byte elements holds what was put and not got, oldest   *)
(* first, for every width of size_t and through every overflow of its      *)
(* indices (ringBuffer_api.c:84-130).                                      *)
THEOREM HeldCorrect == RbSpec => []Held
<1>1. QED
  BY RingsKept, InvHeld, PTL
=============================================================================
