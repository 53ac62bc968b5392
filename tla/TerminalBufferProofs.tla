----------------------- MODULE TerminalBufferProofs -------------------------
(***************************************************************************)
(* Proofs about TerminalBuffer.  What a string does to the ring is a       *)
(* recursive function over its characters; what is true after each of them *)
(* is shown by induction, in the form that a set of numbers which is not   *)
(* empty has a least one.                                                  *)
(*                                                                         *)
(* A ring is looked at from its head on, in the order in which the cells   *)
(* will be overwritten: then a character that is pushed only moves the     *)
(* others one place forward, and the line that has not ended is at the     *)
(* end.                                                                    *)
(***************************************************************************)
EXTENDS TerminalBuffer, Modulo, FiniteSetTheorems, SequenceTheorems,
        WellFoundedInduction, TLAPS

(* The last u characters before head h are a line that has not ended; from *)
(* any other cell the end of a line is at most LineChars away.             *)
Fits(buf, h, u) ==
  \A o \in 0..Size-1-u :
    \E e \in o..Size-1-u : e - o <= LineChars /\ buf[Cell(h + e)] = NUL

(* The ends of lines in front of cell h, counted from 1. *)
Before(buf, h) == {i \in 1..h : buf[i-1] = NUL}

(* A ring that was never full: the text is in front of h, nothing behind   *)
(* it, and n lines were counted.                                           *)
Fresh(buf, h, t, n) == /\ t = 0
                       /\ h <= Size - 2
                       /\ \A i \in h..Size-1 : buf[i] = NUL
                       /\ n = Cardinality(Before(buf, h))

(* The window starts at a line, and its number is known. *)
Placed == /\ start_line <= head
          /\ start_line = 0 \/ pbuff[start_line - 1] = NUL
          /\ head # 0 => curr = 1 + Cardinality(Before(pbuff, start_line))

IInv == /\ TypeOK
        /\ Fits(pbuff, head, 0)
        /\ ~overflowed =>
             /\ Fresh(pbuff, head, tail, total)
             /\ head # 0 => m_lines = LinesFor(keyboard)
             /\ painted /\ tags # {} => total > m_lines
             /\ ~astray => Placed

-----------------------------------------------------------------------------
(* Induction. *)
LEMMA Least ==
  ASSUME NEW T, T \subseteq Nat, T # {}
  PROVE  \E m \in T : \A k \in T : m <= k
<1> DEFINE R == OpToRel(<, Nat)
<1>1. IsWellFoundedOn(R, Nat)
  BY NatLessThanWellFounded
<1>2. \A x, y \in Nat : x < y => <<x, y>> \in R
  BY DEF OpToRel
<1> HIDE DEF R
<1>3. PICK m \in T : \A y \in T : ~ (<<y, m>> \in R)
  BY <1>1, WFMin
<1>4. ASSUME NEW k \in T
      PROVE  m <= k
  <2>1. k \in Nat /\ m \in Nat
    OBVIOUS
  <2>2. ~(<<k, m>> \in R)
    BY <1>3
  <2>3. ~(k < m)
    BY <1>2, <2>1, <2>2
  <2>4. QED
    BY <2>1, <2>3
<1>5. QED
  BY <1>4

LEMMA Induction ==
  ASSUME NEW S, 0 \in S, \A n \in Nat : n \in S => n + 1 \in S
  PROVE  \A n \in Nat : n \in S
<1> DEFINE T == {n \in Nat : n \notin S}
<1> SUFFICES ASSUME T # {} PROVE FALSE
  OBVIOUS
<1>1. PICK m \in T : \A k \in T : m <= k
  BY Least
<1>2. m # 0 /\ m - 1 \in Nat /\ m - 1 \notin T
  BY <1>1
<1>3. QED
  BY <1>1, <1>2

-----------------------------------------------------------------------------
(* Cells. *)
LEMMA Sizes == /\ Size \in Nat \ {0} /\ LineChars \in Nat \ {0}
               /\ LineChars <= Size - 2
BY SizeAssumption

LEMMA InRing == ASSUME NEW x \in Int PROVE Cell(x) \in 0..Size-1
BY Sizes, Division DEF Cell

LEMMA SameCell == ASSUME NEW x \in 0..Size-1 PROVE Cell(x) = x
BY Sizes, Small DEF Cell

LEMMA CellOfCell == ASSUME NEW x \in Int, NEW k \in Int
                    PROVE  Cell(Cell(x) + k) = Cell(x + k)
BY Sizes, ReducedSame DEF Cell

LEMMA TurnedCell == ASSUME NEW x \in Int PROVE Cell(x + Size) = Cell(x)
<1>1. (x + Size * 1) % Size = x % Size
  <2>1. Size \in Nat \ {0} /\ 1 \in Int
    BY Sizes
  <2>2. QED
    BY <2>1, Turns
<1>2. QED
  BY <1>1, Sizes DEF Cell

LEMMA OtherCell ==
  ASSUME NEW x \in Int, NEW y \in Int, x < y, y - x < Size
  PROVE  Cell(x) # Cell(y)
BY Sizes, Apart DEF Cell

(* Every cell is met on the way from cell h. *)
LEMMA Reached ==
  ASSUME NEW p \in 0..Size-1, NEW h \in 0..Size-1
  PROVE  \E o \in 0..Size-1 : Cell(h + o) = p
<1>1. p - h \in Int /\ h \in Int
  BY Sizes
<1>2. Cell(p - h) \in 0..Size-1
  BY <1>1, InRing
<1>3. Cell(Cell(p - h) + h) = Cell((p - h) + h)
  BY <1>1, CellOfCell
<1>4. Cell(p - h) + h = h + Cell(p - h) /\ (p - h) + h = p
  BY <1>1, <1>2
<1>5. QED
  BY <1>2, <1>3, <1>4, SameCell

(* The loops that look for NUL find the first one. *)
LEMMA ToEndFinds ==
  ASSUME NEW buf, NEW p \in Int, NEW d \in 0..Size-1, buf[Cell(p + d)] = NUL
  PROVE  /\ ToEnd(buf, p) \in 0..d
         /\ buf[Cell(p + ToEnd(buf, p))] = NUL
         /\ \A e \in 0..ToEnd(buf, p)-1 : buf[Cell(p + e)] # NUL
<1> DEFINE T == {e \in 0..Size-1 : buf[Cell(p + e)] = NUL}
<1>1. T \subseteq Nat /\ d \in T
  BY Sizes
<1>2. PICK m \in T : \A k \in T : m <= k
  BY <1>1, Least
<1>3. m \in 0..d /\ m \in 0..Size-1
  BY <1>1, <1>2
<1>4. ASSUME NEW e \in 0..m-1
      PROVE  buf[Cell(p + e)] # NUL
  <2>1. e \in 0..Size-1 /\ ~(m <= e)
    BY <1>3, Sizes
  <2>2. QED
    BY <1>2, <2>1
<1>5. \E x \in 0..Size-1 : /\ buf[Cell(p + x)] = NUL
                           /\ \A e \in 0..x-1 : buf[Cell(p + e)] # NUL
  BY <1>2, <1>3, <1>4
<1> DEFINE t == ToEnd(buf, p)
<1>6. /\ t \in 0..Size-1
      /\ buf[Cell(p + t)] = NUL
      /\ \A e \in 0..t-1 : buf[Cell(p + e)] # NUL
  BY <1>5 DEF ToEnd
<1> HIDE DEF t
<1>7. t <= d
  <2>1. ~(d < t)
    <3>1. ASSUME d < t PROVE d \in 0..t-1
      BY <3>1, <1>6, Sizes
    <3>2. QED
      BY <3>1, <1>6
  <2>2. QED
    BY <2>1, <1>6, Sizes
<1>8. t \in 0..d
  BY <1>6, <1>7, Sizes
<1>9. QED
  BY <1>6, <1>8 DEF t

LEMMA BackToEndFinds ==
  ASSUME NEW buf, NEW p \in Int, NEW d \in 0..Size-1, buf[Cell(p - d)] = NUL
  PROVE  /\ BackToEnd(buf, p) \in 0..d
         /\ buf[Cell(p - BackToEnd(buf, p))] = NUL
         /\ \A e \in 0..BackToEnd(buf, p)-1 : buf[Cell(p - e)] # NUL
<1> DEFINE T == {e \in 0..Size-1 : buf[Cell(p - e)] = NUL}
<1>1. T \subseteq Nat /\ d \in T
  BY Sizes
<1>2. PICK m \in T : \A k \in T : m <= k
  BY <1>1, Least
<1>3. m \in 0..d /\ m \in 0..Size-1
  BY <1>1, <1>2
<1>4. ASSUME NEW e \in 0..m-1
      PROVE  buf[Cell(p - e)] # NUL
  <2>1. e \in 0..Size-1 /\ ~(m <= e)
    BY <1>3, Sizes
  <2>2. QED
    BY <1>2, <2>1
<1>5. \E x \in 0..Size-1 : /\ buf[Cell(p - x)] = NUL
                           /\ \A e \in 0..x-1 : buf[Cell(p - e)] # NUL
  BY <1>2, <1>3, <1>4
<1> DEFINE t == BackToEnd(buf, p)
<1>6. /\ t \in 0..Size-1
      /\ buf[Cell(p - t)] = NUL
      /\ \A e \in 0..t-1 : buf[Cell(p - e)] # NUL
  BY <1>5 DEF BackToEnd
<1> HIDE DEF t
<1>7. t <= d
  <2>1. ~(d < t)
    <3>1. ASSUME d < t PROVE d \in 0..t-1
      BY <3>1, <1>6, Sizes
    <3>2. QED
      BY <3>1, <1>6
  <2>2. QED
    BY <2>1, <1>6, Sizes
<1>8. t \in 0..d
  BY <1>6, <1>7, Sizes
<1>9. QED
  BY <1>6, <1>8 DEF t

-----------------------------------------------------------------------------
(* Lines. *)

(* From every cell the end of a line is near, once the last line has ended. *)
LEMMA EndIsNear ==
  ASSUME NEW buf, NEW h \in 0..Size-1, Fits(buf, h, 0), NEW p \in 0..Size-1
  PROVE  \E d \in 0..Size-1 : d <= LineChars /\ buf[Cell(p + d)] = NUL
<1>1. PICK o \in 0..Size-1 : Cell(h + o) = p
  BY Reached
<1>2. o \in 0..Size-1-0
  BY Sizes
<1>3. PICK e \in o..Size-1-0 : e - o <= LineChars /\ buf[Cell(h + e)] = NUL
  BY <1>2 DEF Fits
<1>4. h + o \in Int /\ e - o \in 0..Size-1 /\ (h + o) + (e - o) = h + e
  BY <1>1, <1>3, Sizes
<1>5. Cell(p + (e - o)) = Cell(h + e)
  BY <1>1, <1>4, CellOfCell
<1>6. QED
  BY <1>3, <1>4, <1>5

LEMMA EndNear ==
  ASSUME NEW buf, NEW h \in 0..Size-1, Fits(buf, h, 0), NEW p \in 0..Size-1
  PROVE  /\ ToEnd(buf, p) \in 0..LineChars
         /\ buf[Cell(p + ToEnd(buf, p))] = NUL
         /\ \A e \in 0..ToEnd(buf, p)-1 : buf[Cell(p + e)] # NUL
<1>1. PICK d \in 0..Size-1 : d <= LineChars /\ buf[Cell(p + d)] = NUL
  BY EndIsNear
<1>2. p \in Int
  BY Sizes
<1>3. /\ ToEnd(buf, p) \in 0..d
      /\ buf[Cell(p + ToEnd(buf, p))] = NUL
      /\ \A e \in 0..ToEnd(buf, p)-1 : buf[Cell(p + e)] # NUL
  BY <1>1, <1>2, ToEndFinds
<1>4. ToEnd(buf, p) \in 0..LineChars
  BY <1>1, <1>3, Sizes
<1>5. QED
  BY <1>3, <1>4

(* The last cell before the head ends a line. *)
LEMMA LastEnds ==
  ASSUME NEW buf, NEW h \in 0..Size-1, Fits(buf, h, 0)
  PROVE  buf[Cell(h - 1)] = NUL
<1>1. Size - 1 \in 0..Size-1-0
  BY Sizes
<1>2. PICK e \in (Size-1)..Size-1-0 : buf[Cell(h + e)] = NUL
  BY <1>1 DEF Fits
<1>3. e = Size - 1 /\ h - 1 \in Int /\ h + e = (h - 1) + Size
  BY <1>2, Sizes
<1>4. QED
  BY <1>2, <1>3, TurnedCell

(* Backwards from anywhere there is one, too. *)
LEMMA EndBehind ==
  ASSUME NEW buf, NEW h \in 0..Size-1, Fits(buf, h, 0), NEW p \in 0..Size-1
  PROVE  /\ BackToEnd(buf, p) \in 0..Size-1
         /\ buf[Cell(p - BackToEnd(buf, p))] = NUL
         /\ \A e \in 0..BackToEnd(buf, p)-1 : buf[Cell(p - e)] # NUL
<1>1. Cell(h - 1) \in 0..Size-1
  BY InRing, Sizes
<1>2. PICK d \in 0..Size-1 : Cell(Cell(h - 1) + d) = p
  BY <1>1, Reached
<1>3. Cell(p - d) = Cell(h - 1)
  <2>1. /\ Cell(h - 1) + d \in Int /\ -d \in Int /\ p - d = p + (-d)
        /\ (Cell(h - 1) + d) + (-d) = Cell(h - 1)
    BY <1>1, <1>2, Sizes
  <2>2. Cell(Cell(Cell(h - 1) + d) + (-d)) = Cell((Cell(h - 1) + d) + (-d))
    BY <2>1, CellOfCell
  <2>3. QED
    BY <1>1, <1>2, <2>1, <2>2, SameCell
<1>4. buf[Cell(p - d)] = NUL /\ p \in Int
  BY <1>3, LastEnds, Sizes
<1>5. /\ BackToEnd(buf, p) \in 0..d
      /\ buf[Cell(p - BackToEnd(buf, p))] = NUL
      /\ \A e \in 0..BackToEnd(buf, p)-1 : buf[Cell(p - e)] # NUL
  BY <1>2, <1>4, BackToEndFinds
<1>6. BackToEnd(buf, p) \in 0..Size-1
  BY <1>2, <1>5, Sizes
<1>7. QED
  BY <1>5, <1>6

(* A character makes the last line longer, *)
LEMMA LongerLine ==
  ASSUME NEW buf \in [0..Size-1 -> Char \cup {NUL}], NEW h \in 0..Size-1,
         NEW c, NEW u \in Nat, u < Size - 1, Fits(buf, h, u)
  PROVE  Fits([buf EXCEPT ![h] = c], Cell(h + 1), u + 1)
<1> DEFINE new == [buf EXCEPT ![h] = c]
<1>1. ASSUME NEW o \in 0..Size-1-(u+1)
      PROVE  \E e \in o..Size-1-(u+1) :
               e - o <= LineChars /\ new[Cell(Cell(h + 1) + e)] = NUL
  <2>1. o + 1 \in 0..Size-1-u
    BY Sizes
  <2>2. PICK e \in (o+1)..Size-1-u :
               e - (o + 1) <= LineChars /\ buf[Cell(h + e)] = NUL
    BY <2>1 DEF Fits
  <2>3. /\ e - 1 \in o..Size-1-(u+1) /\ e - 1 \in Int /\ h + 1 \in Int
        /\ (h + 1) + (e - 1) = h + e /\ h + e \in Int /\ h < h + e
        /\ (h + e) - h < Size /\ (e - 1) - o <= LineChars
    BY <2>1, <2>2, Sizes
  <2>4. Cell(Cell(h + 1) + (e - 1)) = Cell(h + e)
    BY <2>3, CellOfCell
  <2>5. Cell(h) # Cell(h + e) /\ Cell(h) = h /\ Cell(h + e) \in 0..Size-1
    BY <2>3, OtherCell, SameCell, InRing
  <2>6. new[Cell(h + e)] = NUL
    BY <2>2, <2>5
  <2>7. QED
    BY <2>3, <2>4, <2>6
<1>2. QED
  BY <1>1 DEF Fits

(* a NUL ends it. *)
LEMMA EndedLine ==
  ASSUME NEW buf \in [0..Size-1 -> Char \cup {NUL}], NEW h \in 0..Size-1,
         NEW u \in 0..LineChars, Fits(buf, h, u)
  PROVE  Fits([buf EXCEPT ![h] = NUL], Cell(h + 1), 0)
<1> DEFINE new == [buf EXCEPT ![h] = NUL]
<1>1. Fits(new, Cell(h + 1), u + 1)
  <2>1. u \in Nat /\ u < Size - 1
    BY Sizes
  <2>2. QED
    BY <2>1, LongerLine
<1>2. new[Cell(Cell(h + 1) + (Size - 1))] = NUL
  <2>1. h + 1 \in Int /\ Size - 1 \in Int /\ (h + 1) + (Size - 1) = h + Size
    BY Sizes
  <2>2. Cell(Cell(h + 1) + (Size - 1)) = h
    BY <2>1, CellOfCell, TurnedCell, SameCell
  <2>3. QED
    BY <2>2
<1>3. ASSUME NEW o \in 0..Size-1-0
      PROVE  \E e \in o..Size-1-0 :
               e - o <= LineChars /\ new[Cell(Cell(h + 1) + e)] = NUL
  <2>1. CASE o <= Size-1-(u+1)
    <3>1. o \in 0..Size-1-(u+1)
      BY <2>1, Sizes
    <3>2. PICK e \in o..Size-1-(u+1) :
                 e - o <= LineChars /\ new[Cell(Cell(h + 1) + e)] = NUL
      BY <1>1, <3>1 DEF Fits
    <3>3. e \in o..Size-1-0
      BY <3>2, Sizes
    <3>4. QED
      BY <3>2, <3>3
  <2>2. CASE ~(o <= Size-1-(u+1))
    <3>1. Size - 1 \in o..Size-1-0 /\ (Size - 1) - o <= LineChars
      BY <2>2, Sizes
    <3>2. QED
      BY <1>2, <3>1
  <2>3. QED
    BY <2>1, <2>2
<1>4. QED
  BY <1>3 DEF Fits

-----------------------------------------------------------------------------
(* What the steps of an append do to the record they work on.              *)

Ring == [buf : [0..Size-1 -> Char \cup {NUL}], head : 0..Size-1,
         tail : 0..Size-1, total : Nat, char_no : Nat]

(* With room for one character, made in a full ring. *)
Room(b) == Cell(b.head + 2) = b.tail

(* What is kept until the ring is full. *)
Kept(b) == overflowed \/ /\ Fresh(b.buf, b.head, b.tail, b.total)
                         /\ total \in 0..b.total

(* The last line has not more characters than char_no says. *)
Line(b, n) == \E u \in 0..n : Fits(b.buf, b.head, u)

LEMMA OverwritesCounted ==
  ASSUME NEW b \in Ring, is_rb_full(b) \/ Kept(b)
  PROVE  LET r == CountOverwritten(b)
         IN  /\ r \in Ring
             /\ r.buf = b.buf /\ r.head = b.head /\ r.char_no = b.char_no
             /\ r.tail = b.tail
             /\ is_rb_full(r) \/ Kept(r)
<1> DEFINE r == CountOverwritten(b)
<1>1. CASE is_rb_full(b) /\ b.buf[b.head] = NUL /\ b.total > 0
  <2>1. r = [b EXCEPT !.total = @ - 1]
    BY <1>1 DEF CountOverwritten
  <2>2. b.total - 1 \in Nat
    BY <1>1 DEF Ring
  <2>3. /\ r \in Ring /\ r.buf = b.buf /\ r.head = b.head
        /\ r.char_no = b.char_no /\ r.tail = b.tail
    BY <2>1, <2>2 DEF Ring
  <2>4. QED
    BY <1>1, <2>3 DEF is_rb_full
<1>2. CASE ~(is_rb_full(b) /\ b.buf[b.head] = NUL /\ b.total > 0)
  BY <1>2 DEF CountOverwritten
<1>3. QED
  BY <1>1, <1>2

LEMMA RoomMade ==
  ASSUME NEW b \in Ring, is_rb_full(b) \/ Kept(b)
  PROVE  LET r == MakeRoom(b)
         IN  /\ r \in Ring
             /\ r.buf = b.buf /\ r.head = b.head /\ r.char_no = b.char_no
             /\ r.total = b.total
             /\ IF is_rb_full(b) THEN Room(r) ELSE r = b
             /\ Room(r) \/ Kept(r)
<1> DEFINE r == MakeRoom(b)
<1>1. CASE is_rb_full(b)
  <2>1. r = [b EXCEPT !.tail = Cell(@ + 1)]
    BY <1>1 DEF MakeRoom
  <2>2. b.head \in Int /\ b.tail \in Int /\ b.head + 1 \in Int
    BY Sizes DEF Ring
  <2>3. Cell(b.tail + 1) \in 0..Size-1
    BY <2>2, InRing
  <2>4. /\ r \in Ring /\ r.buf = b.buf /\ r.head = b.head
        /\ r.char_no = b.char_no /\ r.total = b.total
        /\ r.tail = Cell(b.tail + 1)
    BY <2>1, <2>3 DEF Ring
  <2>5. Cell(b.tail + 1) = Cell(b.head + 2)
    <3>1. b.tail = Cell(b.head + 1)
      BY <1>1 DEF is_rb_full
    <3>2. Cell(Cell(b.head + 1) + 1) = Cell((b.head + 1) + 1)
      <4>1. 1 \in Int
        OBVIOUS
      <4>2. QED
        BY <2>2, <4>1, CellOfCell
    <3>3. (b.head + 1) + 1 = b.head + 2
      BY <2>2
    <3>4. QED
      BY <3>1, <3>2, <3>3
  <2>6. QED
    BY <1>1, <2>4, <2>5 DEF Room
<1>2. CASE ~is_rb_full(b)
  <2>1. r = b
    BY <1>2 DEF MakeRoom
  <2>2. QED
    BY <1>2, <2>1
<1>3. QED
  BY <1>1, <1>2

LEMMA PushFields ==
  ASSUME NEW b \in Ring, NEW c \in Char \cup {NUL}
  PROVE  LET r == Push(b, c)
         IN  /\ r \in Ring
             /\ r.buf = [b.buf EXCEPT ![b.head] = c]
             /\ r.head = Cell(b.head + 1)
             /\ r.tail = b.tail /\ r.total = b.total /\ r.char_no = b.char_no
<1> DEFINE r == Push(b, c)
<1>1. /\ b.buf \in [0..Size-1 -> Char \cup {NUL}] /\ b.head \in 0..Size-1
      /\ b.head \in Int
  BY Sizes DEF Ring
<1>2. [b.buf EXCEPT ![b.head] = c] \in [0..Size-1 -> Char \cup {NUL}]
  BY <1>1
<1>3. Cell(b.head + 1) \in 0..Size-1
  BY <1>1, InRing
<1>4. r = [[b EXCEPT !.buf = [b.buf EXCEPT ![b.head] = c]]
              EXCEPT !.head = Cell(b.head + 1)]
  BY DEF Push, Ring
<1>5. QED
  BY <1>2, <1>3, <1>4 DEF Ring

(* The counted lines of a ring that was never full. *)
LEMMA OneMore ==
  ASSUME NEW buf \in [0..Size-1 -> Char \cup {NUL}], NEW h \in 0..Size-1,
         h <= Size - 2, NEW c \in Char \cup {NUL}
  PROVE  LET new == [buf EXCEPT ![h] = c]
         IN  /\ IsFiniteSet(Before(buf, h)) /\ IsFiniteSet(Before(new, h + 1))
             /\ Cardinality(Before(new, h + 1)) =
                  Cardinality(Before(buf, h)) + (IF c = NUL THEN 1 ELSE 0)
<1> DEFINE new == [buf EXCEPT ![h] = c]
<1>1. h \in Nat /\ IsFiniteSet(1..h)
  BY Sizes, FS_Interval
<1>2. IsFiniteSet(Before(buf, h))
  BY <1>1, FS_Subset DEF Before
<1>3. ASSUME NEW i \in 1..h+1
      PROVE  new[i-1] = IF i = h + 1 THEN c ELSE buf[i-1]
  BY Sizes
<1>4. 1..h+1 = (1..h) \cup {h + 1} /\ \A i \in 1..h : i # h + 1
  BY <1>1
<1>5. Before(new, h + 1) = IF c = NUL THEN Before(buf, h) \cup {h + 1}
                                     ELSE Before(buf, h)
  BY <1>1, <1>3, <1>4 DEF Before
<1>6. h + 1 \notin Before(buf, h)
  BY <1>1 DEF Before
<1>7. Cardinality(Before(buf, h)) \in Nat
  BY <1>2, FS_CardinalityType
<1>8. CASE c = NUL
  <2>1. /\ IsFiniteSet(Before(buf, h) \cup {h + 1})
        /\ Cardinality(Before(buf, h) \cup {h + 1}) = Cardinality(Before(buf, h)) + 1
    BY <1>2, <1>6, FS_AddElement
  <2>2. QED
    BY <1>2, <1>5, <1>8, <2>1
<1>9. CASE c # NUL
  BY <1>2, <1>5, <1>7, <1>9
<1>10. QED
  BY <1>8, <1>9

(* Pushing a character, counted if it is a NUL. *)
LEMMA PushKeeps ==
  ASSUME NEW b \in Ring, NEW c \in Char \cup {NUL}, NEW r \in Ring,
         Room(b) \/ Kept(b),
         r.buf = [b.buf EXCEPT ![b.head] = c], r.head = Cell(b.head + 1),
         r.tail = b.tail,
         r.total = b.total + (IF c = NUL THEN 1 ELSE 0)
  PROVE  is_rb_full(r) \/ Kept(r)
<1>1. /\ b.buf \in [0..Size-1 -> Char \cup {NUL}] /\ b.head \in 0..Size-1
      /\ b.head \in Int /\ b.head + 1 \in Int /\ (b.head + 1) + 1 = b.head + 2
  BY Sizes DEF Ring
<1>2. Cell(r.head + 1) = Cell(b.head + 2)
  <2>1. 1 \in Int
    OBVIOUS
  <2>2. Cell(Cell(b.head + 1) + 1) = Cell((b.head + 1) + 1)
    BY <1>1, <2>1, CellOfCell
  <2>3. QED
    BY <1>1, <2>2
<1>3. CASE Room(b)
  BY <1>2, <1>3 DEF Room, is_rb_full
<1>4. CASE ~overflowed /\ Kept(b)
  <2>1. /\ b.tail = 0 /\ b.head <= Size - 2
        /\ \A i \in b.head..Size-1 : b.buf[i] = NUL
        /\ b.total = Cardinality(Before(b.buf, b.head))
        /\ total \in 0..b.total
    BY <1>4 DEF Kept, Fresh
  <2>2. b.head + 1 \in 0..Size-1 /\ r.head = b.head + 1
    <3>1. b.head + 1 \in 0..Size-1
      BY <1>1, <2>1, Sizes
    <3>2. QED
      BY <3>1, SameCell
  <2>3. r.total = Cardinality(Before(r.buf, r.head))
    <3>1. Cardinality(Before([b.buf EXCEPT ![b.head] = c], b.head + 1)) =
            Cardinality(Before(b.buf, b.head)) + (IF c = NUL THEN 1 ELSE 0)
      BY <1>1, <2>1, OneMore, ZenonT(30)
    <3>2. QED
      BY <2>1, <2>2, <3>1
  <2>4. \A i \in r.head..Size-1 : r.buf[i] = NUL
    <3>1. ASSUME NEW i \in (b.head+1)..Size-1
          PROVE  r.buf[i] = NUL
      <4>1. i \in b.head..Size-1 /\ i # b.head /\ i \in 0..Size-1
        BY <1>1, Sizes
      <4>2. QED
        BY <1>1, <2>1, <4>1
    <3>2. QED
      BY <3>1, <2>2
  <2>5. CASE r.head <= Size - 2
    <3>1. b.total \in Nat /\ b.total <= r.total
      BY DEF Ring
    <3>2. total \in 0..r.total
      BY <2>1, <3>1 DEF Ring
    <3>3. QED
      BY <2>1, <2>3, <2>4, <2>5, <3>2 DEF Kept, Fresh
  <2>6. CASE ~(r.head <= Size - 2)
    <3>1. r.head + 1 = 0 + Size
      BY <1>1, <2>2, <2>6, Sizes
    <3>2. Cell(r.head + 1) = 0
      <4>1. Cell(0 + Size) = Cell(0) /\ 0 \in 0..Size-1
        BY Sizes, TurnedCell
      <4>2. QED
        BY <3>1, <4>1, SameCell
    <3>3. QED
      BY <2>1, <3>2 DEF is_rb_full
  <2>7. QED
    BY <2>5, <2>6
<1>5. QED
  BY <1>3, <1>4 DEF Kept

-----------------------------------------------------------------------------
(* One character. *)

(* At the head of the loop, and behind what makes room. *)
Between(b) == /\ b \in Ring
              /\ b.char_no \in 1..LineChars+1
              /\ is_rb_full(b) \/ Kept(b)
              /\ Line(b, b.char_no - 1)
Roomy(b) == /\ b \in Ring
            /\ b.char_no \in 1..LineChars+1
            /\ Room(b) \/ Kept(b)
            /\ Line(b, b.char_no - 1)

LEMMA PushedOn ==
  ASSUME NEW b, Roomy(b), b.char_no <= LineChars, NEW c \in Char
  PROVE  /\ Push(b, c) \in Ring /\ Push(b, c).char_no = b.char_no
         /\ is_rb_full(Push(b, c)) \/ Kept(Push(b, c))
         /\ Line(Push(b, c), b.char_no)
<1> DEFINE r == Push(b, c)
<1>1. b \in Ring /\ b.char_no \in 1..LineChars /\ c \in Char \cup {NUL} /\ c # NUL
  BY CharAssumption, Sizes DEF Roomy
<1>2. /\ r \in Ring
      /\ r.buf = [b.buf EXCEPT ![b.head] = c]
      /\ r.head = Cell(b.head + 1)
      /\ r.tail = b.tail /\ r.total = b.total /\ r.char_no = b.char_no
  BY <1>1, PushFields
<1> HIDE DEF r
<1>3. b.total \in Nat
  BY <1>1 DEF Ring
<1>4. r.total = b.total + (IF c = NUL THEN 1 ELSE 0)
  BY <1>1, <1>2, <1>3
<1>5. Room(b) \/ Kept(b)
  BY DEF Roomy
<1>6. is_rb_full(r) \/ Kept(r)
  BY <1>1, <1>2, <1>4, <1>5, PushKeeps
<1>7. PICK u \in 0..b.char_no-1 : Fits(b.buf, b.head, u)
  BY DEF Roomy, Line
<1>8. /\ u \in Nat /\ u < Size - 1 /\ u + 1 \in 0..b.char_no
      /\ b.buf \in [0..Size-1 -> Char \cup {NUL}] /\ b.head \in 0..Size-1
  BY <1>1, <1>7, Sizes DEF Ring
<1>9. Fits(r.buf, r.head, u + 1)
  <2>1. Fits([b.buf EXCEPT ![b.head] = c], Cell(b.head + 1), u + 1)
    BY <1>7, <1>8, LongerLine
  <2>2. QED
    BY <1>2, <2>1
<1>10. Line(r, b.char_no)
  BY <1>8, <1>9 DEF Line
<1>11. QED
  BY <1>2, <1>6, <1>10 DEF r

LEMMA Ended ==
  ASSUME NEW b, Roomy(b)
  PROVE  /\ PushEnd(b) \in Ring /\ PushEnd(b).char_no = b.char_no
         /\ is_rb_full(PushEnd(b)) \/ Kept(PushEnd(b))
         /\ Fits(PushEnd(b).buf, PushEnd(b).head, 0)
<1> DEFINE p == Push(b, NUL)
           r == PushEnd(b)
<1>1. b \in Ring /\ b.char_no \in 1..LineChars+1 /\ NUL \in Char \cup {NUL}
  BY Sizes DEF Roomy
<1>2. /\ p \in Ring
      /\ p.buf = [b.buf EXCEPT ![b.head] = NUL]
      /\ p.head = Cell(b.head + 1)
      /\ p.tail = b.tail /\ p.total = b.total /\ p.char_no = b.char_no
  BY <1>1, PushFields
<1>3. r = [p EXCEPT !.total = @ + 1]
  BY DEF PushEnd
<1> HIDE DEF p
<1>4. p.total + 1 \in Nat
  BY <1>2 DEF Ring
<1>5. /\ r \in Ring /\ r.buf = p.buf /\ r.head = p.head /\ r.tail = p.tail
      /\ r.char_no = p.char_no /\ r.total = p.total + 1
  BY <1>2, <1>3, <1>4 DEF Ring
<1> HIDE DEF r
<1>6. is_rb_full(r) \/ Kept(r)
  <2>1. Room(b) \/ Kept(b)
    BY DEF Roomy
  <2>2. r.total = b.total + (IF NUL = NUL THEN 1 ELSE 0)
    BY <1>2, <1>5
  <2>3. /\ r.buf = [b.buf EXCEPT ![b.head] = NUL]
        /\ r.head = Cell(b.head + 1) /\ r.tail = b.tail
    BY <1>2, <1>5
  <2>4. QED
    BY <1>1, <1>5, <2>1, <2>2, <2>3, PushKeeps
<1>7. PICK u \in 0..b.char_no-1 : Fits(b.buf, b.head, u)
  BY DEF Roomy, Line
<1>8. /\ u \in 0..LineChars
      /\ b.buf \in [0..Size-1 -> Char \cup {NUL}] /\ b.head \in 0..Size-1
  BY <1>1, <1>7, Sizes DEF Ring
<1>9. Fits(r.buf, r.head, 0)
  BY <1>2, <1>5, <1>7, <1>8, EndedLine
<1>10. QED
  BY <1>2, <1>5, <1>6, <1>9 DEF r

(* Neither a line's number of characters nor the room behind it depend on  *)
(* char_no.                                                                *)
LEMMA Renumbered ==
  ASSUME NEW b \in Ring, NEW n \in Nat
  PROVE  LET r == [b EXCEPT !.char_no = n]
         IN  /\ r \in Ring /\ r.char_no = n /\ r.buf = b.buf /\ r.head = b.head
             /\ is_rb_full(b) => is_rb_full(r)
             /\ Kept(b) => Kept(r)
             /\ \A m : Line(b, m) => Line(r, m)
<1> DEFINE r == [b EXCEPT !.char_no = n]
<1>1. /\ r \in Ring /\ r.char_no = n /\ r.buf = b.buf /\ r.head = b.head
      /\ r.tail = b.tail /\ r.total = b.total
  BY DEF Ring
<1> HIDE DEF r
<1>2. /\ is_rb_full(b) => is_rb_full(r)
      /\ Kept(b) => Kept(r)
      /\ \A m : Line(b, m) => Line(r, m)
  BY <1>1 DEF is_rb_full, Kept, Line
<1>3. QED
  BY <1>1, <1>2 DEF r

LEMMA MadeRoomy ==
  ASSUME NEW b, Between(b)
  PROVE  Roomy(MakeRoom(b)) /\ MakeRoom(b).char_no = b.char_no
<1>1. b \in Ring /\ (is_rb_full(b) \/ Kept(b))
  BY DEF Between
<1> DEFINE r == MakeRoom(b)
<1>2. /\ r \in Ring
      /\ r.buf = b.buf /\ r.head = b.head /\ r.char_no = b.char_no
      /\ Room(r) \/ Kept(r)
  BY <1>1, RoomMade
<1> HIDE DEF r
<1>3. QED
  <2>1. Roomy(r) /\ r.char_no = b.char_no
    BY <1>2 DEF Between, Roomy, Line
  <2>2. QED
    BY <2>1 DEF r

LEMMA Broken ==
  ASSUME NEW b, Roomy(b)
  PROVE  Roomy(BreakLine(b)) /\ BreakLine(b).char_no \in 1..LineChars
<1>1. b \in Ring /\ b.char_no \in 1..LineChars+1
  BY DEF Roomy
<1>2. CASE b.char_no > LineChars
  <2> DEFINE p == PushEnd(b)
             q == [p EXCEPT !.char_no = 1]
  <2>1. BreakLine(b) = MakeRoom(q)
    BY <1>2 DEF BreakLine
  <2>2. /\ p \in Ring
        /\ is_rb_full(p) \/ Kept(p)
        /\ Fits(p.buf, p.head, 0)
    BY Ended
  <2> HIDE DEF p
  <2>3. 1 \in Nat
    OBVIOUS
  <2>4. /\ q \in Ring /\ q.char_no = 1 /\ q.buf = p.buf /\ q.head = p.head
        /\ is_rb_full(p) => is_rb_full(q)
        /\ Kept(p) => Kept(q)
    BY <2>2, <2>3, Renumbered
  <2> HIDE DEF q
  <2>5. Line(q, q.char_no - 1)
    <3>1. 0 \in 0..q.char_no-1 /\ Fits(q.buf, q.head, 0)
      BY <2>2, <2>4
    <3>2. QED
      BY <3>1 DEF Line
  <2>6. Between(q)
    <3>1. q.char_no \in 1..LineChars+1
      BY <2>4, Sizes
    <3>2. is_rb_full(q) \/ Kept(q)
      BY <2>2, <2>4
    <3>3. QED
      BY <2>4, <2>5, <3>1, <3>2 DEF Between
  <2>7. Roomy(MakeRoom(q)) /\ MakeRoom(q).char_no = 1
    BY <2>4, <2>6, MadeRoomy
  <2>8. 1 \in 1..LineChars
    BY Sizes
  <2>9. QED
    BY <2>1, <2>7, <2>8
<1>3. CASE ~(b.char_no > LineChars)
  <2>1. BreakLine(b) = b
    BY <1>3 DEF BreakLine
  <2>2. b.char_no \in 1..LineChars
    BY <1>1, <1>3, Sizes
  <2>3. QED
    BY <2>1, <2>2
<1>4. QED
  BY <1>2, <1>3

LEMMA CharCopied ==
  ASSUME NEW b, Between(b), NEW c \in Char \cup {Newline}
  PROVE  Between(CopyChar(b, c))
<1> DEFINE o == CountOverwritten(b)
           m == MakeRoom(o)
           r == BreakLine(m)
           e == PushEnd(r)
           f == [e EXCEPT !.char_no = 1]
           p == IF c = Newline THEN f ELSE Push(r, c)
           q == [p EXCEPT !.char_no = @ + 1]
<1>1. CopyChar(b, c) = q
  BY DEF CopyChar
<1>2. Between(o)
  <2>1. b \in Ring /\ (is_rb_full(b) \/ Kept(b))
    BY DEF Between
  <2>2. /\ o \in Ring
        /\ o.buf = b.buf /\ o.head = b.head /\ o.char_no = b.char_no
        /\ is_rb_full(o) \/ Kept(o)
    BY <2>1, OverwritesCounted
  <2> HIDE DEF o
  <2>3. QED
    BY <2>2 DEF Between, Line
<1> HIDE DEF o
<1>3. Roomy(m)
  BY <1>2, MadeRoomy
<1> HIDE DEF m
<1>4. Roomy(r) /\ r.char_no \in 1..LineChars
  BY <1>3, Broken
<1> HIDE DEF r
<1>5. /\ p \in Ring /\ p.char_no \in 1..LineChars
      /\ is_rb_full(p) \/ Kept(p)
      /\ Line(p, p.char_no)
  <2>1. CASE c = Newline
    <3>1. /\ e \in Ring
          /\ is_rb_full(e) \/ Kept(e)
          /\ Fits(e.buf, e.head, 0)
      BY <1>4, Ended
    <3> HIDE DEF e
    <3>2. 1 \in Nat
      OBVIOUS
    <3>3. /\ f \in Ring /\ f.char_no = 1 /\ f.buf = e.buf /\ f.head = e.head
          /\ is_rb_full(e) => is_rb_full(f)
          /\ Kept(e) => Kept(f)
      BY <3>1, <3>2, Renumbered
    <3> HIDE DEF f
    <3>4. Line(f, f.char_no)
      <4>1. 0 \in 0..f.char_no /\ Fits(f.buf, f.head, 0)
        BY <3>1, <3>3
      <4>2. QED
        BY <4>1 DEF Line
    <3>5. p = f /\ 1 \in 1..LineChars
      BY <2>1, Sizes
    <3> HIDE DEF p
    <3>6. QED
      BY <3>1, <3>3, <3>4, <3>5
  <2>2. CASE c # Newline
    <3>1. c \in Char /\ r.char_no <= LineChars
      BY <2>2, <1>4, Sizes
    <3>2. /\ Push(r, c) \in Ring /\ Push(r, c).char_no = r.char_no
          /\ is_rb_full(Push(r, c)) \/ Kept(Push(r, c))
          /\ Line(Push(r, c), r.char_no)
      BY <1>4, <3>1, PushedOn
    <3>3. p = Push(r, c)
      BY <2>2
    <3> HIDE DEF p
    <3>4. QED
      BY <1>4, <3>2, <3>3
  <2>3. QED
    BY <2>1, <2>2
<1> HIDE DEF p
<1>6. p.char_no + 1 \in Nat /\ p.char_no + 1 \in 1..LineChars+1
      /\ (p.char_no + 1) - 1 = p.char_no
  BY <1>5, Sizes
<1>7. q = [p EXCEPT !.char_no = p.char_no + 1]
  BY <1>5 DEF Ring
<1>8. /\ q \in Ring /\ q.char_no = p.char_no + 1
      /\ is_rb_full(p) => is_rb_full(q)
      /\ Kept(p) => Kept(q)
      /\ \A n : Line(p, n) => Line(q, n)
  BY <1>5, <1>6, <1>7, Renumbered
<1> HIDE DEF q
<1>9. Line(q, q.char_no - 1)
  BY <1>5, <1>6, <1>8
<1>10. is_rb_full(q) \/ Kept(q)
  BY <1>5, <1>8
<1>11. QED
  BY <1>1, <1>6, <1>8, <1>9, <1>10 DEF Between

-----------------------------------------------------------------------------
(* One string. *)

Start == [buf |-> pbuff, head |-> head, tail |-> tail, total |-> total,
          char_no |-> 1]
IsCopy(s, b, n) == b = [c \in 0..n |-> IF c = 0 THEN Start
                                       ELSE CopyChar(b[c-1], s[c])]

LEMMA CopyExists == ASSUME NEW s PROVE \A n \in Nat : \E b : IsCopy(s, b, n)
<1> DEFINE S == {n \in Nat : \E b : IsCopy(s, b, n)}
<1>1. 0 \in S
  <2>1. IsCopy(s, [c \in 0..0 |-> Start], 0)
    BY DEF IsCopy
  <2>2. QED
    BY <2>1
<1>2. ASSUME NEW n \in Nat, n \in S
      PROVE  n + 1 \in S
  <2>1. PICK b : IsCopy(s, b, n)
    BY <1>2
  <2> DEFINE g == [c \in 0..n+1 |-> IF c = n + 1 THEN CopyChar(b[n], s[n+1])
                                    ELSE b[c]]
  <2>2. ASSUME NEW c \in 0..n+1
        PROVE  g[c] = IF c = 0 THEN Start ELSE CopyChar(g[c-1], s[c])
    <3>1. /\ c # 0 => c - 1 \in 0..n /\ c - 1 \in 0..n+1 /\ c - 1 # n + 1
          /\ n \in 0..n /\ n + 1 # 0
      OBVIOUS
    <3>2. c # 0 => g[c-1] = b[c-1]
      BY <3>1
    <3>3. CASE c = n + 1
      <4>1. c - 1 = n /\ c # 0
        BY <3>3
      <4>2. g[c] = CopyChar(b[n], s[c])
        BY <3>3
      <4>3. QED
        BY <3>2, <4>1, <4>2
    <3>4. CASE c # n + 1
      <4>1. c \in 0..n /\ g[c] = b[c]
        BY <3>4
      <4>2. b[c] = IF c = 0 THEN Start ELSE CopyChar(b[c-1], s[c])
        BY <2>1, <4>1 DEF IsCopy
      <4>3. QED
        BY <3>2, <4>1, <4>2
    <3>5. QED
      BY <3>3, <3>4
  <2>3. IsCopy(s, g, n + 1)
    BY <2>2 DEF IsCopy
  <2> HIDE DEF g
  <2>4. QED
    BY <2>3
<1> HIDE DEF S
<1>3. \A n \in Nat : n \in S
  BY <1>1, <1>2, Induction
<1>4. QED
  BY <1>3 DEF S

LEMMA CopiesKeep ==
  ASSUME NEW s \in Seq(Char \cup {Newline}), Between(Start),
         NEW b, IsCopy(s, b, Len(s))
  PROVE  Between(b[Len(s)])
<1> DEFINE S == {n \in Nat : n <= Len(s) => Between(b[n])}
<1>1. Len(s) \in Nat /\ \A c \in 1..Len(s) : s[c] \in Char \cup {Newline}
  OBVIOUS
<1>2. \A c \in 0..Len(s) : b[c] = IF c = 0 THEN Start ELSE CopyChar(b[c-1], s[c])
  BY Zenon DEF IsCopy
<1>3. 0 \in S
  <2>1. b[0] = Start
    BY <1>1, <1>2
  <2>2. QED
    BY <2>1
<1>4. ASSUME NEW n \in Nat, n \in S
      PROVE  n + 1 \in S
  <2> SUFFICES ASSUME n + 1 <= Len(s) PROVE Between(b[n+1])
    OBVIOUS
  <2>1. n + 1 \in 1..Len(s) /\ n + 1 \in 0..Len(s) /\ n + 1 # 0 /\ (n + 1) - 1 = n
        /\ n <= Len(s)
    BY <1>1
  <2>2. b[n+1] = CopyChar(b[n], s[n+1])
    BY <1>2, <2>1
  <2>3. Between(b[n])
    BY <1>4, <2>1
  <2>4. s[n+1] \in Char \cup {Newline}
    BY <1>1, <2>1
  <2>5. QED
    BY <2>2, <2>3, <2>4, CharCopied
<1> HIDE DEF S
<1>5. \A n \in Nat : n \in S
  BY <1>3, <1>4, Induction
<1>6. QED
  BY <1>1, <1>5 DEF S

LEMMA StartBetween == ASSUME IInv PROVE Between(Start)
<1>1. /\ pbuff \in [0..Size-1 -> Char \cup {NUL}] /\ head \in 0..Size-1
      /\ tail \in 0..Size-1 /\ total \in Nat /\ 1 \in Nat
  BY CountAssumption DEF IInv, TypeOK
<1>2. Start \in Ring
  BY <1>1 DEF Start, Ring
<1>3. /\ Start.buf = pbuff /\ Start.head = head /\ Start.tail = tail
      /\ Start.total = total /\ Start.char_no = 1
  BY DEF Start
<1>4. Kept(Start)
  BY <1>1, <1>3 DEF Kept, IInv
<1>5. Line(Start, 0)
  <2>1. 0 \in 0..0 /\ Fits(Start.buf, Start.head, 0)
    BY <1>3 DEF IInv
  <2>2. QED
    BY <2>1 DEF Line
<1>6. 1 \in 1..LineChars+1 /\ 1 - 1 = 0
  BY Sizes
<1>7. QED
  BY <1>2, <1>3, <1>4, <1>5, <1>6 DEF Between

(* A whole string, and the NUL behind it. *)
LEMMA StringCopied ==
  ASSUME IInv, NEW s \in Strings
  PROVE  /\ Copied(s) \in Ring
         /\ is_rb_full(Copied(s)) \/ Kept(Copied(s))
         /\ Fits(Copied(s).buf, Copied(s).head, 0)
<1> DEFINE b == CHOOSE b : IsCopy(s, b, Len(s))
<1>1. s \in Seq(Char \cup {Newline}) /\ Len(s) \in Nat
  BY CharAssumption
<1>2. IsCopy(s, b, Len(s))
  BY <1>1, CopyExists
<1>3. Copied(s) = PushEnd(MakeRoom(b[Len(s)]))
  BY DEF Copied, IsCopy, Start
<1> HIDE DEF b
<1>4. Between(b[Len(s)])
  BY <1>1, <1>2, StartBetween, CopiesKeep
<1>5. Roomy(MakeRoom(b[Len(s)]))
  BY <1>4, MadeRoomy
<1>6. QED
  BY <1>3, <1>5, Ended

(* The broken line at the tail goes. *)
LEMMA BrokenDropped ==
  ASSUME NEW b \in Ring, Fits(b.buf, b.head, 0)
  PROVE  LET r == DropBroken(b)
         IN  /\ r \in Ring /\ r.buf = b.buf /\ r.head = b.head
             /\ ~is_rb_full(b) => r = b
<1> DEFINE r == DropBroken(b)
           d == ToEnd(b.buf, b.head)
           n == IF d > 0 /\ b.total > 1 THEN b.total - 1 ELSE b.total
<1>1. b.head \in 0..Size-1 /\ b.total \in Nat
  BY DEF Ring
<1>2. d \in 0..LineChars
  BY <1>1, EndNear
<1>3. n \in Nat
  BY <1>1
<1>4. Cell(b.head + d + 1) \in 0..Size-1
  <2>1. b.head + d + 1 \in Int
    BY <1>1, <1>2, Sizes
  <2>2. QED
    BY <2>1, InRing
<1>5. r = IF is_rb_full(b)
          THEN [b EXCEPT !.tail = Cell(b.head + d + 1), !.total = n] ELSE b
  BY DEF DropBroken, Ring
<1> HIDE DEF r, n, d
<1>6. r \in Ring /\ r.buf = b.buf /\ r.head = b.head
  BY <1>3, <1>4, <1>5 DEF Ring
<1>7. ~is_rb_full(b) => r = b
  BY <1>5
<1>8. QED
  BY <1>6, <1>7 DEF r

-----------------------------------------------------------------------------
(* The place of the window. *)

LEMMA BeforeNext ==
  ASSUME NEW buf, NEW z \in Nat
  PROVE  /\ IsFiniteSet(Before(buf, z)) /\ Cardinality(Before(buf, z)) \in Nat
         /\ Cardinality(Before(buf, z + 1)) =
              Cardinality(Before(buf, z)) + (IF buf[z] = NUL THEN 1 ELSE 0)
<1>1. IsFiniteSet(1..z)
  BY FS_Interval
<1>2. IsFiniteSet(Before(buf, z))
  BY <1>1, FS_Subset DEF Before
<1>3. Cardinality(Before(buf, z)) \in Nat
  BY <1>2, FS_CardinalityType
<1>4. 1..z+1 = (1..z) \cup {z + 1} /\ (z + 1) - 1 = z
  OBVIOUS
<1>5. z + 1 \notin Before(buf, z)
  BY DEF Before
<1>6. CASE buf[z] = NUL
  <2>1. Before(buf, z + 1) = Before(buf, z) \cup {z + 1}
    BY <1>4, <1>6 DEF Before
  <2>2. /\ IsFiniteSet(Before(buf, z) \cup {z + 1})
        /\ Cardinality(Before(buf, z) \cup {z + 1}) = Cardinality(Before(buf, z)) + 1
    BY <1>2, <1>5, FS_AddElement
  <2>3. QED
    BY <1>2, <1>3, <1>6, <2>1, <2>2
<1>7. CASE buf[z] # NUL
  <2>1. Before(buf, z + 1) = Before(buf, z)
    BY <1>4, <1>7 DEF Before
  <2>2. QED
    BY <1>2, <1>3, <1>7, <2>1
<1>8. QED
  BY <1>6, <1>7

LEMMA BeforeSame ==
  ASSUME NEW buf, NEW y \in Nat, NEW z \in Nat, y <= z,
         \A i \in y..z-1 : buf[i] # NUL
  PROVE  Before(buf, z) = Before(buf, y)
<1>1. \A i : i \in 1..z <=> (i \in 1..y \/ i \in (y+1)..z)
  OBVIOUS
<1>2. \A i \in (y+1)..z : buf[i-1] # NUL
  OBVIOUS
<1>3. QED
  BY <1>1, <1>2 DEF Before

LEMMA NoneBefore == ASSUME NEW buf
                    PROVE  Before(buf, 0) = {} /\ Cardinality(Before(buf, 0)) = 0
<1>1. Before(buf, 0) = {}
  BY DEF Before
<1>2. QED
  BY <1>1, FS_EmptySet

(* There are no more lines than characters. *)
LEMMA FreshCount ==
  ASSUME NEW buf, NEW h \in 0..Size-1, NEW t, NEW n, Fresh(buf, h, t, n)
  PROVE  n \in 0..h
<1>1. h \in Nat /\ IsFiniteSet(1..h) /\ Cardinality(1..h) = h
  <2>1. h \in Nat /\ 1 \in Int /\ h \in Int /\ h - 1 + 1 = h /\ (1 > h => h = 0)
    BY Sizes
  <2>2. QED
    BY <2>1, FS_Interval
<1>2. Before(buf, h) \subseteq 1..h
  BY DEF Before
<1>3. Cardinality(Before(buf, h)) <= h /\ IsFiniteSet(Before(buf, h))
  BY <1>1, <1>2, FS_Subset
<1>4. n = Cardinality(Before(buf, h)) /\ n \in Nat
  BY <1>3, FS_CardinalityType DEF Fresh
<1>5. QED
  BY <1>1, <1>3, <1>4

(* The walk of point_to_latest_screen. *)
IsWalk(buf, h, n, pos) ==
  pos = [i \in 0..n |-> IF i = 0 THEN Cell(h - 2)
                        ELSE Cell(pos[i-1] - BackToEnd(buf, pos[i-1]) - 1)]

LEMMA WalkExists ==
  ASSUME NEW buf, NEW h
  PROVE  \A n \in Nat : \E pos : IsWalk(buf, h, n, pos)
<1> DEFINE S == {n \in Nat : \E pos : IsWalk(buf, h, n, pos)}
           Step(p) == Cell(p - BackToEnd(buf, p) - 1)
<1>1. 0 \in S
  <2>1. IsWalk(buf, h, 0, [i \in 0..0 |-> Cell(h - 2)])
    BY DEF IsWalk
  <2>2. QED
    BY <2>1
<1>2. ASSUME NEW n \in Nat, n \in S
      PROVE  n + 1 \in S
  <2>1. PICK b : IsWalk(buf, h, n, b)
    BY <1>2
  <2> DEFINE g == [i \in 0..n+1 |-> IF i = n + 1 THEN Step(b[n]) ELSE b[i]]
  <2>2. ASSUME NEW i \in 0..n+1
        PROVE  g[i] = IF i = 0 THEN Cell(h - 2) ELSE Step(g[i-1])
    <3>1. /\ i # 0 => i - 1 \in 0..n /\ i - 1 \in 0..n+1 /\ i - 1 # n + 1
          /\ n \in 0..n /\ n + 1 # 0
      OBVIOUS
    <3>2. i # 0 => g[i-1] = b[i-1]
      BY <3>1
    <3>3. CASE i = n + 1
      <4>1. i - 1 = n /\ i # 0
        BY <3>3
      <4>2. g[i] = Step(b[n])
        BY <3>3
      <4>3. QED
        BY <3>2, <4>1, <4>2
    <3>4. CASE i # n + 1
      <4>1. i \in 0..n /\ g[i] = b[i]
        BY <3>4
      <4>2. b[i] = IF i = 0 THEN Cell(h - 2) ELSE Step(b[i-1])
        BY <2>1, <4>1 DEF IsWalk
      <4>3. QED
        BY <3>2, <4>1, <4>2
    <3>5. QED
      BY <3>3, <3>4
  <2>3. IsWalk(buf, h, n + 1, g)
    BY <2>2 DEF IsWalk
  <2> HIDE DEF g
  <2>4. QED
    BY <2>3
<1> HIDE DEF S
<1>3. \A n \in Nat : n \in S
  BY <1>1, <1>2, Induction
<1>4. QED
  BY <1>3 DEF S

Walks(buf, h, n, pos) ==
  /\ point_to_latest_screen(buf, h, n) = Cell(pos[n] + 2)
  /\ pos[0] = Cell(h - 2)
  /\ \A i \in 0..n-1 : pos[i+1] = Cell(pos[i] - BackToEnd(buf, pos[i]) - 1)

LEMMA WalkFound == ASSUME NEW buf, NEW h, NEW n \in Nat
                   PROVE  \E pos : Walks(buf, h, n, pos)
<1> DEFINE pos == CHOOSE pos : IsWalk(buf, h, n, pos)
<1>1. IsWalk(buf, h, n, pos)
  BY WalkExists
<1>2. point_to_latest_screen(buf, h, n) = Cell(pos[n] + 2)
  BY DEF point_to_latest_screen, IsWalk
<1> HIDE DEF pos
<1>3. \A i \in 0..n : pos[i] = IF i = 0 THEN Cell(h - 2)
                        ELSE Cell(pos[i-1] - BackToEnd(buf, pos[i-1]) - 1)
  BY <1>1, Zenon DEF IsWalk
<1>4. pos[0] = Cell(h - 2)
  BY <1>3
<1>5. ASSUME NEW i \in 0..n-1
      PROVE  pos[i+1] = Cell(pos[i] - BackToEnd(buf, pos[i]) - 1)
  <2>1. i + 1 \in 0..n /\ i + 1 # 0 /\ (i + 1) - 1 = i
    OBVIOUS
  <2>2. QED
    BY <1>3, <2>1
<1>6. Walks(buf, h, n, pos)
  BY <1>2, <1>4, <1>5 DEF Walks
<1>7. QED
  BY <1>6

LEMMA LatestInRing ==
  ASSUME NEW buf, NEW h \in 0..Size-1, Fits(buf, h, 0), NEW n \in Nat
  PROVE  point_to_latest_screen(buf, h, n) \in 0..Size-1
<1>1. PICK pos : Walks(buf, h, n, pos)
  <2>1. n \in Nat
    OBVIOUS
  <2>2. QED
    BY <2>1, WalkFound
<1> DEFINE S == {i \in Nat : i <= n => pos[i] \in 0..Size-1}
<1>2. 0 \in S
  <2>1. h - 2 \in Int
    BY Sizes
  <2>2. QED
    BY <1>1, <2>1, InRing DEF Walks
<1>3. ASSUME NEW i \in Nat, i \in S
      PROVE  i + 1 \in S
  <2> SUFFICES ASSUME i + 1 <= n PROVE pos[i+1] \in 0..Size-1
    OBVIOUS
  <2>1. i \in 0..n-1 /\ pos[i] \in 0..Size-1
    BY <1>3
  <2>2. BackToEnd(buf, pos[i]) \in 0..Size-1
    BY <2>1, EndBehind
  <2>3. pos[i] - BackToEnd(buf, pos[i]) - 1 \in Int
    BY <2>1, <2>2, Sizes
  <2>4. QED
    BY <1>1, <2>1, <2>3, InRing DEF Walks
<1> HIDE DEF S
<1>4. \A i \in Nat : i \in S
  BY <1>2, <1>3, Induction
<1>5. pos[n] \in 0..Size-1
  BY <1>4 DEF S
<1>6. pos[n] + 2 \in Int
  BY <1>5, Sizes
<1>7. QED
  BY <1>1, <1>6, InRing DEF Walks

(* From the end of a line to the end of the one before it, or to the cell  *)
(* before the text.                                                        *)
LEMMA LineBefore ==
  ASSUME NEW buf \in [0..Size-1 -> Char \cup {NUL}], NEW h \in 0..Size-1,
         Fits(buf, h, 0), buf[Size - 1] = NUL,
         NEW z \in 0..h-1, buf[z] = NUL
  PROVE  \E y \in -1..z-1 :
           /\ y = -1 \/ buf[y] = NUL
           /\ Before(buf, y + 1) = Before(buf, z)
           /\ Cell(Cell(z - 1) - BackToEnd(buf, Cell(z - 1)) - 1) = Cell(y - 1)
<1> DEFINE p == Cell(z - 1)
           d == BackToEnd(buf, p)
           y == z - 1 - d
<1>1. z \in Int /\ h \in Int /\ z < Size /\ z - 1 \in Int /\ 0 <= z
  BY Sizes
<1>2. p \in 0..Size-1
  BY <1>1, InRing
<1>3. /\ d \in 0..Size-1
      /\ buf[Cell(p - d)] = NUL
      /\ \A e \in 0..d-1 : buf[Cell(p - e)] # NUL
  BY <1>2, EndBehind
<1>4. \A k \in Int : Cell(p - k) = Cell(z - 1 - k)
  <2>1. ASSUME NEW k \in Int
        PROVE  Cell(p - k) = Cell(z - 1 - k)
    <3>1. -k \in Int /\ p - k = p + (-k) /\ z - 1 - k = (z - 1) + (-k)
      BY <1>1, <1>2, Sizes
    <3>2. Cell(Cell(z - 1) + (-k)) = Cell((z - 1) + (-k))
      BY <1>1, <3>1, CellOfCell
    <3>3. QED
      BY <3>1, <3>2
  <2>2. QED
    BY <2>1
<1>5. Cell(p - d - 1) = Cell(y - 1)
  <2>1. d + 1 \in Int /\ p - d - 1 = p - (d + 1) /\ y - 1 = z - 1 - (d + 1)
    BY <1>1, <1>2, <1>3, Sizes, SMTT(30)
  <2>2. QED
    BY <1>4, <2>1
<1>6. d <= z
  <2> SUFFICES ASSUME z < d PROVE FALSE
    BY <1>1, <1>3, Sizes
  <2>1. z \in 0..d-1 /\ z - 1 - z = -1
    BY <1>1, <1>3, Sizes
  <2>2. Cell(-1) = Size - 1
    <3>1. -1 \in Int /\ -1 + Size = Size - 1 /\ Size - 1 \in 0..Size-1
      BY Sizes
    <3>2. Cell(-1 + Size) = Cell(-1)
      BY <3>1, TurnedCell
    <3>3. QED
      BY <3>1, <3>2, SameCell
  <2>3. buf[Cell(p - z)] = NUL
    BY <1>1, <1>4, <2>1, <2>2
  <2>4. QED
    BY <1>3, <2>1, <2>3
<1> HIDE DEF p, d
<1>7. y \in -1..z-1 /\ y \in Int /\ d = z - 1 - y
  BY <1>1, <1>3, <1>6, Sizes
<1>8. y = -1 \/ buf[y] = NUL
  <2> SUFFICES ASSUME y # -1 PROVE buf[y] = NUL
    OBVIOUS
  <2>1. y \in 0..Size-1
    BY <1>1, <1>7, Sizes
  <2>2. Cell(p - d) = Cell(y) /\ Cell(y) = y
    <3>1. d \in Int /\ y = z - 1 - d
      BY <1>3, Sizes
    <3>2. QED
      BY <1>4, <2>1, <3>1, SameCell
  <2>3. QED
    BY <1>3, <2>2
<1>9. ASSUME NEW i \in (y+1)..z-1
      PROVE  buf[i] # NUL
  <2>1. /\ z - 1 - i \in 0..d-1 /\ z - 1 - i \in Int
        /\ z - 1 - (z - 1 - i) = i /\ i \in 0..Size-1
    BY <1>1, <1>7, Sizes
  <2>2. Cell(p - (z - 1 - i)) = i
    BY <1>4, <2>1, SameCell
  <2>3. QED
    BY <1>3, <2>1, <2>2
<1>10. Before(buf, y + 1) = Before(buf, z)
  <2>1. y + 1 \in Nat /\ z \in Nat /\ y + 1 <= z
    BY <1>1, <1>7
  <2> HIDE DEF y
  <2>2. QED
    BY <1>9, <2>1, BeforeSame
<1>11. QED
  <2> HIDE DEF y
  <2>1. Cell(Cell(z - 1) - BackToEnd(buf, Cell(z - 1)) - 1) = Cell(y - 1)
    BY <1>5 DEF p, d
  <2>2. QED
    BY <1>7, <1>8, <1>10, <2>1

(* n lines back from the end of a ring that was never full. *)
LEMMA LatestPlaced ==
  ASSUME NEW buf \in [0..Size-1 -> Char \cup {NUL}], NEW h \in 0..Size-1,
         Fits(buf, h, 0), NEW t, NEW k \in Nat, Fresh(buf, h, t, k),
         NEW n \in Nat \ {0}, n <= k
  PROVE  LET q == point_to_latest_screen(buf, h, n)
         IN  /\ q \in 0..h
             /\ q = 0 \/ buf[q - 1] = NUL
             /\ Cardinality(Before(buf, q)) = k - n
<1>1. PICK pos : Walks(buf, h, n, pos)
  <2>1. n \in Nat
    OBVIOUS
  <2>2. QED
    BY <2>1, WalkFound
<1>2. /\ h <= Size - 2 /\ k = Cardinality(Before(buf, h))
      /\ buf[Size - 1] = NUL
  <2>1. Size - 1 \in h..Size-1
    BY Sizes
  <2>2. QED
    BY <2>1 DEF Fresh
<1>3. h # 0
  <2> SUFFICES ASSUME h = 0 PROVE FALSE
    OBVIOUS
  <2>1. k = 0
    BY <1>2, NoneBefore
  <2>2. QED
    BY <2>1
<1> DEFINE Back(i, z) == /\ pos[i] = Cell(z - 1)
                         /\ z = -1 \/ buf[z] = NUL
                         /\ Cardinality(Before(buf, z + 1)) = k - i
           S == {i \in Nat : i <= n => \E z \in -1..h-1 : Back(i, z)}
<1>4. 0 \in S
  <2>1. /\ h - 1 \in -1..h-1 /\ (h - 1) - 1 = h - 2 /\ (h - 1) + 1 = h
        /\ h - 1 \in 0..Size-1 /\ k - 0 = k
    BY <1>3, Sizes
  <2>2. buf[h - 1] = NUL
    BY <2>1, LastEnds, SameCell, ZenonT(30)
  <2>3. Back(0, h - 1)
    BY <1>1, <1>2, <2>1, <2>2 DEF Walks
  <2> HIDE DEF Back
  <2>4. QED
    BY <2>1, <2>3
<1>5. ASSUME NEW i \in Nat, i \in S
      PROVE  i + 1 \in S
  <2> SUFFICES ASSUME i + 1 <= n PROVE \E z \in -1..h-1 : Back(i + 1, z)
    OBVIOUS
  <2>1. PICK z \in -1..h-1 : Back(i, z)
    <3> HIDE DEF Back
    <3>1. QED
      BY <1>5
  <2>2. i \in 0..n-1 /\ k - i # 0
    OBVIOUS
  <2>3. z # -1
    <3>1. z = -1 => z + 1 = 0
      OBVIOUS
    <3>2. QED
      BY <2>1, <2>2, <3>1, NoneBefore
  <2>4. z \in 0..h-1 /\ z \in Nat /\ buf[z] = NUL
    BY <2>1, <2>3, Sizes
  <2>5. PICK y \in -1..z-1 :
          /\ y = -1 \/ buf[y] = NUL
          /\ Before(buf, y + 1) = Before(buf, z)
          /\ Cell(Cell(z - 1) - BackToEnd(buf, Cell(z - 1)) - 1) = Cell(y - 1)
    BY <1>2, <2>4, LineBefore
  <2>6. Cardinality(Before(buf, y + 1)) = k - (i + 1)
    <3>1. /\ Cardinality(Before(buf, z)) \in Nat
          /\ Cardinality(Before(buf, z + 1)) = Cardinality(Before(buf, z)) + 1
      BY <2>4, BeforeNext
    <3>2. Cardinality(Before(buf, z + 1)) = k - i
      BY <2>1
    <3>3. QED
      BY <2>5, <3>1, <3>2
  <2>7. pos[i+1] = Cell(y - 1)
    BY <1>1, <2>1, <2>2, <2>5 DEF Walks
  <2>8. y \in -1..h-1
    BY <2>4, <2>5, Sizes
  <2>9. Back(i + 1, y)
    BY <2>5, <2>6, <2>7
  <2> HIDE DEF Back
  <2>10. QED
    BY <2>8, <2>9
<1> HIDE DEF S
<1>6. \A i \in Nat : i \in S
  BY <1>4, <1>5, Induction
<1>7. PICK z \in -1..h-1 : Back(n, z)
  <2> HIDE DEF Back
  <2>1. QED
    BY <1>6 DEF S
<1>8. /\ z - 1 \in Int /\ 2 \in Int /\ z + 1 = (z - 1) + 2
      /\ z + 1 \in 0..h /\ z + 1 \in 0..Size-1 /\ (z + 1) - 1 = z
      /\ z + 1 = 0 <=> z = -1
  BY Sizes
<1>9. point_to_latest_screen(buf, h, n) = z + 1
  <2>1. Cell(Cell(z - 1) + 2) = Cell((z - 1) + 2)
    BY <1>8, CellOfCell
  <2>2. QED
    BY <1>1, <1>7, <1>8, <2>1, SameCell DEF Walks
<1>10. QED
  BY <1>7, <1>8, <1>9

-----------------------------------------------------------------------------
(* The actions.                                                            *)

LEMMA Counters == /\ SizeT \in Nat \ {0} /\ Size < SizeT /\ MaxTotal \in Nat
                  /\ ScreenLines \in Nat \ {0} /\ KeyboardLines \in Nat \ {0}
                  /\ LinesFor(TRUE) = KeyboardLines
                  /\ LinesFor(FALSE) = ScreenLines
BY CountAssumption, Sizes DEF LinesFor

LEMMA Heights == ASSUME NEW k \in BOOLEAN
                 PROVE  /\ LinesFor(k) \in Nat \ {0}
                        /\ LinesFor(k) \in {0, ScreenLines, KeyboardLines}
BY Counters DEF LinesFor

LEMMA InSizeT == ASSUME NEW x \in Int PROVE Wrapped(x) \in 0..SizeT-1
BY Counters, Division DEF Wrapped

LEMMA NotWrapped == ASSUME NEW x \in 0..SizeT-1 PROVE Wrapped(x) = x
BY Counters, Small DEF Wrapped

LEMMA InitIInv == Init => IInv
<1> SUFFICES ASSUME Init PROVE IInv
  OBVIOUS
<1> USE DEF Init
<1>1. TypeOK
  <2>1. 0 \in 0..Size-1 /\ 0 \in 0..MaxTotal /\ 0 \in 0..SizeT-1
    BY Sizes, Counters
  <2>2. pbuff \in [0..Size-1 -> Char \cup {NUL}]
    OBVIOUS
  <2>3. QED
    BY <2>1, <2>2 DEF TypeOK
<1>2. Fits(pbuff, head, 0)
  <2>1. ASSUME NEW o \in 0..Size-1-0
        PROVE  \E e \in o..Size-1-0 :
                 e - o <= LineChars /\ pbuff[Cell(head + e)] = NUL
    <3>1. o \in o..Size-1-0 /\ o - o <= LineChars /\ head + o \in Int
      BY Sizes
    <3>2. Cell(head + o) \in 0..Size-1
      BY <3>1, InRing
    <3>3. pbuff[Cell(head + o)] = NUL
      BY <3>2
    <3>4. QED
      BY <3>1, <3>3
  <2>2. QED
    BY <2>1 DEF Fits
<1>3. Fresh(pbuff, head, tail, total)
  <2>1. head <= Size - 2 /\ \A i \in head..Size-1 : i \in 0..Size-1
    BY Sizes
  <2>2. total = Cardinality(Before(pbuff, head))
    BY NoneBefore
  <2>3. QED
    BY <2>1, <2>2 DEF Fresh
<1>4. Placed
  BY DEF Placed
<1>5. QED
  BY <1>1, <1>2, <1>3, <1>4 DEF IInv

(* The loop of _move_to_prev_line ends. *)
Stops(q) == q = tail \/ pbuff[q] = NUL

LEMMA StopFound ==
  ASSUME IInv, NEW q \in Int
  PROVE  \E d \in 0..Size-1 : /\ StopFrom(q) = Cell(q - d)
                              /\ Stops(Cell(q - d))
                              /\ \A e \in 0..d-1 : ~Stops(Cell(q - e))
<1> DEFINE T == {e \in 0..Size-1 : Stops(Cell(q - e))}
           p == Cell(q)
<1>1. T \subseteq Nat
  BY Sizes
<1>2. T # {}
  <2>1. p \in 0..Size-1 /\ head \in 0..Size-1 /\ Fits(pbuff, head, 0)
    BY InRing DEF IInv, TypeOK
  <2>2. /\ BackToEnd(pbuff, p) \in 0..Size-1
        /\ pbuff[Cell(p - BackToEnd(pbuff, p))] = NUL
    BY <2>1, EndBehind
  <2>3. PICK d \in 0..Size-1 : pbuff[Cell(p - d)] = NUL
    BY <2>2
  <2>4. -d \in Int /\ p - d = p + (-d) /\ q - d = q + (-d)
    BY <2>1, <2>3, Sizes
  <2>5. Cell(Cell(q) + (-d)) = Cell(q + (-d))
    BY <2>4, CellOfCell
  <2>6. Stops(Cell(q - d))
    BY <2>3, <2>4, <2>5 DEF Stops
  <2>7. QED
    BY <2>6
<1>3. PICK m \in T : \A k \in T : m <= k
  BY <1>1, <1>2, Least
<1>4. ASSUME NEW e \in 0..m-1
      PROVE  ~Stops(Cell(q - e))
  <2>1. e \in 0..Size-1 /\ ~(m <= e)
    BY <1>3, Sizes
  <2>2. QED
    BY <1>3, <2>1
<1> DEFINE P(d) == /\ Stops(Cell(q - d))
                   /\ \A e \in 0..d-1 : ~Stops(Cell(q - e))
           t == CHOOSE d \in 0..Size-1 : P(d)
<1>5. StopFrom(q) = Cell(q - t)
  BY DEF StopFrom, Stops
<1>6. \E d \in 0..Size-1 : P(d)
  BY <1>3, <1>4
<1> HIDE DEF P
<1>7. t \in 0..Size-1 /\ P(t)
  BY <1>6
<1>8. QED
  BY <1>5, <1>7 DEF P

LEMMA StopInRing ==
  ASSUME IInv, NEW q \in Int
  PROVE  StopFrom(q) \in 0..Size-1 /\ LineAfter(StopFrom(q)) \in 0..Size-1
<1>1. PICK d \in 0..Size-1 : StopFrom(q) = Cell(q - d)
  BY StopFound
<1>2. q - d \in Int
  BY <1>1, Sizes
<1>3. StopFrom(q) \in 0..Size-1
  BY <1>1, <1>2, InRing
<1>4. StopFrom(q) + 1 \in Int
  BY <1>3, Sizes
<1>5. Cell(StopFrom(q) + 1) \in 0..Size-1 /\ tail \in 0..Size-1
  BY <1>4, InRing DEF IInv, TypeOK
<1>6. QED
  BY <1>3, <1>5 DEF LineAfter

(* A screen, once the first string was appended. *)
LEMMA AppendIInv ==
  ASSUME IInv, NEW s \in Strings, appendStr(s)
  PROVE  IInv'
<1> DEFINE f == Copied(s)
           b == DropBroken(f)
           n == LinesFor(keyboard)
<1>1. /\ f \in Ring
      /\ is_rb_full(f) \/ Kept(f)
      /\ Fits(f.buf, f.head, 0)
  BY StringCopied
<1>2. /\ b \in Ring /\ b.buf = f.buf /\ b.head = f.head
      /\ ~is_rb_full(f) => b = f
  BY <1>1, BrokenDropped
<1>3. /\ b.total <= MaxTotal
      /\ pbuff' = b.buf /\ head' = b.head /\ tail' = b.tail /\ total' = b.total
      /\ m_lines' = n
      /\ IF b.total <= n
         THEN /\ start_line' = b.tail
              /\ curr' = 1
         ELSE /\ start_line' = point_to_latest_screen(b.buf, b.head, n)
              /\ curr' = Wrapped(b.total - n + 1)
      /\ overflowed' = (overflowed \/ is_rb_full(f))
      /\ astray' = FALSE
      /\ keyboard' = keyboard /\ painted' = painted /\ tags' = tags
  BY DEF appendStr, screen
<1> DEFINE full == is_rb_full(f)
<1> HIDE DEF b
<1>4. /\ b.buf \in [0..Size-1 -> Char \cup {NUL}] /\ b.head \in 0..Size-1
      /\ b.tail \in 0..Size-1 /\ b.total \in Nat
  BY <1>2 DEF Ring
<1>5. /\ keyboard \in BOOLEAN /\ painted \in BOOLEAN /\ overflowed \in BOOLEAN
      /\ tags \subseteq {"up", "down"}
  BY DEF IInv, TypeOK
<1>6. n \in Nat \ {0} /\ n \in {0, ScreenLines, KeyboardLines}
  BY <1>5, Heights
<1>7. Fits(b.buf, b.head, 0)
  BY <1>1, <1>2
<1> HIDE DEF n, f
<1>8. full \in BOOLEAN
  BY DEF is_rb_full
<1> HIDE DEF full
<1>9. point_to_latest_screen(b.buf, b.head, n) \in 0..Size-1
  <2>1. n \in Nat
    BY <1>6
  <2>2. QED
    BY <1>4, <1>7, <2>1, LatestInRing
<1>10. TypeOK'
  <2>1. start_line' \in 0..Size-1
    BY <1>3, <1>4, <1>9
  <2>2. curr' \in 0..SizeT-1
    <3>1. b.total - n + 1 \in Int /\ 1 \in 0..SizeT-1
      BY <1>4, <1>6, Counters, Sizes
    <3>2. Wrapped(b.total - n + 1) \in 0..SizeT-1
      BY <3>1, InSizeT
    <3>3. QED
      BY <1>3, <3>1, <3>2
  <2>3. total' \in 0..MaxTotal
    BY <1>3, <1>4, Counters
  <2>4. overflowed' \in BOOLEAN /\ astray' \in BOOLEAN
    BY <1>3, <1>5, <1>8 DEF full
  <2>5. QED
    BY <1>3, <1>4, <1>5, <1>6, <2>1, <2>2, <2>3, <2>4 DEF TypeOK
<1>11. Fits(pbuff', head', 0)
  BY <1>3, <1>7
<1>12. ASSUME ~overflowed'
       PROVE  /\ Fresh(pbuff', head', tail', total')
              /\ m_lines' = LinesFor(keyboard')
              /\ painted' /\ tags' # {} => total' > m_lines'
              /\ Placed'
  <2>1. ~overflowed /\ ~is_rb_full(f)
    BY <1>3, <1>12
  <2>2. b = f /\ Fresh(b.buf, b.head, b.tail, b.total)
    BY <1>1, <1>2, <2>1 DEF Kept
  <2>3. m_lines' = LinesFor(keyboard')
    BY <1>3 DEF n
  <2>4. b.total <= n => Placed'
    <3>1. b.tail = 0 /\ 0 <= b.head /\ Cardinality(Before(b.buf, 0)) = 0
      BY <2>2, <1>4, NoneBefore, Sizes DEF Fresh
    <3>2. QED
      BY <1>3, <3>1 DEF Placed
  <2>5. b.total > n => Placed'
    <3> SUFFICES ASSUME b.total > n PROVE Placed'
      OBVIOUS
    <3>1. n <= b.total /\ ~(b.total <= n)
      BY <1>4, <1>6
    <3> DEFINE q == point_to_latest_screen(b.buf, b.head, n)
    <3>2. /\ q \in 0..b.head
          /\ q = 0 \/ b.buf[q - 1] = NUL
          /\ Cardinality(Before(b.buf, q)) = b.total - n
      BY <1>4, <1>6, <1>7, <2>2, <3>1, LatestPlaced, SMTT(30)
    <3>3. start_line' = q /\ curr' = Wrapped(b.total - n + 1)
      BY <1>3, <3>1
    <3> HIDE DEF q
    <3>4. b.total <= b.head
      <4>1. b.total \in 0..b.head
        BY <1>4, <2>2, FreshCount
      <4>2. QED
        BY <1>4, <4>1
    <3>5. b.total - n + 1 \in 0..SizeT-1
      BY <1>4, <1>6, <3>1, <3>4, Counters, Sizes
    <3>6. curr' = 1 + Cardinality(Before(b.buf, q))
      <4>1. curr' = b.total - n + 1
        BY <3>3, <3>5, NotWrapped
      <4>2. QED
        BY <1>4, <1>6, <3>2, <4>1
    <3>7. q <= b.head
      BY <3>2, <1>4, Sizes
    <3>8. QED
      BY <1>3, <3>2, <3>3, <3>6, <3>7 DEF Placed
  <2>6. b.total <= n \/ b.total > n
    BY <1>4, <1>6
  <2>7. painted' /\ tags' # {} => total' > m_lines'
    <3> SUFFICES ASSUME painted, tags # {} PROVE b.total > n
      BY <1>3
    <3>1. total \in 0..b.total
      BY <1>1, <2>1, <2>2 DEF Kept
    <3>2. total > m_lines /\ (head # 0 => m_lines = n)
      BY <2>1 DEF IInv, n
    <3>3. head # 0
      <4> SUFFICES ASSUME head = 0 PROVE FALSE
        OBVIOUS
      <4>1. total = 0
        BY <2>1, NoneBefore DEF IInv, Fresh
      <4>2. m_lines \in Nat
        BY Counters DEF IInv, TypeOK
      <4>3. QED
        BY <3>2, <4>1, <4>2
    <3>4. QED
      BY <1>4, <1>6, <3>1, <3>2, <3>3
  <2>8. QED
    BY <1>3, <2>2, <2>3, <2>4, <2>5, <2>6, <2>7
<1>13. QED
  <2>1. /\ Fits(pbuff, head, 0)'
        /\ Fresh(pbuff, head, tail, total)' = Fresh(pbuff', head', tail', total')
        /\ (m_lines = LinesFor(keyboard))' = (m_lines' = LinesFor(keyboard'))
    BY <1>11 DEF Fits, Fresh, Before, LinesFor
  <2>2. QED
    BY <1>10, <1>12, <2>1 DEF IInv

LEMMA PaintingIInv == ASSUME IInv, painting PROVE IInv'
<1>1. /\ painted' = TRUE
      /\ tags' = IF total <= m_lines THEN {}
                 ELSE {t \in {"up", "down"} :
                         IF t = "up" THEN curr > 1
                                     ELSE Wrapped(curr + m_lines - 1) # total}
      /\ UNCHANGED <<pbuff, head, tail, start_line, curr, astray, total,
                     m_lines, keyboard, overflowed>>
  BY DEF painting, text, place
<1>2. total \in Nat /\ m_lines \in Nat
  BY Counters DEF IInv, TypeOK
<1>3. tags' \subseteq {"up", "down"} /\ (tags' # {} => ~(total <= m_lines))
  BY <1>1
<1>4. TypeOK'
  BY <1>1, <1>3 DEF IInv, TypeOK
<1>5. tags' # {} => total' > m_lines'
  BY <1>1, <1>2, <1>3
<1>6. /\ Fits(pbuff, head, 0)' = Fits(pbuff, head, 0)
      /\ Fresh(pbuff, head, tail, total)' = Fresh(pbuff, head, tail, total)
      /\ Placed' = Placed
      /\ (m_lines = LinesFor(keyboard))' = (m_lines = LinesFor(keyboard))
  BY <1>1 DEF Fits, Fresh, Before, LinesFor, Placed
<1>7. Fits(pbuff, head, 0)'
  BY <1>6 DEF IInv
<1>8. ASSUME ~overflowed
      PROVE  /\ Fresh(pbuff, head, tail, total)'
             /\ head' # 0 => (m_lines = LinesFor(keyboard))'
             /\ ~astray' => Placed'
  BY <1>1, <1>6, <1>8 DEF IInv
<1>9. QED
  BY <1>1, <1>4, <1>5, <1>7, <1>8 DEF IInv

(* What the movements of the window leave alone. *)
LEMMA TextStays ==
  ASSUME IInv, UNCHANGED <<pbuff, head, tail, total, overflowed>>,
         UNCHANGED <<m_lines, keyboard>> \/ m_lines' = LinesFor(keyboard'),
         painted' = FALSE, TypeOK', ~overflowed /\ ~astray' => Placed'
  PROVE  IInv'
<1>1. /\ Fits(pbuff, head, 0)' = Fits(pbuff, head, 0)
      /\ Fresh(pbuff, head, tail, total)' = Fresh(pbuff, head, tail, total)
      /\ (m_lines = LinesFor(keyboard))' = (m_lines' = LinesFor(keyboard'))
  BY DEF Fits, Fresh, Before, LinesFor
<1>2. Fits(pbuff, head, 0)'
  BY <1>1 DEF IInv
<1>3. ASSUME ~overflowed
      PROVE  /\ Fresh(pbuff, head, tail, total)'
             /\ head' # 0 => (m_lines = LinesFor(keyboard))'
  <2>1. Fresh(pbuff, head, tail, total)'
    BY <1>1, <1>3 DEF IInv
  <2>2. ASSUME UNCHANGED <<m_lines, keyboard>>, head' # 0
        PROVE  m_lines' = LinesFor(keyboard')
    BY <1>3, <2>2 DEF IInv
  <2>3. QED
    BY <1>1, <2>1, <2>2
<1>4. QED
  BY <1>2, <1>3 DEF IInv

(* The walk back of _move_to_prev_line in a ring that was never full: over *)
(* one end of a line, or to the first cell.                                *)
LEMMA UpPlaced ==
  ASSUME IInv, ~overflowed, ~astray, "up" \in tags, painted,
         move_to_prev_line, ~astray'
  PROVE  \/ UNCHANGED <<start_line, curr, astray>>
         \/ /\ start_line' \in 0..start_line
            /\ start_line' = 0 \/ pbuff[start_line' - 1] = NUL
            /\ Cardinality(Before(pbuff, start_line)) =
                 Cardinality(Before(pbuff, start_line')) + 1
            /\ curr' = curr - 1 /\ head # 0
            /\ curr = 1 + Cardinality(Before(pbuff, start_line))
<1>1. /\ start_line \in 0..Size-1 /\ head \in 0..Size-1 /\ tail = 0
      /\ start_line \in Nat /\ head \in Nat
      /\ curr \in 0..SizeT-1 /\ total \in Nat /\ m_lines \in Nat
      /\ Fresh(pbuff, head, tail, total)
  BY Sizes, Counters DEF IInv, TypeOK, Fresh
<1>2. total > m_lines
  BY DEF IInv
<1>3. head # 0
  <2> SUFFICES ASSUME head = 0 PROVE FALSE
    OBVIOUS
  <2>1. total \in 0..head
    BY <1>1, FreshCount
  <2>2. QED
    BY <1>1, <1>2, <2>1
<1>4. /\ start_line <= head
      /\ start_line = 0 \/ pbuff[start_line - 1] = NUL
      /\ curr = 1 + Cardinality(Before(pbuff, start_line))
  BY <1>3 DEF IInv, Placed
<1>5. ~is_rb_empty
  BY <1>1, <1>3 DEF is_rb_empty
<1> SUFFICES ASSUME start_line # 0
             PROVE  /\ start_line' \in 0..start_line
                    /\ start_line' = 0 \/ pbuff[start_line' - 1] = NUL
                    /\ Cardinality(Before(pbuff, start_line)) =
                         Cardinality(Before(pbuff, start_line')) + 1
                    /\ curr' = curr - 1 /\ head # 0
                    /\ curr = 1 + Cardinality(Before(pbuff, start_line))
  BY <1>1, <1>5 DEF move_to_prev_line, place
<1>6. start_line # 0
  OBVIOUS
<1>7. start_line >= 2
  BY <1>1, <1>5, <1>6 DEF move_to_prev_line
<1> DEFINE q == start_line - 2
           stop == StopFrom(q)
<1>8. /\ curr' = Wrapped(curr - 1)
      /\ start_line' = LineAfter(stop)
      /\ astray' = (astray \/ (stop = tail /\ pbuff[tail] = NUL))
  BY <1>1, <1>5, <1>6, <1>7 DEF move_to_prev_line
<1>9. /\ q \in 0..Size-1 /\ q \in Int /\ q \in Nat /\ q + 2 = start_line
      /\ (q + 2) - 1 = q + 1
  BY <1>1, <1>7, Sizes
<1>10. PICK d \in 0..Size-1 : /\ stop = Cell(q - d)
                              /\ Stops(Cell(q - d))
                              /\ \A e \in 0..d-1 : ~Stops(Cell(q - e))
  BY <1>9, StopFound
<1> HIDE DEF stop, q
<1>11. d <= q
  <2> SUFFICES ASSUME q < d PROVE FALSE
    BY <1>9, <1>10, Sizes
  <2>1. q \in 0..d-1 /\ q - q = 0 /\ 0 \in 0..Size-1
    BY <1>9, <1>10, Sizes
  <2>2. Stops(Cell(q - q))
    <3>1. Cell(q - q) = 0
      BY <2>1, SameCell
    <3>2. QED
      BY <1>1, <3>1 DEF Stops
  <2>3. QED
    BY <1>10, <2>1, <2>2
<1>12. /\ q - d \in 0..Size-1 /\ q - d \in Nat /\ stop = q - d
       /\ Stops(stop) /\ stop \in Nat
  <2>1. q - d \in 0..Size-1 /\ q - d \in Nat
    BY <1>9, <1>10, <1>11, Sizes
  <2>2. QED
    BY <1>10, <2>1, SameCell
<1>13. ASSUME NEW i \in (stop+1)..q
       PROVE  pbuff[i] # NUL
  <2>1. q - i \in 0..d-1 /\ q - (q - i) = i /\ i \in 0..Size-1
    BY <1>9, <1>10, <1>12, Sizes
  <2>2. ~Stops(Cell(q - (q - i)))
    BY <1>10, <2>1
  <2>3. ~Stops(i)
    BY <2>1, <2>2, SameCell
  <2>4. QED
    BY <2>3 DEF Stops
<1>14. Before(pbuff, q + 1) = Before(pbuff, stop + 1)
  <2>1. q + 1 \in Nat /\ stop + 1 \in Nat /\ stop + 1 <= q + 1
        /\ (q + 1) - 1 = q
    BY <1>9, <1>10, <1>11, <1>12, Sizes
  <2>2. QED
    BY <1>13, <2>1, BeforeSame
<1>15. /\ Cardinality(Before(pbuff, q + 1)) \in Nat
       /\ Cardinality(Before(pbuff, start_line)) =
             Cardinality(Before(pbuff, q + 1)) + 1
  <2>1. q + 1 \in Nat /\ (q + 1) + 1 = start_line /\ start_line - 1 = q + 1
    BY <1>9
  <2>2. pbuff[q + 1] = NUL
    BY <1>4, <1>6, <2>1
  <2>3. /\ Cardinality(Before(pbuff, q + 1)) \in Nat
        /\ Cardinality(Before(pbuff, (q + 1) + 1)) =
              Cardinality(Before(pbuff, q + 1)) + 1
    BY <2>1, <2>2, BeforeNext
  <2>4. QED
    BY <2>1, <2>3
<1>16. /\ start_line' \in 0..start_line
       /\ start_line' = 0 \/ pbuff[start_line' - 1] = NUL
       /\ Cardinality(Before(pbuff, start_line')) =
             Cardinality(Before(pbuff, q + 1))
  <2>1. CASE stop = 0
    <3>1. start_line' = 0 /\ pbuff[0] # NUL
      BY <1>1, <1>8, <2>1 DEF LineAfter
    <3>2. Cardinality(Before(pbuff, 0 + 1)) = Cardinality(Before(pbuff, 0))
      <4>1. /\ Cardinality(Before(pbuff, 0)) \in Nat
            /\ Cardinality(Before(pbuff, 0 + 1)) = Cardinality(Before(pbuff, 0)) + 0
        BY <3>1, BeforeNext
      <4>2. QED
        BY <4>1
    <3>3. QED
      BY <1>1, <1>14, <2>1, <3>1, <3>2
  <2>2. CASE stop # 0
    <3>1. pbuff[stop] = NUL
      BY <1>1, <1>12, <2>2 DEF Stops
    <3>2. /\ stop + 1 \in 0..Size-1 /\ (stop + 1) - 1 = stop
          /\ stop + 1 \in 0..start_line
      BY <1>1, <1>9, <1>10, <1>12, Sizes
    <3>3. start_line' = stop + 1
      <4>1. LineAfter(stop) = Cell(stop + 1)
        BY <1>1, <2>2 DEF LineAfter
      <4>2. QED
        BY <1>8, <3>2, <4>1, SameCell
    <3>4. QED
      BY <1>14, <3>1, <3>2, <3>3
  <2>3. QED
    BY <2>1, <2>2
<1>17. curr' = curr - 1
  <2>1. curr - 1 \in 0..SizeT-1
    BY <1>1, <1>4, <1>15, Counters
  <2>2. QED
    BY <1>8, <2>1, NotWrapped
<1>18. QED
  BY <1>3, <1>4, <1>15, <1>16, <1>17

LEMMA UpIInv == ASSUME IInv, doing_up PROVE IInv'
<1>1. /\ painted /\ "up" \in tags /\ move_to_prev_line /\ painted' = FALSE
      /\ UNCHANGED <<pbuff, head, tail, total, m_lines, keyboard, tags, overflowed>>
  BY DEF doing_up, text
<1>2. /\ start_line \in 0..Size-1 /\ tail \in 0..Size-1 /\ head \in 0..Size-1
      /\ curr \in 0..SizeT-1 /\ astray \in BOOLEAN
  BY DEF IInv, TypeOK
<1>3. /\ start_line' \in 0..Size-1 /\ curr' \in 0..SizeT-1
      /\ astray' \in BOOLEAN /\ (astray => astray')
  <2>1. CASE is_rb_empty
    BY <1>1, <1>2, <2>1 DEF move_to_prev_line
  <2>2. CASE ~is_rb_empty /\ start_line = tail
    BY <1>1, <1>2, <2>2 DEF move_to_prev_line, place
  <2>3. CASE ~is_rb_empty /\ start_line # tail
    <3>1. curr - 1 \in Int /\ start_line - 1 \in Int /\ start_line - 2 \in Int
          /\ start_line - 3 \in Int
      BY <1>2, Sizes, Counters
    <3>2. curr' = Wrapped(curr - 1)
      BY <1>1, <2>3 DEF move_to_prev_line
    <3>3. curr' \in 0..SizeT-1
      BY <3>1, <3>2, InSizeT
    <3>4. /\ LineAfter(StopFrom(start_line - 2)) \in 0..Size-1
          /\ LineAfter(StopFrom(start_line - 3)) \in 0..Size-1
          /\ Cell(start_line - 1) \in 0..Size-1
      BY <3>1, StopInRing, InRing
    <3>5. CASE start_line >= 2
      <4>1. /\ start_line' = LineAfter(StopFrom(start_line - 2))
            /\ astray' = (astray \/ (/\ StopFrom(start_line - 2) = tail
                                     /\ pbuff[tail] = NUL))
        BY <1>1, <2>3, <3>5 DEF move_to_prev_line
      <4>2. QED
        BY <1>2, <3>3, <3>4, <4>1
    <3>6. CASE ~(start_line >= 2)
      <4>1. /\ start_line' \in {Cell(start_line - 1),
                                LineAfter(StopFrom(start_line - 3))}
            /\ astray' = TRUE
        BY <1>1, <2>3, <3>6 DEF move_to_prev_line
      <4>2. QED
        BY <3>3, <3>4, <4>1
    <3>7. QED
      BY <3>5, <3>6
  <2>4. QED
    BY <2>1, <2>2, <2>3
<1>4. TypeOK'
  BY <1>1, <1>3 DEF IInv, TypeOK
<1>5. ASSUME ~overflowed, ~astray'
      PROVE  Placed'
  <2> SUFFICES ASSUME ~UNCHANGED <<start_line, curr, astray>>
               PROVE  Placed'
    <3>1. UNCHANGED <<start_line, curr, astray>> => Placed'
      BY <1>1, <1>5 DEF IInv, Placed, Before
    <3>2. QED
      BY <3>1
  <2>1. /\ start_line' \in 0..start_line
        /\ start_line' = 0 \/ pbuff[start_line' - 1] = NUL
        /\ Cardinality(Before(pbuff, start_line)) =
             Cardinality(Before(pbuff, start_line')) + 1
        /\ curr' = curr - 1 /\ head # 0
        /\ curr = 1 + Cardinality(Before(pbuff, start_line))
    BY <1>1, <1>3, <1>5, UpPlaced
  <2>2. start_line <= head /\ start_line' <= head
    <3>1. start_line <= head
      BY <1>3, <1>5 DEF IInv, Placed
    <3>2. QED
      BY <1>2, <2>1, <3>1, Sizes
  <2>3. Cardinality(Before(pbuff, start_line')) \in Nat
    <3>1. start_line' \in Nat
      BY <1>3, Sizes
    <3>2. QED
      BY <3>1, BeforeNext
  <2>4. curr' = 1 + Cardinality(Before(pbuff, start_line'))
    BY <2>1, <2>3
  <2>5. QED
    BY <1>1, <2>1, <2>2, <2>4 DEF Placed, Before
<1>6. QED
  BY <1>1, <1>4, <1>5, TextStays

(* And the walk forward of _move_to_next_line. *)
LEMMA DownPlaced ==
  ASSUME IInv, ~overflowed, ~astray, "down" \in tags, painted,
         move_to_next_line
  PROVE  \/ UNCHANGED <<start_line, curr, astray>>
         \/ /\ start_line' \in start_line..head
            /\ pbuff[start_line' - 1] = NUL
            /\ Cardinality(Before(pbuff, start_line')) =
                 Cardinality(Before(pbuff, start_line)) + 1
            /\ curr' = curr + 1 /\ head # 0 /\ ~astray'
            /\ curr = 1 + Cardinality(Before(pbuff, start_line))
            /\ total - curr + 1 > m_lines
<1>1. /\ start_line \in 0..Size-1 /\ head \in 0..Size-1 /\ tail = 0
      /\ start_line \in Nat /\ head \in Nat
      /\ curr \in 0..SizeT-1 /\ total \in Nat /\ m_lines \in Nat
      /\ Fresh(pbuff, head, tail, total) /\ Fits(pbuff, head, 0)
      /\ head <= Size - 2 /\ total = Cardinality(Before(pbuff, head))
  BY Sizes, Counters DEF IInv, TypeOK, Fresh
<1>2. total > m_lines
  BY DEF IInv
<1>3. total \in 0..head
  BY <1>1, FreshCount
<1>4. head # 0
  BY <1>1, <1>2, <1>3
<1>5. /\ start_line <= head
      /\ curr = 1 + Cardinality(Before(pbuff, start_line))
  BY <1>4 DEF IInv, Placed
<1>6. ~(is_rb_empty \/ total <= m_lines)
  BY <1>1, <1>2, <1>4 DEF is_rb_empty
<1> DEFINE d == ToEnd(pbuff, start_line)
<1>7. \/ UNCHANGED <<start_line, curr, astray>>
      \/ /\ Wrapped(total - curr + 1) > m_lines
         /\ \A e \in 0..d : Cell(start_line + e) # head
         /\ start_line' = Cell(start_line + d + 1)
         /\ curr' = Wrapped(curr + 1)
         /\ UNCHANGED astray
  BY <1>6 DEF move_to_next_line, place
<1> SUFFICES ASSUME /\ Wrapped(total - curr + 1) > m_lines
                    /\ \A e \in 0..d : Cell(start_line + e) # head
                    /\ start_line' = Cell(start_line + d + 1)
                    /\ curr' = Wrapped(curr + 1)
                    /\ UNCHANGED astray
             PROVE  /\ start_line' \in start_line..head
                    /\ pbuff[start_line' - 1] = NUL
                    /\ Cardinality(Before(pbuff, start_line')) =
                         Cardinality(Before(pbuff, start_line)) + 1
                    /\ curr' = curr + 1 /\ head # 0 /\ ~astray'
                    /\ curr = 1 + Cardinality(Before(pbuff, start_line))
                    /\ total - curr + 1 > m_lines
  BY <1>7
<1>8. /\ d \in 0..LineChars
      /\ pbuff[Cell(start_line + d)] = NUL
      /\ \A e \in 0..d-1 : pbuff[Cell(start_line + e)] # NUL
  BY <1>1, EndNear
<1> HIDE DEF d
<1>9. start_line + d < head
  <2> SUFFICES ASSUME head <= start_line + d PROVE FALSE
    BY <1>1, <1>8, Sizes
  <2>1. head - start_line \in 0..d /\ start_line + (head - start_line) = head
    BY <1>1, <1>5, <1>8, Sizes
  <2>2. QED
    BY <1>1, <2>1, SameCell
<1>10. /\ start_line + d \in 0..Size-1 /\ start_line + d \in Nat
       /\ start_line + d + 1 \in 0..Size-1
       /\ start_line + d + 1 \in start_line..head
       /\ (start_line + d + 1) - 1 = start_line + d
       /\ (start_line + d) + 1 = start_line + d + 1
       /\ start_line <= start_line + d
  BY <1>1, <1>8, <1>9, Sizes
<1>11. pbuff[start_line + d] = NUL /\ start_line' = start_line + d + 1
  BY <1>8, <1>10, SameCell
<1>12. ASSUME NEW i \in start_line..(start_line+d)-1
       PROVE  pbuff[i] # NUL
  <2>1. i - start_line \in 0..d-1 /\ start_line + (i - start_line) = i
        /\ i \in 0..Size-1
    BY <1>1, <1>8, <1>10, Sizes
  <2>2. QED
    BY <1>8, <2>1, SameCell
<1>13. Before(pbuff, start_line + d) = Before(pbuff, start_line)
  BY <1>1, <1>10, <1>12, BeforeSame
<1>14. Cardinality(Before(pbuff, start_line')) =
         Cardinality(Before(pbuff, start_line)) + 1
  <2>1. Cardinality(Before(pbuff, (start_line + d) + 1)) =
          Cardinality(Before(pbuff, start_line + d)) + 1
    BY <1>10, <1>11, BeforeNext
  <2>2. QED
    BY <1>10, <1>11, <1>13, <2>1
<1>15. Cardinality(Before(pbuff, start_line)) \in 0..total
  <2>1. Before(pbuff, start_line) \subseteq Before(pbuff, head)
    <3>1. \A i \in 1..start_line : i \in 1..head
      BY <1>1, <1>5
    <3>2. QED
      BY <3>1 DEF Before
  <2>2. /\ IsFiniteSet(Before(pbuff, head))
        /\ Cardinality(Before(pbuff, start_line)) \in Nat
    BY <1>1, BeforeNext
  <2>3. Cardinality(Before(pbuff, start_line)) <= Cardinality(Before(pbuff, head))
    BY <2>1, <2>2, FS_Subset
  <2>4. QED
    BY <1>1, <2>2, <2>3
<1>16. total - curr + 1 \in 0..SizeT-1 /\ curr + 1 \in 0..SizeT-1
  BY <1>1, <1>3, <1>5, <1>15, Counters, Sizes
<1>17. curr' = curr + 1 /\ total - curr + 1 > m_lines
  BY <1>16, NotWrapped
<1>18. QED
  BY <1>4, <1>5, <1>10, <1>11, <1>14, <1>17

LEMMA DownIInv == ASSUME IInv, doing_down PROVE IInv'
<1>1. /\ painted /\ "down" \in tags /\ move_to_next_line /\ painted' = FALSE
      /\ UNCHANGED <<pbuff, head, tail, total, m_lines, keyboard, tags, overflowed>>
  BY DEF doing_down, text
<1>2. /\ start_line \in 0..Size-1 /\ tail \in 0..Size-1 /\ head \in 0..Size-1
      /\ curr \in 0..SizeT-1 /\ astray \in BOOLEAN
      /\ Fits(pbuff, head, 0)
  BY DEF IInv, TypeOK
<1>3. /\ start_line' \in 0..Size-1 /\ curr' \in 0..SizeT-1
      /\ astray' = astray
  <2> DEFINE d == ToEnd(pbuff, start_line)
  <2>1. CASE is_rb_empty \/ total <= m_lines
    BY <1>1, <1>2, <2>1 DEF move_to_next_line
  <2>2. CASE ~(is_rb_empty \/ total <= m_lines)
    <3>1. d \in 0..LineChars
      BY <1>2, EndNear
    <3>2. \/ UNCHANGED <<start_line, curr, astray>>
          \/ /\ start_line' = Cell(start_line + d + 1)
             /\ curr' = Wrapped(curr + 1)
             /\ UNCHANGED astray
      BY <1>1, <2>2 DEF move_to_next_line, place
    <3> HIDE DEF d
    <3>3. start_line + d + 1 \in Int /\ curr + 1 \in Int
      BY <1>2, <3>1, Sizes, Counters
    <3>4. QED
      BY <1>2, <3>2, <3>3, InRing, InSizeT
  <2>3. QED
    BY <2>1, <2>2
<1>4. TypeOK'
  BY <1>1, <1>3 DEF IInv, TypeOK
<1>5. ASSUME ~overflowed, ~astray'
      PROVE  Placed'
  <2>1. CASE UNCHANGED <<start_line, curr, astray>>
    BY <1>1, <1>3, <1>5, <2>1 DEF IInv, Placed, Before
  <2>2. CASE /\ start_line' \in start_line..head
             /\ pbuff[start_line' - 1] = NUL
             /\ Cardinality(Before(pbuff, start_line')) =
                  Cardinality(Before(pbuff, start_line)) + 1
             /\ curr' = curr + 1
             /\ curr = 1 + Cardinality(Before(pbuff, start_line))
    <3>1. Cardinality(Before(pbuff, start_line)) \in Nat
      <4>1. start_line \in Nat
        BY <1>2, Sizes
      <4>2. QED
        BY <4>1, BeforeNext
    <3>2. curr' = 1 + Cardinality(Before(pbuff, start_line'))
      BY <2>2, <3>1
    <3>3. start_line' <= head
      BY <1>2, <2>2, Sizes
    <3>4. QED
      BY <1>1, <2>2, <3>2, <3>3 DEF Placed, Before
  <2>3. QED
    BY <1>1, <1>3, <1>5, <2>1, <2>2, DownPlaced
<1>6. QED
  BY <1>1, <1>4, <1>5, TextStays

LEMMA KeyboardIInv == ASSUME IInv, doing_keyboard PROVE IInv'
<1> DEFINE n == LinesFor(keyboard')
<1>1. /\ keyboard' = ~keyboard /\ m_lines' = n
      /\ start_line' = point_to_latest_screen(pbuff, head, n)
      /\ curr' = Wrapped(total - n + 1)
      /\ astray' = (total < n)
      /\ painted' = FALSE
      /\ UNCHANGED <<pbuff, head, tail, total, tags, overflowed>>
  BY DEF doing_keyboard, text
<1>2. /\ pbuff \in [0..Size-1 -> Char \cup {NUL}] /\ head \in 0..Size-1
      /\ total \in Nat /\ Fits(pbuff, head, 0) /\ keyboard \in BOOLEAN
  BY Counters DEF IInv, TypeOK
<1>3. n \in Nat \ {0} /\ n \in {0, ScreenLines, KeyboardLines} /\ n \in Nat
  <2>1. keyboard' \in BOOLEAN
    BY <1>1, <1>2
  <2>2. QED
    BY <2>1, Heights
<1>4. m_lines' = LinesFor(keyboard')
  BY <1>1
<1> HIDE DEF n
<1>5. start_line' \in 0..Size-1
  BY <1>1, <1>2, <1>3, LatestInRing
<1>6. curr' \in 0..SizeT-1
  <2>1. total - n + 1 \in Int
    BY <1>2, <1>3
  <2>2. QED
    BY <1>1, <2>1, InSizeT
<1>7. keyboard' \in BOOLEAN /\ astray' \in BOOLEAN
  BY <1>1, <1>2
<1>8. TypeOK'
  BY <1>1, <1>3, <1>5, <1>6, <1>7 DEF IInv, TypeOK
<1>9. ASSUME ~overflowed, ~astray'
      PROVE  Placed'
  <2>1. n <= total
    <3>1. ~(total < n)
      BY <1>1, <1>9
    <3>2. QED
      BY <1>2, <1>3, <3>1
  <2>2. Fresh(pbuff, head, tail, total)
    BY <1>9 DEF IInv
  <2> DEFINE q == point_to_latest_screen(pbuff, head, n)
  <2>3. /\ q \in 0..head
        /\ q = 0 \/ pbuff[q - 1] = NUL
        /\ Cardinality(Before(pbuff, q)) = total - n
    BY <1>2, <1>3, <2>1, <2>2, LatestPlaced
  <2>4. start_line' = q
    BY <1>1
  <2> HIDE DEF q
  <2>5. total \in 0..head
    BY <1>2, <2>2, FreshCount
  <2>6. total - n + 1 \in 0..SizeT-1
    BY <1>2, <1>3, <2>1, <2>5, Counters, Sizes
  <2>7. curr' = 1 + Cardinality(Before(pbuff, q))
    <3>1. curr' = total - n + 1
      BY <1>1, <2>6, NotWrapped
    <3>2. QED
      BY <1>2, <1>3, <2>3, <3>1
  <2>8. q <= head
    BY <1>2, <2>3, Sizes
  <2>9. QED
    BY <1>1, <2>3, <2>4, <2>7, <2>8 DEF Placed, Before
<1>10. QED
  BY <1>1, <1>4, <1>8, <1>9, TextStays

-----------------------------------------------------------------------------
(* The theorems.                                                           *)

LEMMA NextIInv == IInv /\ [Next]_vars => IInv'
<1> SUFFICES ASSUME IInv, [Next]_vars PROVE IInv'
  OBVIOUS
<1>1. CASE UNCHANGED vars
  <2>1. UNCHANGED <<pbuff, head, tail, start_line, total, curr, m_lines,
                    keyboard, painted, tags, overflowed, astray>>
    BY <1>1 DEF vars, text, place, screen
  <2>2. TypeOK'
    BY <2>1 DEF IInv, TypeOK
  <2>3. /\ Fits(pbuff, head, 0)'
        /\ Fresh(pbuff, head, tail, total)' = Fresh(pbuff, head, tail, total)
        /\ Placed' = Placed
        /\ (m_lines = LinesFor(keyboard))' = (m_lines = LinesFor(keyboard))
    BY <2>1 DEF IInv, Fits, Fresh, Before, Placed, LinesFor
  <2>4. QED
    BY <2>1, <2>2, <2>3 DEF IInv
<1>2. ASSUME NEW s \in Strings, appendStr(s)
      PROVE  IInv'
  BY <1>2, AppendIInv
<1>3. CASE painting
  BY <1>3, PaintingIInv
<1>4. CASE doing_up
  BY <1>4, UpIInv
<1>5. CASE doing_down
  BY <1>5, DownIInv
<1>6. CASE doing_keyboard
  BY <1>6, KeyboardIInv
<1>7. QED
  BY <1>1, <1>2, <1>3, <1>4, <1>5, <1>6 DEF Next

LEMMA IInvHolds == Spec => []IInv
<1>1. QED
  BY InitIInv, NextIInv, PTL DEF Spec

(* The variables keep their types: no index leaves the ring, whatever the  *)
(* loops over its characters do.                                           *)
THEOREM TypeCorrect == Spec => []TypeOK
<1>1. IInv => TypeOK
  BY DEF IInv
<1>2. QED
  BY <1>1, IInvHolds, PTL

(* _print_text meets the end of a line before its array is full, for every *)
(* size of the ring, width of the screen and sequence of strings.          *)
THEOREM EveryLineFits == Spec => []LinesFit
<1>1. ASSUME IInv
      PROVE  LinesFit
  <2>1. head \in 0..Size-1 /\ Fits(pbuff, head, 0)
    BY <1>1 DEF IInv, TypeOK
  <2>2. ASSUME NEW p \in 0..Size-1
        PROVE  ToEnd(pbuff, p) <= LineChars
    <3>1. ToEnd(pbuff, p) \in 0..LineChars
      BY <2>1, EndNear
    <3>2. QED
      BY <3>1, Sizes
  <2>3. QED
    BY <2>2 DEF LinesFit
<1>2. QED
  BY <1>1, IInvHolds, PTL

(* The text and the window of a ring that was never full. *)
LEMMA FreshText ==
  ASSUME IInv, ~overflowed
  PROVE  /\ Window!Lines = total
         /\ start_line <= head =>
              Top = 1 + Cardinality(Before(pbuff, start_line))
<1>1. /\ tail = 0 /\ head \in 0..Size-1 /\ start_line \in 0..Size-1
      /\ total = Cardinality(Before(pbuff, head))
      /\ head \in Nat /\ start_line \in Nat
  BY Sizes DEF IInv, TypeOK, Fresh
<1>2. ASSUME NEW n \in 0..Size-1
      PROVE  {i \in 1..Cell(n - tail) : pbuff[Cell(tail + i - 1)] = NUL} =
               Before(pbuff, n)
  <2>1. Cell(n - tail) = n
    <3>1. n - tail = n
      BY <1>1, Sizes
    <3>2. QED
      BY <3>1, SameCell
  <2>2. ASSUME NEW i \in 1..n
        PROVE  Cell(tail + i - 1) = i - 1
    <3>1. tail + i - 1 = i - 1 /\ i - 1 \in 0..Size-1
      BY <1>1, Sizes
    <3>2. QED
      BY <3>1, SameCell
  <2>3. QED
    BY <2>1, <2>2 DEF Before
<1>3. Top = 1 + Cardinality(Before(pbuff, start_line))
  BY <1>1, <1>2 DEF Top
<1>4. {i \in DOMAIN Text : Text[i] = NUL} = Before(pbuff, head)
  <2>1. /\ DOMAIN Text = 1..Cell(head - tail)
        /\ \A i \in 1..Cell(head - tail) : Text[i] = pbuff[Cell(tail + i - 1)]
    BY DEF Text
  <2>2. {i \in DOMAIN Text : Text[i] = NUL} =
          {i \in 1..Cell(head - tail) : pbuff[Cell(tail + i - 1)] = NUL}
    BY <2>1
  <2>3. QED
    BY <1>1, <1>2, <2>2
<1>5. Window!Lines = total
  <2>1. Window!Lines = Cardinality({i \in DOMAIN Text : Text[i] = NUL})
    BY DEF Window!Lines, Window!Cardinality, Cardinality
  <2>2. QED
    BY <1>1, <1>4, <2>1
<1>6. QED
  BY <1>3, <1>5

(* Until the ring was full, m_total_lines_no is the number of lines in it  *)
(* and m_curr_line_no the number of the one the window starts at.          *)
THEOREM CountersCorrect == Spec => []Counted
<1>1. ASSUME IInv
      PROVE  Counted
  <2> SUFFICES ASSUME ~overflowed, head # tail
               PROVE  total = Window!Lines /\ (~astray => curr = Top)
    BY DEF Counted
  <2>1. head # 0
    BY <1>1 DEF IInv, Fresh
  <2>2. ASSUME ~astray
        PROVE  curr = Top
    <3>1. Placed
      BY <1>1, <2>2 DEF IInv
    <3>2. QED
      BY <1>1, <2>1, <3>1, FreshText DEF Placed
  <2>3. QED
    BY <1>1, <2>2, FreshText
<1>2. QED
  BY <1>1, IInvHolds, PTL

-----------------------------------------------------------------------------
(* The text in the ring.  The last characters of the text t are in the     *)
(* cells before the head, as many as there are cells.                      *)
Texts == Seq(Char \cup {NUL})

Holds(b, t) ==
  \A j \in 1..Size :
    j <= Len(t) => b.buf[Cell(b.head - j)] = t[Len(t) + 1 - j]

(* The tail: at the head of the loop, and where room was made. *)
Ends(b, t) == IF Len(t) <= Size - 2 THEN b.tail = Cell(b.head - Len(t))
                                    ELSE is_rb_full(b)
EndsRoomy(b, t) == IF Len(t) <= Size - 2 THEN b.tail = Cell(b.head - Len(t))
                                         ELSE Room(b)

LEMMA FullWhenLong ==
  ASSUME NEW b \in Ring, NEW t \in Texts, Ends(b, t)
  PROVE  is_rb_full(b) <=> Len(t) > Size - 2
<1>1. Len(t) \in Nat /\ b.head \in 0..Size-1
  BY DEF Ring, Texts
<1>2. ASSUME Len(t) <= Size - 2
      PROVE  ~is_rb_full(b)
  <2>1. b.tail = Cell(b.head - Len(t))
    BY <1>2 DEF Ends
  <2>2. /\ b.head - Len(t) \in Int /\ b.head + 1 \in Int
        /\ b.head - Len(t) < b.head + 1
        /\ (b.head + 1) - (b.head - Len(t)) < Size
    BY <1>1, <1>2, Sizes
  <2>3. Cell(b.head - Len(t)) # Cell(b.head + 1)
    BY <2>2, OtherCell
  <2>4. QED
    BY <2>1, <2>3 DEF is_rb_full
<1>3. ASSUME ~(Len(t) <= Size - 2)
      PROVE  is_rb_full(b)
  BY <1>3 DEF Ends
<1>4. Len(t) > Size - 2 <=> ~(Len(t) <= Size - 2)
  BY <1>1, Sizes
<1>5. QED
  BY <1>2, <1>3, <1>4

LEMMA RoomyText ==
  ASSUME NEW b, Between(b), NEW t \in Texts, Holds(b, t), Ends(b, t)
  PROVE  Holds(MakeRoom(b), t) /\ EndsRoomy(MakeRoom(b), t)
<1>1. b \in Ring /\ (is_rb_full(b) \/ Kept(b))
  BY DEF Between
<1> DEFINE r == MakeRoom(b)
<1>2. /\ r.buf = b.buf /\ r.head = b.head
      /\ IF is_rb_full(b) THEN Room(r) ELSE r = b
  BY <1>1, RoomMade
<1>3. is_rb_full(b) <=> Len(t) > Size - 2
  BY <1>1, FullWhenLong
<1> HIDE DEF r
<1>4. Len(t) \in Nat
  BY DEF Texts
<1>5. Holds(r, t)
  BY <1>2 DEF Holds
<1>6. EndsRoomy(r, t)
  <2>1. CASE Len(t) <= Size - 2
    <3>1. ~is_rb_full(b)
      BY <1>3, <1>4, <2>1, Sizes
    <3>2. r = b
      BY <1>2, <3>1
    <3>3. QED
      BY <2>1, <3>2 DEF Ends, EndsRoomy
  <2>2. CASE ~(Len(t) <= Size - 2)
    <3>1. is_rb_full(b)
      BY <1>3, <1>4, <2>2, Sizes
    <3>2. QED
      BY <1>2, <2>2, <3>1 DEF EndsRoomy
  <2>3. QED
    BY <2>1, <2>2
<1>7. QED
  BY <1>5, <1>6 DEF r

LEMMA PushedText ==
  ASSUME NEW b \in Ring, NEW r \in Ring, NEW c \in Char \cup {NUL},
         NEW t \in Texts, Holds(b, t), EndsRoomy(b, t),
         r.buf = [b.buf EXCEPT ![b.head] = c], r.head = Cell(b.head + 1),
         r.tail = b.tail
  PROVE  /\ Append(t, c) \in Texts
         /\ Holds(r, Append(t, c)) /\ Ends(r, Append(t, c))
<1> DEFINE n == Len(t)
           u == Append(t, c)
<1>1. /\ b.buf \in [0..Size-1 -> Char \cup {NUL}] /\ b.head \in 0..Size-1
      /\ b.head \in Int /\ b.head + 1 \in Int
  BY Sizes DEF Ring
<1>2. /\ u \in Texts /\ Len(u) = n + 1 /\ n \in Nat
      /\ u[n+1] = c /\ \A i \in 1..n : u[i] = t[i]
  BY DEF Texts
<1> HIDE DEF n, u
<1>3. \A k \in Int : Cell(r.head - k) = Cell(b.head + 1 - k)
  <2>1. ASSUME NEW k \in Int
        PROVE  Cell(r.head - k) = Cell(b.head + 1 - k)
    <3>1. /\ -k \in Int /\ Cell(b.head + 1) \in Int
          /\ b.head + 1 - k = (b.head + 1) + (-k)
          /\ Cell(b.head + 1) - k = Cell(b.head + 1) + (-k)
      <4>1. Cell(b.head + 1) \in 0..Size-1
        BY <1>1, InRing
      <4>2. QED
        BY <1>1, <4>1, Sizes
    <3>2. Cell(Cell(b.head + 1) + (-k)) = Cell((b.head + 1) + (-k))
      BY <1>1, <3>1, CellOfCell
    <3>3. QED
      BY <3>1, <3>2
  <2>2. QED
    BY <2>1
<1>4. ASSUME NEW j \in 1..Size, j <= n + 1
      PROVE  r.buf[Cell(r.head - j)] = u[(n + 1) + 1 - j]
  <2>1. j \in Int /\ Cell(r.head - j) = Cell(b.head + 1 - j)
    BY <1>3, Sizes
  <2>2. CASE j = 1
    <3>1. b.head + 1 - j = b.head /\ (n + 1) + 1 - j = n + 1
      BY <1>1, <1>2, <2>2
    <3>2. Cell(r.head - j) = b.head
      BY <1>1, <2>1, <3>1, SameCell
    <3>3. QED
      BY <1>1, <1>2, <3>1, <3>2
  <2>3. CASE j # 1
    <3>1. /\ j - 1 \in 1..Size /\ j - 1 <= n /\ b.head + 1 - j = b.head - (j - 1)
          /\ b.head - (j - 1) \in Int /\ b.head - (j - 1) < b.head
          /\ b.head - (b.head - (j - 1)) < Size
          /\ (n + 1) + 1 - j = n + 1 - (j - 1)
          /\ n + 1 - (j - 1) \in 1..n
      BY <1>1, <1>2, <1>4, <2>1, <2>3, Sizes
    <3>2. b.buf[Cell(b.head - (j - 1))] = t[n + 1 - (j - 1)]
      BY <3>1 DEF Holds, n
    <3>3. Cell(b.head - (j - 1)) # b.head /\ Cell(b.head - (j - 1)) \in 0..Size-1
      <4>1. Cell(b.head - (j - 1)) # Cell(b.head)
        BY <1>1, <3>1, OtherCell
      <4>2. QED
        BY <1>1, <3>1, <4>1, SameCell, InRing
    <3>4. r.buf[Cell(b.head - (j - 1))] = t[n + 1 - (j - 1)]
      BY <1>1, <3>2, <3>3
    <3>5. QED
      BY <1>2, <2>1, <3>1, <3>4
  <2>4. QED
    BY <2>2, <2>3
<1>5. Holds(r, u)
  BY <1>2, <1>4 DEF Holds
<1>6. Ends(r, u)
  <2>1. CASE n + 1 <= Size - 2
    <3>1. n <= Size - 2 /\ n + 1 \in Int /\ b.head + 1 - (n + 1) = b.head - n
      BY <1>1, <1>2, <2>1, Sizes
    <3>2. b.tail = Cell(b.head - n)
      BY <3>1 DEF EndsRoomy, n
    <3>3. r.tail = Cell(r.head - (n + 1))
      BY <1>3, <3>1, <3>2
    <3>4. QED
      BY <1>2, <2>1, <3>3 DEF Ends
  <2>2. CASE ~(n + 1 <= Size - 2)
    <3>1. Cell(r.head + 1) = Cell(b.head + 2)
      <4>1. /\ -1 \in Int /\ r.head - (-1) = r.head + 1
            /\ b.head + 1 - (-1) = b.head + 2
        BY <1>1, Sizes DEF Ring
      <4>2. Cell(r.head - (-1)) = Cell(b.head + 1 - (-1))
        BY <1>3, <4>1
      <4>3. QED
        BY <4>1, <4>2
    <3>2. b.tail = Cell(b.head + 2)
      <4>1. CASE n <= Size - 2
        <5>1. b.head - n \in Int /\ (b.head - n) + Size = b.head + 2
          BY <1>1, <1>2, <2>2, <4>1, Sizes
        <5>2. b.tail = Cell(b.head - n)
          BY <4>1 DEF EndsRoomy, n
        <5>3. QED
          BY <5>1, <5>2, TurnedCell
      <4>2. CASE ~(n <= Size - 2)
        BY <4>2 DEF EndsRoomy, Room, n
      <4>3. QED
        BY <4>1, <4>2
    <3>3. QED
      BY <1>2, <2>2, <3>1, <3>2 DEF Ends, is_rb_full
  <2>3. QED
    BY <2>1, <2>2
<1>7. QED
  BY <1>2, <1>5, <1>6 DEF u

(* What was copied of a string is what Lined pushes, behind the text t. *)
Pushed == [out : Texts, char_no : Nat]
Tells(b, t, l) == /\ l \in Pushed /\ l.char_no = b.char_no
                  /\ Holds(b, t \o l.out) /\ Ends(b, t \o l.out)
TellsRoomy(b, t, l) == /\ l \in Pushed /\ l.char_no = b.char_no
                       /\ Holds(b, t \o l.out) /\ EndsRoomy(b, t \o l.out)

LEMMA Joined ==
  ASSUME NEW t \in Texts, NEW u \in Texts, NEW c \in Char \cup {NUL}
  PROVE  /\ t \o u \in Texts
         /\ Append(u, c) \in Texts
         /\ t \o Append(u, c) = Append(t \o u, c)
<1>1. t \o u \in Texts /\ Append(u, c) \in Texts /\ t \o Append(u, c) \in Texts
      /\ Append(t \o u, c) \in Texts
  BY DEF Texts
<1>2. /\ Len(t) \in Nat /\ Len(u) \in Nat
      /\ Len(t \o u) = Len(t) + Len(u) /\ Len(Append(u, c)) = Len(u) + 1
      /\ Len(t \o Append(u, c)) = Len(t) + Len(u) + 1
      /\ Len(Append(t \o u, c)) = Len(t) + Len(u) + 1
  BY DEF Texts
<1>3. ASSUME NEW i \in 1..Len(t)+Len(u)+1
      PROVE  (t \o Append(u, c))[i] = Append(t \o u, c)[i]
  BY <1>2 DEF Texts
<1>4. QED
  BY <1>1, <1>2, <1>3, SeqEqual DEF Texts

LEMMA PushEndFields ==
  ASSUME NEW b \in Ring
  PROVE  LET r == PushEnd(b)
         IN  /\ r \in Ring
             /\ r.buf = [b.buf EXCEPT ![b.head] = NUL]
             /\ r.head = Cell(b.head + 1)
             /\ r.tail = b.tail /\ r.char_no = b.char_no
<1> DEFINE p == Push(b, NUL)
<1>1. /\ p \in Ring
      /\ p.buf = [b.buf EXCEPT ![b.head] = NUL]
      /\ p.head = Cell(b.head + 1)
      /\ p.tail = b.tail /\ p.total = b.total /\ p.char_no = b.char_no
  <2>1. NUL \in Char \cup {NUL}
    OBVIOUS
  <2>2. QED
    BY <2>1, PushFields
<1>2. PushEnd(b) = [p EXCEPT !.total = @ + 1]
  BY DEF PushEnd
<1> HIDE DEF p
<1>3. p.total + 1 \in Nat
  BY <1>1 DEF Ring
<1>4. QED
  BY <1>1, <1>2, <1>3 DEF Ring

(* A record with the same characters, head and tail. *)
LEMMA SameTells ==
  ASSUME NEW b, NEW r, NEW t, r.buf = b.buf, r.head = b.head, r.tail = b.tail
  PROVE  /\ Holds(r, t) <=> Holds(b, t)
         /\ Ends(r, t) <=> Ends(b, t)
BY DEF Holds, Ends, is_rb_full

LEMMA EndTold ==
  ASSUME NEW b, Roomy(b), NEW t \in Texts, NEW l, TellsRoomy(b, t, l)
  PROVE  LET p == PushEnd(b)
         IN  /\ Append(l.out, NUL) \in Texts
             /\ Holds(p, t \o Append(l.out, NUL))
             /\ Ends(p, t \o Append(l.out, NUL))
<1> DEFINE p == PushEnd(b)
           u == t \o l.out
<1>1. b \in Ring /\ l.out \in Texts /\ NUL \in Char \cup {NUL}
  BY DEF Roomy, TellsRoomy, Pushed
<1>2. /\ p \in Ring
      /\ p.buf = [b.buf EXCEPT ![b.head] = NUL]
      /\ p.head = Cell(b.head + 1) /\ p.tail = b.tail
  BY <1>1, PushEndFields
<1>3. /\ u \in Texts /\ Append(l.out, NUL) \in Texts
      /\ t \o Append(l.out, NUL) = Append(u, NUL)
  BY <1>1, Joined
<1>4. Holds(b, u) /\ EndsRoomy(b, u)
  BY DEF TellsRoomy
<1> HIDE DEF p, u
<1>5. Holds(p, Append(u, NUL)) /\ Ends(p, Append(u, NUL))
  BY <1>1, <1>2, <1>3, <1>4, PushedText
<1>6. QED
  BY <1>3, <1>5 DEF p

LEMMA RoomTold ==
  ASSUME NEW b, Between(b), NEW t \in Texts, NEW l, Tells(b, t, l)
  PROVE  TellsRoomy(MakeRoom(b), t, l)
<1>1. l \in Pushed /\ l.out \in Texts /\ Holds(b, t \o l.out) /\ Ends(b, t \o l.out)
  BY DEF Tells, Pushed
<1>2. t \o l.out \in Texts
  BY <1>1 DEF Texts
<1>3. Holds(MakeRoom(b), t \o l.out) /\ EndsRoomy(MakeRoom(b), t \o l.out)
  BY <1>1, <1>2, RoomyText
<1>4. MakeRoom(b).char_no = l.char_no
  BY MadeRoomy DEF Tells
<1>5. QED
  BY <1>1, <1>3, <1>4 DEF TellsRoomy

Break(l) == IF l.char_no > LineChars THEN LineEnd(l) ELSE l

LEMMA BreakTold ==
  ASSUME NEW b, Roomy(b), NEW t \in Texts, NEW l, TellsRoomy(b, t, l)
  PROVE  TellsRoomy(BreakLine(b), t, Break(l))
<1>1. l \in Pushed /\ l.char_no = b.char_no
  BY DEF TellsRoomy
<1>2. CASE b.char_no > LineChars
  <2> DEFINE p == PushEnd(b)
             q == [p EXCEPT !.char_no = 1]
             k == LineEnd(l)
  <2>1. BreakLine(b) = MakeRoom(q) /\ Break(l) = k
    BY <1>1, <1>2 DEF BreakLine, Break
  <2>2. /\ p \in Ring
        /\ is_rb_full(p) \/ Kept(p)
        /\ Fits(p.buf, p.head, 0)
    BY Ended
  <2>3. /\ Append(l.out, NUL) \in Texts
        /\ Holds(p, t \o Append(l.out, NUL)) /\ Ends(p, t \o Append(l.out, NUL))
    BY EndTold
  <2> HIDE DEF p
  <2>4. k \in Pushed /\ k.out = Append(l.out, NUL) /\ k.char_no = 1
    BY <2>3 DEF LineEnd, Pushed
  <2> HIDE DEF k
  <2>5. 1 \in Nat
    OBVIOUS
  <2>6. /\ q \in Ring /\ q.char_no = 1 /\ q.buf = p.buf /\ q.head = p.head
        /\ is_rb_full(p) => is_rb_full(q)
        /\ Kept(p) => Kept(q)
    BY <2>2, <2>5, Renumbered
  <2>7. q.tail = p.tail
    BY <2>2 DEF Ring
  <2> HIDE DEF q
  <2>8. Tells(q, t, k)
    BY <2>3, <2>4, <2>6, <2>7, SameTells DEF Tells
  <2>9. Between(q)
    <3>1. q.char_no \in 1..LineChars+1
      BY <2>6, Sizes
    <3>2. Line(q, q.char_no - 1)
      <4>1. 0 \in 0..q.char_no-1 /\ Fits(q.buf, q.head, 0)
        BY <2>2, <2>6
      <4>2. QED
        BY <4>1 DEF Line
    <3>3. is_rb_full(q) \/ Kept(q)
      BY <2>2, <2>6
    <3>4. QED
      BY <2>6, <3>1, <3>2, <3>3 DEF Between
  <2>10. QED
    BY <2>1, <2>8, <2>9, RoomTold
<1>3. CASE ~(b.char_no > LineChars)
  BY <1>1, <1>3 DEF BreakLine, Break
<1>4. QED
  BY <1>2, <1>3

LEMMA CharTold ==
  ASSUME NEW b, Between(b), NEW t \in Texts, NEW l, Tells(b, t, l),
         NEW c \in Char \cup {Newline}
  PROVE  Tells(CopyChar(b, c), t, AddChar(l, c))
<1> DEFINE o == CountOverwritten(b)
           m == MakeRoom(o)
           r == BreakLine(m)
           e == PushEnd(r)
           f == [e EXCEPT !.char_no = 1]
           p == IF c = Newline THEN f ELSE Push(r, c)
           q == [p EXCEPT !.char_no = @ + 1]
           k == Break(l)
           a == IF c = Newline THEN LineEnd(k)
                               ELSE [k EXCEPT !.out = Append(@, c)]
           z == [a EXCEPT !.char_no = @ + 1]
<1>1. CopyChar(b, c) = q /\ AddChar(l, c) = z
  BY DEF CopyChar, AddChar, Break
<1>2. Between(o) /\ Tells(o, t, l)
  <2>1. b \in Ring /\ (is_rb_full(b) \/ Kept(b))
    BY DEF Between
  <2>2. /\ o \in Ring
        /\ o.buf = b.buf /\ o.head = b.head /\ o.char_no = b.char_no
        /\ o.tail = b.tail
        /\ is_rb_full(o) \/ Kept(o)
    BY <2>1, OverwritesCounted
  <2> HIDE DEF o
  <2>3. Between(o)
    BY <2>2 DEF Between, Line
  <2>4. Tells(o, t, l)
    BY <2>2, SameTells DEF Tells
  <2>5. QED
    BY <2>3, <2>4
<1> HIDE DEF o
<1>3. Roomy(m) /\ TellsRoomy(m, t, l)
  BY <1>2, MadeRoomy, RoomTold
<1> HIDE DEF m
<1>4. Roomy(r) /\ TellsRoomy(r, t, k) /\ r.char_no \in 1..LineChars
  BY <1>3, Broken, BreakTold
<1> HIDE DEF r, k
<1>5. /\ k \in Pushed /\ k.out \in Texts /\ k.char_no = r.char_no /\ r \in Ring
      /\ Holds(r, t \o k.out) /\ EndsRoomy(r, t \o k.out)
  BY <1>4 DEF TellsRoomy, Pushed, Roomy
<1>6. /\ p \in Ring /\ a \in Pushed /\ a.char_no = p.char_no
      /\ Holds(p, t \o a.out) /\ Ends(p, t \o a.out)
  <2>1. CASE c = Newline
    <3>1. /\ Append(k.out, NUL) \in Texts
          /\ Holds(e, t \o Append(k.out, NUL)) /\ Ends(e, t \o Append(k.out, NUL))
      BY <1>4, EndTold
    <3>2. e \in Ring
      BY <1>4, Ended
    <3> HIDE DEF e
    <3>3. 1 \in Nat
      OBVIOUS
    <3>4. /\ f \in Ring /\ f.char_no = 1 /\ f.buf = e.buf /\ f.head = e.head
          /\ f.tail = e.tail
      BY <3>2, <3>3 DEF Ring
    <3> HIDE DEF f
    <3>5. a \in Pushed /\ a.out = Append(k.out, NUL) /\ a.char_no = 1
      BY <2>1, <3>1 DEF LineEnd, Pushed
    <3>6. p = f
      BY <2>1
    <3> HIDE DEF p, a
    <3>7. QED
      BY <3>1, <3>4, <3>5, <3>6, SameTells
  <2>2. CASE c # Newline
    <3>1. c \in Char \cup {NUL}
      BY <2>2
    <3>2. /\ Push(r, c) \in Ring
          /\ Push(r, c).buf = [r.buf EXCEPT ![r.head] = c]
          /\ Push(r, c).head = Cell(r.head + 1)
          /\ Push(r, c).tail = r.tail /\ Push(r, c).char_no = r.char_no
      BY <1>5, <3>1, PushFields
    <3>3. /\ t \o k.out \in Texts /\ Append(k.out, c) \in Texts
          /\ t \o Append(k.out, c) = Append(t \o k.out, c)
      BY <1>5, <3>1, Joined
    <3>4. a \in Pushed /\ a.out = Append(k.out, c) /\ a.char_no = k.char_no
      BY <1>5, <2>2, <3>3 DEF Pushed
    <3>5. p = Push(r, c)
      BY <2>2
    <3> HIDE DEF a, p
    <3>6. Holds(p, Append(t \o k.out, c)) /\ Ends(p, Append(t \o k.out, c))
      BY <1>5, <3>1, <3>2, <3>3, <3>5, PushedText
    <3>7. QED
      BY <1>5, <3>2, <3>3, <3>4, <3>5, <3>6
  <2>3. QED
    BY <2>1, <2>2
<1> HIDE DEF p, a
<1>7. /\ q.buf = p.buf /\ q.head = p.head /\ q.tail = p.tail
      /\ q.char_no = p.char_no + 1
      /\ z \in Pushed /\ z.out = a.out /\ z.char_no = a.char_no + 1
  BY <1>6 DEF Ring, Pushed
<1> HIDE DEF q, z
<1>8. QED
  BY <1>1, <1>6, <1>7, SameTells DEF Tells

(* A whole string.  Lined is a recursive function too. *)
IsLined(s, l, n) == l = [c \in 0..n |-> IF c = 0 THEN [out |-> <<>>, char_no |-> 1]
                                        ELSE AddChar(l[c-1], s[c])]

LEMMA LinedExists == ASSUME NEW s PROVE \A n \in Nat : \E l : IsLined(s, l, n)
<1> DEFINE S == {n \in Nat : \E l : IsLined(s, l, n)}
           first == [out |-> <<>>, char_no |-> 1]
<1>1. 0 \in S
  <2>1. IsLined(s, [c \in 0..0 |-> first], 0)
    BY DEF IsLined
  <2>2. QED
    BY <2>1
<1>2. ASSUME NEW n \in Nat, n \in S
      PROVE  n + 1 \in S
  <2>1. PICK l : IsLined(s, l, n)
    BY <1>2
  <2> DEFINE g == [c \in 0..n+1 |-> IF c = n + 1 THEN AddChar(l[n], s[n+1])
                                    ELSE l[c]]
  <2>2. ASSUME NEW c \in 0..n+1
        PROVE  g[c] = IF c = 0 THEN first ELSE AddChar(g[c-1], s[c])
    <3>1. /\ c # 0 => c - 1 \in 0..n /\ c - 1 \in 0..n+1 /\ c - 1 # n + 1
          /\ n \in 0..n /\ n + 1 # 0
      OBVIOUS
    <3>2. c # 0 => g[c-1] = l[c-1]
      BY <3>1
    <3>3. CASE c = n + 1
      <4>1. c - 1 = n /\ c # 0
        BY <3>3
      <4>2. g[c] = AddChar(l[n], s[n+1])
        BY <3>3
      <4>3. QED
        BY <3>2, <4>1, <4>2
    <3>4. CASE c # n + 1
      <4>1. c \in 0..n /\ g[c] = l[c]
        BY <3>4
      <4>2. l[c] = IF c = 0 THEN first ELSE AddChar(l[c-1], s[c])
        BY <2>1, <4>1 DEF IsLined
      <4>3. QED
        BY <3>2, <4>1, <4>2
    <3>5. QED
      BY <3>3, <3>4
  <2>3. IsLined(s, g, n + 1)
    BY <2>2 DEF IsLined
  <2> HIDE DEF g
  <2>4. QED
    BY <2>3
<1> HIDE DEF S
<1>3. \A n \in Nat : n \in S
  BY <1>1, <1>2, Induction
<1>4. QED
  BY <1>3 DEF S

LEMMA CopiesTell ==
  ASSUME NEW s \in Seq(Char \cup {Newline}), NEW t \in Texts, Between(Start),
         NEW b, IsCopy(s, b, Len(s)), NEW l, IsLined(s, l, Len(s)),
         Tells(Start, t, [out |-> <<>>, char_no |-> 1])
  PROVE  Between(b[Len(s)]) /\ Tells(b[Len(s)], t, l[Len(s)])
<1> DEFINE S == {n \in Nat : n <= Len(s) => Between(b[n]) /\ Tells(b[n], t, l[n])}
           first == [out |-> <<>>, char_no |-> 1]
<1>1. Len(s) \in Nat /\ \A c \in 1..Len(s) : s[c] \in Char \cup {Newline}
  OBVIOUS
<1>2. \A c \in 0..Len(s) : b[c] = IF c = 0 THEN Start ELSE CopyChar(b[c-1], s[c])
  BY Zenon DEF IsCopy
<1>3. \A c \in 0..Len(s) : l[c] = IF c = 0 THEN first ELSE AddChar(l[c-1], s[c])
  BY Zenon DEF IsLined
<1>4. 0 \in S
  <2>1. b[0] = Start /\ l[0] = first
    BY <1>1, <1>2, <1>3
  <2>2. QED
    BY <2>1
<1> HIDE DEF first
<1>5. ASSUME NEW n \in Nat, n \in S
      PROVE  n + 1 \in S
  <2> SUFFICES ASSUME n + 1 <= Len(s)
               PROVE  Between(b[n+1]) /\ Tells(b[n+1], t, l[n+1])
    OBVIOUS
  <2>1. n + 1 \in 1..Len(s) /\ n + 1 \in 0..Len(s) /\ n + 1 # 0 /\ (n + 1) - 1 = n
        /\ n <= Len(s)
    BY <1>1
  <2>2. b[n+1] = CopyChar(b[n], s[n+1]) /\ l[n+1] = AddChar(l[n], s[n+1])
    BY <1>2, <1>3, <2>1
  <2>3. Between(b[n]) /\ Tells(b[n], t, l[n])
    BY <1>5, <2>1
  <2>4. s[n+1] \in Char \cup {Newline}
    BY <1>1, <2>1
  <2>5. Between(CopyChar(b[n], s[n+1]))
    BY <2>3, <2>4, CharCopied
  <2>6. Tells(CopyChar(b[n], s[n+1]), t, AddChar(l[n], s[n+1]))
    BY <2>3, <2>4, CharTold
  <2>7. QED
    BY <2>2, <2>5, <2>6
<1> HIDE DEF S
<1>6. \A n \in Nat : n \in S
  BY <1>4, <1>5, Induction
<1>7. QED
  BY <1>1, <1>6 DEF S

(* What a ring holds is the end of a text that Holds says it holds. *)
LEMMA RingText ==
  ASSUME NEW b \in Ring, NEW u \in Texts, Holds(b, u),
         NEW n \in 0..Size-1, n <= Len(u), b.tail = Cell(b.head - n)
  PROVE  [i \in 1..Cell(b.head - b.tail) |-> b.buf[Cell(b.tail + i - 1)]] =
           SubSeq(u, Len(u) - n + 1, Len(u))
<1> DEFINE k == Len(u) - n
<1>1. /\ b.head \in 0..Size-1 /\ b.head \in Int /\ n \in Int /\ Len(u) \in Nat
      /\ k \in Nat /\ b.head - n \in Int /\ Len(u) = k + n
  BY Sizes DEF Ring, Texts
<1>2. Cell(b.head - b.tail) = n
  <2> DEFINE q == (b.head - n) \div Size
             r == (b.head - n) % Size
             m == Size * q
  <2>1. Size \in Nat \ {0} /\ q \in Int /\ r \in 0..Size-1 /\ b.head - n = m + r
    BY <1>1, Sizes, Division
  <2>2. (n + Size * q) % Size = n % Size /\ n % Size = n
    BY <1>1, <2>1, Turns, Small
  <2>3. b.tail = r
    BY DEF Cell
  <2>4. m \in Int
    BY <2>1
  <2> HIDE DEF q, r, m
  <2>5. b.head - r = n + m
    BY <1>1, <2>1, <2>4
  <2>6. QED
    BY <2>2, <2>3, <2>5 DEF Cell, m
<1> HIDE DEF k
<1>3. \A i \in 1..n : b.buf[Cell(b.tail + i - 1)] = u[k + i]
  <2> SUFFICES ASSUME NEW i \in 1..n
               PROVE  b.buf[Cell(b.tail + i - 1)] = u[k + i]
    OBVIOUS
  <2> DEFINE j == n + 1 - i
  <2>1. /\ j \in 1..Size /\ j <= Len(u) /\ i - 1 \in Int
        /\ (b.head - n) + (i - 1) = b.head - j
        /\ Len(u) + 1 - j = k + i
    BY <1>1, Sizes
  <2>2. b.buf[Cell(b.head - j)] = u[k + i]
    BY <2>1 DEF Holds
  <2>3. Cell(Cell(b.head - n) + (i - 1)) = Cell((b.head - n) + (i - 1))
    BY <1>1, <2>1, CellOfCell
  <2>4. b.tail + i - 1 = b.tail + (i - 1)
    BY <1>1, <2>1, Sizes DEF Ring
  <2>5. QED
    BY <2>1, <2>2, <2>3, <2>4
<1>4. QED
  <2>1. SubSeq(u, k + 1, k + n) = [i \in 1..n |-> u[k + i]]
    <3>1. /\ k + 1 \in 1..Len(u) + 1 /\ k + n = Len(u)
      BY <1>1
    <3>2. (k + n) - (k + 1) + 1 = n
      BY <1>1
    <3>3. SubSeq(u, k + 1, k + n) =
            [i \in 1..(1 + (k + n) - (k + 1)) |-> u[i + (k + 1) - 1]]
      BY <1>1, <3>1 DEF Texts
    <3>4. /\ 1 + (k + n) - (k + 1) = n
          /\ \A i \in 1..n : i + (k + 1) - 1 = k + i
      BY <1>1
    <3>5. QED
      BY <3>3, <3>4
  <2>2. Len(u) - n + 1 = k + 1 /\ Len(u) = k + n
    BY <1>1 DEF k
  <2>3. QED
    BY <1>2, <1>3, <2>1, <2>2

(* Between two appends the text is what the ring holds. *)
LEMMA StartTold ==
  ASSUME IInv
  PROVE  Text \in Texts /\ Tells(Start, Text, [out |-> <<>>, char_no |-> 1])
<1> DEFINE n == Cell(head - tail)
           t == Text
           l == [out |-> <<>>, char_no |-> 1]
<1>1. /\ pbuff \in [0..Size-1 -> Char \cup {NUL}] /\ head \in 0..Size-1
      /\ tail \in 0..Size-1 /\ head \in Int /\ tail \in Int /\ head - tail \in Int
  BY Sizes DEF IInv, TypeOK
<1>2. n \in 0..Size-1
  BY <1>1, InRing
<1>3. \A k \in Int : Cell(tail + k) \in 0..Size-1
  <2>1. ASSUME NEW k \in Int
        PROVE  Cell(tail + k) \in 0..Size-1
    <3>1. tail + k \in Int
      BY <1>1
    <3>2. QED
      BY <3>1, InRing
  <2>2. QED
    BY <2>1
<1>4. t = [i \in 1..n |-> pbuff[Cell(tail + i - 1)]]
  BY DEF Text
<1> HIDE DEF t
<1>5. \A k \in Int : Cell(head + k - n) = Cell(tail + k)
  <2>1. ASSUME NEW k \in Int
        PROVE  Cell(head + k - n) = Cell(tail + k)
    <3> DEFINE q == (head - tail) \div Size
               m == Size * q
    <3>1. Size \in Nat \ {0} /\ q \in Int /\ head - tail = m + n
      BY <1>1, Sizes, Division DEF Cell
    <3>2. m \in Int
      BY <3>1
    <3> HIDE DEF q, n
    <3>3. tail + k \in Int
      BY <1>1
    <3>4. ((tail + k) + m) % Size = (tail + k) % Size
      BY <3>1, <3>3, Turns
    <3> HIDE DEF m
    <3>5. head + k - n = (tail + k) + m
      BY <1>1, <1>2, <3>1, <3>2, Sizes
    <3>6. QED
      BY <3>4, <3>5 DEF Cell
  <2>2. QED
    BY <2>1
<1> HIDE DEF n
<1>6. n \in Nat /\ t \in Texts /\ Len(t) = n
  <2>1. n \in Nat
    BY <1>2, Sizes
  <2>2. ASSUME NEW i \in 1..n
        PROVE  pbuff[Cell(tail + i - 1)] \in Char \cup {NUL}
    <3>1. i - 1 \in Int /\ tail + i - 1 = tail + (i - 1)
      BY <1>1, <2>1
    <3>2. QED
      BY <1>1, <1>3, <3>1
  <2>3. QED
    BY <1>4, <2>1, <2>2 DEF Texts
<1>7. Start.buf = pbuff /\ Start.head = head /\ Start.tail = tail /\ Start.char_no = 1
  BY DEF Start
<1>8. ASSUME NEW j \in 1..Size, j <= n
      PROVE  pbuff[Cell(head - j)] = t[n + 1 - j]
  <2>1. /\ n - j \in Int /\ head + (n - j) - n = head - j
        /\ n + 1 - j \in 1..n /\ tail + (n + 1 - j) - 1 = tail + (n - j)
    BY <1>1, <1>6, <1>8, Sizes
  <2>2. Cell(head - j) = Cell(tail + (n - j))
    BY <1>5, <2>1
  <2>3. t[n + 1 - j] = pbuff[Cell(tail + (n + 1 - j) - 1)]
    BY <1>4, <2>1
  <2>4. QED
    BY <2>1, <2>2, <2>3
<1>9. Holds(Start, t)
  BY <1>6, <1>7, <1>8 DEF Holds
<1>10. Ends(Start, t)
  <2>1. 0 \in Int /\ head + 0 - n = head - n /\ tail + 0 = tail
    BY <1>1, <1>6
  <2>2. Cell(head - n) = tail
    <3>1. Cell(head - n) = Cell(tail)
      BY <1>5, <2>1
    <3>2. QED
      BY <1>1, <3>1, SameCell
  <2>3. CASE n <= Size - 2
    BY <1>6, <1>7, <2>2, <2>3 DEF Ends
  <2>4. CASE ~(n <= Size - 2)
    <3>1. head - n \in Int /\ (head - n) + Size = head + 1
      BY <1>1, <1>2, <1>6, <2>4, Sizes
    <3>2. Cell(head + 1) = tail
      BY <2>2, <3>1, TurnedCell
    <3>3. QED
      BY <1>6, <1>7, <2>4, <3>2 DEF Ends, is_rb_full
  <2>5. QED
    BY <2>3, <2>4
<1>11. l \in Pushed /\ l.out = <<>> /\ l.char_no = 1
  BY DEF Pushed, Texts
<1>12. t \o l.out = t
  <2>1. t \o <<>> = t
    BY <1>6 DEF Texts
  <2>2. QED
    BY <1>11, <2>1
<1> HIDE DEF l
<1>13. Tells(Start, t, l)
  BY <1>7, <1>9, <1>10, <1>11, <1>12 DEF Tells
<1>14. QED
  BY <1>6, <1>13 DEF t, l

(* The ring behind the loop and the NUL. *)
LEMMA StringTold ==
  ASSUME IInv, NEW s \in Strings
  PROVE  /\ Text \in Texts /\ Lined(s) \in Texts
         /\ Holds(Copied(s), Text \o Lined(s))
         /\ Ends(Copied(s), Text \o Lined(s))
<1> DEFINE b == CHOOSE b : IsCopy(s, b, Len(s))
           l == CHOOSE l : IsLined(s, l, Len(s))
           c == b[Len(s)]
           z == l[Len(s)]
<1>1. s \in Seq(Char \cup {Newline}) /\ Len(s) \in Nat
  BY CharAssumption
<1>2. IsCopy(s, b, Len(s))
  BY <1>1, CopyExists
<1>3. IsLined(s, l, Len(s))
  BY <1>1, LinedExists
<1>4. Copied(s) = PushEnd(MakeRoom(c))
  BY DEF Copied, IsCopy, Start
<1>5. Lined(s) = Append(z.out, NUL)
  BY DEF Lined, IsLined
<1>6. Text \in Texts /\ Tells(Start, Text, [out |-> <<>>, char_no |-> 1])
  BY StartTold
<1> HIDE DEF b, l
<1>7. Between(c) /\ Tells(c, Text, z)
  BY <1>1, <1>2, <1>3, <1>6, StartBetween, CopiesTell
<1> HIDE DEF c, z
<1>8. Roomy(MakeRoom(c)) /\ TellsRoomy(MakeRoom(c), Text, z)
  BY <1>6, <1>7, MadeRoomy, RoomTold
<1>9. /\ Append(z.out, NUL) \in Texts
      /\ Holds(PushEnd(MakeRoom(c)), Text \o Append(z.out, NUL))
      /\ Ends(PushEnd(MakeRoom(c)), Text \o Append(z.out, NUL))
  BY <1>6, <1>8, EndTold
<1>10. QED
  BY <1>4, <1>5, <1>6, <1>9

(* What is left of it when a broken line has been dropped. *)
RingTextOf(b) == [i \in 1..Cell(b.head - b.tail) |-> b.buf[Cell(b.tail + i - 1)]]

LEMMA DroppedText ==
  ASSUME NEW f \in Ring, Fits(f.buf, f.head, 0), NEW u \in Texts,
         Holds(f, u), Ends(f, u)
  PROVE  /\ Window!LatestLines(RingTextOf(DropBroken(f)), u)
         /\ ~is_rb_full(f) => RingTextOf(DropBroken(f)) = u
<1> DEFINE b == DropBroken(f)
           d == ToEnd(f.buf, f.head)
           new == RingTextOf(b)
<1>1. /\ f.head \in 0..Size-1 /\ f.head \in Int /\ Len(u) \in Nat
      /\ f.buf \in [0..Size-1 -> Char \cup {NUL}]
  BY Sizes DEF Ring, Texts
<1>2. SubSeq(u, 0 + 1, Len(u)) = u
  BY DEF Texts
<1>3. is_rb_full(f) <=> Len(u) > Size - 2
  BY FullWhenLong
<1>4. b \in Ring /\ b.buf = f.buf /\ b.head = f.head /\ (~is_rb_full(f) => b = f)
  BY BrokenDropped
<1>5. is_rb_full(f) => b.tail = Cell(f.head + d + 1)
  BY DEF DropBroken, Ring
<1> HIDE DEF b
<1>6. Holds(b, u)
  BY <1>4 DEF Holds
<1>7. d \in 0..LineChars /\ f.buf[Cell(f.head + d)] = NUL
  BY <1>1, EndNear
<1> HIDE DEF d
<1>8. CASE ~is_rb_full(f)
  <2>1. Len(u) <= Size - 2 /\ Len(u) \in 0..Size-1 /\ Len(u) - Len(u) + 1 = 0 + 1
    BY <1>1, <1>3, <1>8, Sizes
  <2>2. b.tail = Cell(b.head - Len(u))
    BY <1>4, <1>8, <2>1 DEF Ends
  <2>3. new = SubSeq(u, Len(u) - Len(u) + 1, Len(u))
    BY <1>4, <1>6, <2>1, <2>2, RingText DEF RingTextOf
  <2>4. new = u
    BY <1>2, <2>1, <2>3
  <2> HIDE DEF new
  <2>5. Len(u) - Len(new) = 0
    BY <1>1, <2>4
  <2>6. Window!LatestLines(new, u)
    BY <1>2, <2>4, <2>5 DEF Window!LatestLines
  <2>7. QED
    BY <2>4, <2>6 DEF new, b
<1>9. CASE is_rb_full(f)
  <2> DEFINE n == Size - 1 - d
             gone == Len(u) - n
  <2>1. /\ n \in 0..Size-1 /\ n \in Nat /\ n <= Len(u) /\ gone \in Nat
        /\ f.head - n \in Int /\ (f.head - n) + Size = f.head + d + 1
        /\ Len(u) - n + 1 = gone + 1 /\ n = Size - 1 - d /\ d \in Nat
    BY <1>1, <1>3, <1>7, <1>9, Sizes, SMTT(30)
  <2>2. b.tail = Cell(b.head - n)
    <3>1. Cell((f.head - n) + Size) = Cell(f.head - n)
      BY <2>1, TurnedCell
    <3>2. QED
      BY <1>4, <1>5, <1>9, <2>1, <3>1
  <2> HIDE DEF n
  <2>3. new = SubSeq(u, Len(u) - n + 1, Len(u))
    BY <1>4, <1>6, <2>1, <2>2, RingText DEF RingTextOf
  <2> HIDE DEF new
  <2>4. Len(new) = n
    <3>1. Len(u) - n + 1 \in 1..Len(u)+1 /\ Len(u) - (Len(u) - n + 1) + 1 = n
      BY <1>1, <2>1, SMTT(30)
    <3>2. QED
      BY <1>1, <2>1, <2>3, <3>1 DEF Texts
  <2>5. gone > 0 => u[gone] = NUL
    <3> SUFFICES ASSUME gone > 0 PROVE u[gone] = NUL
      OBVIOUS
    <3> DEFINE j == Size - d
    <3>1. j \in 1..Size /\ f.head - j \in Int /\ (f.head - j) + Size = f.head + d
      BY <1>1, <2>1, Sizes
    <3>2. j = n + 1
      BY <2>1, Sizes
    <3>3. j <= Len(u) /\ Len(u) + 1 - j = gone
      BY <1>1, <2>1, <3>2
    <3>4. f.buf[Cell(f.head - j)] = u[gone]
      BY <3>1, <3>3 DEF Holds
    <3> HIDE DEF j
    <3>5. Cell((f.head - j) + Size) = Cell(f.head - j)
      BY <3>1, TurnedCell
    <3>6. QED
      BY <1>7, <3>1, <3>4, <3>5
  <2>6. Len(u) - Len(new) = gone
    BY <2>4
  <2> HIDE DEF gone
  <2>7. new = SubSeq(u, gone + 1, Len(u)) /\ gone >= 0
    BY <2>1, <2>3, SMTT(30)
  <2>8. Window!LatestLines(new, u)
    BY <2>5, <2>6, <2>7 DEF Window!LatestLines
  <2>9. QED
    BY <1>9, <2>8 DEF new, b
<1>10. QED
  BY <1>8, <1>9

-----------------------------------------------------------------------------
(* The window.                                                             *)

LEMMA FreshWindow ==
  IInv /\ ~overflowed => /\ Window!Lines = total
                         /\ start_line <= head =>
                              Top = 1 + Cardinality(Before(pbuff, start_line))
BY FreshText

LEMMA FreshWindowNext ==
  (IInv /\ ~overflowed => /\ Window!Lines = total
                          /\ start_line <= head =>
                               Top = 1 + Cardinality(Before(pbuff, start_line)))'
BY FreshWindow, PTL

(* A window that was put at the end of the text. *)
LEMMA AtLatest ==
  ASSUME IInv', ~overflowed', Placed',
         \/ total' <= LinesFor(keyboard') /\ start_line' = tail'
         \/ /\ total' >= LinesFor(keyboard')
            /\ curr' = Wrapped(total' - LinesFor(keyboard') + 1)
  PROVE  Top' = Window!Latest'
<1> DEFINE n == LinesFor(keyboard')
<1>1. /\ keyboard' \in BOOLEAN /\ total' \in Nat /\ head' \in 0..Size-1
      /\ tail' = 0 /\ total' = Cardinality(Before(pbuff', head'))
      /\ Fresh(pbuff', head', tail', total')
  BY Counters DEF IInv, TypeOK, Fresh, Before
<1>2. n \in Nat \ {0}
  BY <1>1, Heights
<1>3. /\ Window!Lines' = total'
      /\ Top' = 1 + Cardinality(Before(pbuff', start_line'))
  <2>1. start_line' <= head'
    BY DEF Placed
  <2>2. QED
    BY <2>1, FreshWindowNext DEF Before
<1>4. Window!Latest' = IF total' <= n THEN 1 ELSE total' + 1 - n
  <2>1. Window!Height' = n
    BY DEF Window!Height, LinesFor
  <2>2. QED
    BY <1>3, <2>1 DEF Window!Latest
<1> HIDE DEF n
<1>5. CASE total' <= n /\ start_line' = tail'
  <2>1. Cardinality(Before(pbuff', start_line')) = 0
    BY <1>1, <1>5, NoneBefore
  <2>2. QED
    BY <1>3, <1>4, <1>5, <2>1
<1>6. CASE total' >= n /\ curr' = Wrapped(total' - n + 1)
  <2>1. total' \in 0..head'
    BY <1>1, FreshCount
  <2>2. head' # 0 /\ total' - n + 1 \in 0..SizeT-1
    BY <1>1, <1>2, <1>6, <2>1, Counters, Sizes
  <2>3. curr' = total' - n + 1
    BY <1>6, <2>2, NotWrapped
  <2>4. curr' = Top'
    BY <1>3, <2>2 DEF Placed, Before
  <2>5. QED
    BY <1>1, <1>2, <1>4, <1>6, <2>3, <2>4
<1>7. QED
  BY <1>5, <1>6 DEF n

LEMMA AppendWindow ==
  ASSUME IInv, IInv', NEW s \in Strings, appendStr(s)
  PROVE  Window!AppendLines(Lined(s))
<1> DEFINE f == Copied(s)
           b == DropBroken(f)
           n == LinesFor(keyboard)
           u == Text \o Lined(s)
<1>1. /\ pbuff' = b.buf /\ head' = b.head /\ tail' = b.tail /\ total' = b.total
      /\ IF b.total <= n
         THEN start_line' = b.tail
         ELSE curr' = Wrapped(b.total - n + 1)
      /\ overflowed' = (overflowed \/ is_rb_full(f))
      /\ astray' = FALSE /\ keyboard' = keyboard
  BY DEF appendStr
<1>2. f \in Ring /\ Fits(f.buf, f.head, 0)
  BY StringCopied
<1>3. u \in Texts /\ Holds(f, u) /\ Ends(f, u)
  BY StringTold DEF Texts
<1> HIDE DEF f
<1>4. b.total \in Nat
  BY <1>2, BrokenDropped DEF Ring
<1>5. Text' = RingTextOf(b)
  BY <1>1 DEF Text, RingTextOf
<1>6. /\ Window!LatestLines(RingTextOf(b), u)
      /\ ~is_rb_full(f) => RingTextOf(b) = u
  BY <1>2, <1>3, DroppedText
<1> HIDE DEF b
<1>7. IF overflowed' THEN Window!LatestLines(Text', u) ELSE Text' = u
  BY <1>1, <1>5, <1>6
<1>8. n \in Nat \ {0}
  BY Heights DEF IInv, TypeOK
<1>9. ASSUME ~overflowed'
      PROVE  Top' = Window!Latest'
  <2>1. Placed'
    BY <1>1, <1>9 DEF IInv
  <2>2. LinesFor(keyboard') = n
    BY <1>1
  <2> HIDE DEF n
  <2>3. \/ total' <= n /\ start_line' = tail'
        \/ total' >= n /\ curr' = Wrapped(total' - n + 1)
    BY <1>1, <1>4, <1>8
  <2>4. QED
    BY <1>9, <2>1, <2>2, <2>3, AtLatest
<1>10. QED
  BY <1>1, <1>7, <1>9 DEF Window!AppendLines, Window!Placed

(* What the movements of the window leave alone of the text. *)
LEMMA SameText ==
  ASSUME UNCHANGED <<pbuff, head, tail>>
  PROVE  Text' = Text /\ (UNCHANGED start_line => Top' = Top)
BY DEF Text, Top

LEMMA UpWindow ==
  ASSUME IInv, IInv', doing_up
  PROVE  Window!Up \/ Window!GoAstray \/ UNCHANGED Window!windowVars
<1>1. /\ painted /\ "up" \in tags /\ move_to_prev_line
      /\ UNCHANGED <<pbuff, head, tail, total, m_lines, keyboard, tags, overflowed>>
  BY DEF doing_up, text
<1>2. Text' = Text /\ (UNCHANGED start_line => Top' = Top)
  BY <1>1, SameText
<1>3. astray' = astray \/ astray'
  <2>1. astray \in BOOLEAN /\ astray' \in BOOLEAN
    BY DEF IInv, TypeOK
  <2>2. astray => astray'
    BY <1>1, <2>1 DEF move_to_prev_line, place
  <2>3. QED
    BY <2>1, <2>2
<1>4. CASE astray'
  BY <1>1, <1>2, <1>4 DEF Window!GoAstray
<1>5. CASE ~astray' /\ overflowed
  BY <1>1, <1>2, <1>3, <1>5 DEF Window!Up, Window!Placed
<1>6. CASE ~astray' /\ ~overflowed
  <2>1. ~astray /\ astray' = astray
    BY <1>3, <1>6
  <2>2. CASE UNCHANGED <<start_line, curr, astray>>
    BY <1>1, <1>2, <2>2 DEF Window!windowVars
  <2>3. CASE /\ start_line' \in 0..start_line
             /\ Cardinality(Before(pbuff, start_line)) =
                  Cardinality(Before(pbuff, start_line')) + 1
    <3>1. /\ start_line \in 0..Size-1 /\ start_line' \in 0..Size-1
          /\ head \in 0..Size-1
      BY DEF IInv, TypeOK
    <3>2. start_line <= head
      BY <1>6, <2>1 DEF IInv, Placed
    <3>3. start_line' <= head'
      BY <1>1, <2>3, <3>1, <3>2, Sizes
    <3>4. Top = 1 + Cardinality(Before(pbuff, start_line))
      BY <1>6, <3>2, FreshWindow
    <3>5. Top' = 1 + Cardinality(Before(pbuff, start_line'))
      BY <1>1, <1>6, <3>3, FreshWindowNext DEF Before
    <3>6. Cardinality(Before(pbuff, start_line')) \in Nat
      <4>1. start_line' \in Nat
        BY <3>1, Sizes
      <4>2. QED
        BY <4>1, BeforeNext
    <3>7. Top > 1 /\ Top' = Top - 1
      BY <2>3, <3>4, <3>5, <3>6
    <3>8. QED
      BY <1>1, <1>2, <2>1, <3>7 DEF Window!Up
  <2>4. QED
    BY <1>1, <1>6, <2>1, <2>2, <2>3, UpPlaced
<1>7. QED
  BY <1>4, <1>5, <1>6

LEMMA DownWindow ==
  ASSUME IInv, IInv', doing_down
  PROVE  Window!Down \/ Window!GoAstray \/ UNCHANGED Window!windowVars
<1>1. /\ painted /\ "down" \in tags /\ move_to_next_line
      /\ UNCHANGED <<pbuff, head, tail, total, m_lines, keyboard, tags, overflowed>>
  BY DEF doing_down, text
<1>2. Text' = Text /\ (UNCHANGED start_line => Top' = Top)
  BY <1>1, SameText
<1>3. astray' = astray
  BY <1>1 DEF move_to_next_line, place
<1>4. CASE astray
  BY <1>1, <1>2, <1>3, <1>4 DEF Window!GoAstray
<1>5. CASE overflowed
  BY <1>1, <1>2, <1>3, <1>5 DEF Window!Down, Window!Placed
<1>6. CASE ~astray /\ ~overflowed
  <2>1. CASE UNCHANGED <<start_line, curr, astray>>
    BY <1>1, <1>2, <2>1 DEF Window!windowVars
  <2>2. CASE /\ start_line' \in start_line..head
             /\ Cardinality(Before(pbuff, start_line')) =
                  Cardinality(Before(pbuff, start_line)) + 1
             /\ head # 0
             /\ curr = 1 + Cardinality(Before(pbuff, start_line))
             /\ total - curr + 1 > m_lines
    <3>1. /\ start_line \in 0..Size-1 /\ start_line' \in 0..Size-1
          /\ head \in 0..Size-1 /\ total \in Nat /\ m_lines = LinesFor(keyboard)
          /\ total > m_lines
      BY <1>1, <1>6, <2>2, Counters DEF IInv, TypeOK
    <3>2. start_line <= head
      BY <1>6 DEF IInv, Placed
    <3>3. start_line' <= head'
      BY <1>1, <2>2, <3>1, Sizes
    <3>4. Top = 1 + Cardinality(Before(pbuff, start_line)) /\ Window!Lines = total
      BY <1>6, <3>2, FreshWindow
    <3>5. Top' = 1 + Cardinality(Before(pbuff, start_line'))
      BY <1>1, <1>6, <3>3, FreshWindowNext DEF Before
    <3>6. Cardinality(Before(pbuff, start_line)) \in Nat
      <4>1. start_line \in Nat
        BY <3>1, Sizes
      <4>2. QED
        BY <4>1, BeforeNext
    <3>7. m_lines \in Nat /\ keyboard \in BOOLEAN
      BY Counters DEF IInv, TypeOK
    <3>8. Window!Latest = total + 1 - m_lines
      <4>1. Window!Height = m_lines
        BY <3>1 DEF Window!Height, LinesFor
      <4>2. ~(total <= m_lines)
        BY <3>1, <3>7
      <4>3. QED
        BY <3>4, <4>1, <4>2 DEF Window!Latest
    <3>9. Top < Window!Latest /\ Top' = Top + 1
      BY <2>2, <3>1, <3>4, <3>5, <3>6, <3>7, <3>8
    <3>10. QED
      BY <1>1, <1>2, <1>3, <3>9 DEF Window!Down
  <2>3. QED
    BY <1>1, <1>6, <2>1, <2>2, DownPlaced
<1>7. QED
  BY <1>4, <1>5, <1>6

LEMMA KeyboardWindow ==
  ASSUME IInv, IInv', doing_keyboard
  PROVE  Window!ToggleKeyboard
<1> DEFINE n == LinesFor(keyboard')
<1>1. /\ keyboard' = ~keyboard
      /\ curr' = Wrapped(total - n + 1) /\ astray' = (total < n)
      /\ UNCHANGED <<pbuff, head, tail, total, tags, overflowed>>
  BY DEF doing_keyboard, text
<1>2. Text' = Text
  BY <1>1, SameText
<1>3. ASSUME ~overflowed', ~astray'
      PROVE  Top' = Window!Latest'
  <2>1. Placed'
    BY <1>3 DEF IInv
  <2>2. total \in Nat /\ n \in Nat
    <3>1. keyboard' \in BOOLEAN /\ total \in Nat
      BY Counters DEF IInv, TypeOK
    <3>2. QED
      BY <3>1, Heights
  <2> HIDE DEF n
  <2>3. ~(total < n)
    BY <1>1, <1>3
  <2>4. total' >= n /\ curr' = Wrapped(total' - n + 1)
    BY <1>1, <2>2, <2>3
  <2>5. QED
    BY <1>3, <2>1, <2>4, AtLatest DEF n
<1>4. QED
  BY <1>1, <1>2, <1>3 DEF Window!ToggleKeyboard, Window!Placed

(* What the terminal does to the window, by what its loop pushes. *)
WindowStep == \/ Window!Up
              \/ Window!Down
              \/ Window!ToggleKeyboard
              \/ Window!GoAstray
              \/ \E s \in Strings : Window!AppendLines(Lined(s))

LEMMA NextWindow ==
  IInv /\ IInv' /\ [Next]_vars => [WindowStep]_(Window!windowVars)
<1> SUFFICES ASSUME IInv, IInv', [Next]_vars
             PROVE  [WindowStep]_(Window!windowVars)
  OBVIOUS
<1>1. CASE UNCHANGED vars
  <2>1. /\ UNCHANGED <<pbuff, head, tail>> /\ UNCHANGED start_line
        /\ UNCHANGED <<keyboard, overflowed, astray>>
    BY <1>1 DEF vars, text, place, screen
  <2>2. QED
    BY <2>1, SameText DEF Window!windowVars
<1>2. ASSUME NEW s \in Strings, appendStr(s)
      PROVE  WindowStep
  BY <1>2, AppendWindow DEF WindowStep
<1>3. CASE painting
  <2>1. /\ UNCHANGED <<pbuff, head, tail>> /\ UNCHANGED start_line
        /\ UNCHANGED <<keyboard, overflowed, astray>>
    BY <1>3 DEF painting, text, place
  <2>2. QED
    BY <2>1, SameText DEF Window!windowVars
<1>4. CASE doing_up
  BY <1>4, UpWindow DEF WindowStep
<1>5. CASE doing_down
  BY <1>5, DownWindow DEF WindowStep
<1>6. CASE doing_keyboard
  BY <1>6, KeyboardWindow DEF WindowStep
<1>7. QED
  BY <1>1, <1>2, <1>3, <1>4, <1>5, <1>6 DEF Next

LEMMA InitWindow == Init => Window!Init
<1> SUFFICES ASSUME Init PROVE Window!Init
  OBVIOUS
<1>1. head - tail = 0 /\ start_line - tail = 0 /\ 0 \in 0..Size-1
  BY Sizes DEF Init
<1>2. Cell(head - tail) = 0 /\ Cell(start_line - tail) = 0
  BY <1>1, SameCell
<1>3. Text = <<>>
  BY <1>2 DEF Text
<1>4. Top = 1
  <2>1. {i \in 1..Cell(start_line - tail) : pbuff[Cell(tail + i - 1)] = NUL} = {}
    BY <1>2
  <2>2. QED
    BY <2>1, FS_EmptySet DEF Top
<1>5. QED
  BY <1>3, <1>4 DEF Init, Window!Init

(* Strings are broken into lines and kept in order, overflow drops whole   *)
(* oldest lines only, and the window follows the text or moves by one      *)
(* line: the lines are those that the loop of terminalTask_appendStr       *)
(* pushes.                                                                 *)
THEOREM ShowsWhatItPushes ==
  Spec => Window!Init /\ [][WindowStep]_(Window!windowVars)
<1>1. QED
  BY InitWindow, IInvHolds, NextWindow, PTL DEF Spec

(* And where that loop breaks its strings as LineWrap says, the terminal   *)
(* implements the window.                                                  *)
THEOREM ImplementsItsWindow ==
  ASSUME \A s \in Strings : Lined(s) = Wrapping!Wrap(s)
  PROVE  Spec => ImplementsWindow
<1>1. WindowStep => Window!Next
  <2> SUFFICES ASSUME NEW s \in Strings, Window!AppendLines(Lined(s))
               PROVE  \E new \in Appends : Window!AppendLines(new)
    BY DEF WindowStep, Window!Next
  <2>1. Lined(s) \in Appends
    BY DEF Appends
  <2>2. QED
    BY <2>1
<1>2. [WindowStep]_(Window!windowVars) => [Window!Next]_(Window!windowVars)
  BY <1>1
<1>3. QED
  BY <1>2, ShowsWhatItPushes, PTL DEF ImplementsWindow, Window!Spec
=============================================================================
