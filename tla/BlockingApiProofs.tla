------------------------- MODULE BlockingApiProofs -------------------------
(***************************************************************************)
(* Proofs about BlockingApi for all sizes of the buffers, of the chip's    *)
(* FIFO and of an unsigned word: TypeOK, InBuffer and FlushedWhole.        *)
(*                                                                         *)
(* The invariant counts in words what the code counts in bytes.  The       *)
(* pointer into the buffer is behind the words of the list, or NULL; the   *)
(* chip's write offset is as many words ahead of the read offset, on the   *)
(* circle of the FIFO, as are pending; and from the moment flush found     *)
(* both offsets equal, nothing is pending until it hands its list over.    *)
(***************************************************************************)
EXTENDS BlockingApi, Modulo, SequenceTheorems

Places == FifoSize \div 4    \* for words in the FIFO
Word   == 0..Stamps-1

BufferInv == \/ m_buffSize = 0 /\ m_pNextPtr = 0 /\ list = <<>>
             \/ /\ m_buffSize \in BuffSizes
                /\ m_pNextPtr = 3 + 4 * Len(list) /\ m_pNextPtr <= m_buffSize

(* The chip's FIFO f from the word r to the word w holds p. *)
Holds(f, r, w, p) == /\ p \in Seq(Word) /\ Len(p) < Places
                     /\ w = (r + Len(p)) % Places
                     /\ \A k \in 1..Len(p) : f[(r + k - 1) % Places] = p[k]

FifoInv == /\ rd % 4 = 0 /\ wr % 4 = 0
           /\ Holds(fifo, rd \div 4, wr \div 4, pending)

FlushInv ==
  /\ pc # "idle" => m_buffSize > 0
  /\ pc = "write" /\ cmd_rd_reg = wr => rd = wr
  /\ pc \in {"send", "tell"} => rd = wr /\ cmd_wr_reg = wr
  /\ pc = "tell" => \A k \in 1..Len(list) :
                      fifo[(wr \div 4 + k - 1) % Places] = list[k]

IInv == TypeOK /\ BufferInv /\ FifoInv /\ FlushInv

-----------------------------------------------------------------------------
(* The FIFO is a whole number of words. *)
LEMMA SizesAre == /\ Places \in Nat \ {0} /\ FifoSize = 4 * Places
                  /\ Stamps \in Nat \ {0} /\ UInt \in Nat \ {0}
                  /\ FifoSize <= UInt
                  /\ \A n \in BuffSizes : n \in 3..FifoSize+2
BY SizeAssumption DEF Places

(* A stamp is a word. *)
LEMMA Stamped == \A x \in Int : x % Stamps \in Word
BY SizesAre, Division DEF Word

(* A number in range is its own unsigned value. *)
LEMMA Unsigned == \A x \in 0..UInt-1 : U(x) = x
BY SizesAre, Small DEF U

(* Padding rounds up to the next word. *)
LEMMA PaddedUp == \A n \in Nat : /\ Padded(n) \in Nat /\ Padded(n) >= n
                                 /\ Padded(n) % 4 = 0
BY DEF Padded

(* A list in a buffer does not fill the FIFO. *)
LEMMA ListShort == ASSUME BufferInv, list \in Seq(Word)
                   PROVE  Len(list) \in 0..Places-1
<1>1. Len(list) \in Nat
  BY LenProperties
<1>2. CASE list = <<>>
  BY <1>2, SizesAre
<1>3. CASE /\ m_buffSize \in BuffSizes
           /\ m_pNextPtr = 3 + 4 * Len(list) /\ m_pNextPtr <= m_buffSize
  BY <1>1, <1>3, SizesAre
<1>4. QED
  BY <1>2, <1>3 DEF BufferInv

-----------------------------------------------------------------------------
(* n new stamps are a sequence of n words. *)
LEMMA NumbersAre ==
  ASSUME TypeOK, NEW n \in Nat
  PROVE  Numbers(n) \in Seq(Word) /\ Len(Numbers(n)) = n
<1>1. stamp \in Int /\ Len(list) \in Int
  <2>1. stamp \in 0..Stamps-1 /\ list \in Seq(Word)
    BY DEF TypeOK, Word
  <2>2. Len(list) \in Nat
    BY <2>1, LenProperties
  <2>3. QED
    BY <2>1, <2>2, SizesAre
<1>2. ASSUME NEW i \in 1..n
      PROVE  (stamp + Len(list) + i - 1) % Stamps \in Word
  <2>1. stamp + Len(list) + i - 1 \in Int
    BY <1>1
  <2>2. QED
    BY <2>1, Stamped
<1> DEFINE N == Numbers(n)
<1>3. N \in [1..n -> Word]
  BY <1>2 DEF Numbers
<1> HIDE DEF N
<1>4. N \in Seq(Word)
  BY <1>3, SeqDef
<1>5. Len(N) = n
  BY <1>3, <1>4, LenProperties
<1>6. QED
  BY <1>4, <1>5 DEF N

(* What there is room for stays in the buffer. *)
LEMMA PutKeeps ==
  ASSUME TypeOK, BufferInv, NEW n \in Nat, n % 4 = 0, UNCHANGED m_buffSize,
         n = 0 \/ (m_buffSize > 0 /\ m_pNextPtr + n <= m_buffSize), Put(n)
  PROVE  BufferInv' /\ list' \in Seq(Word)
<1> DEFINE N == Numbers(n \div 4)
<1>1. N \in Seq(Word) /\ Len(N) = n \div 4
  BY NumbersAre
<1>2. list' = list \o N /\ m_pNextPtr' = m_pNextPtr + n
  BY DEF Put
<1> HIDE DEF N
<1>3. list \in Seq(Word)
  BY DEF TypeOK, Word
<1>4. /\ list' \in Seq(Word) /\ Len(list') = Len(list) + (n \div 4)
      /\ Len(list) \in Nat
  BY <1>1, <1>2, <1>3, ConcatProperties, LenProperties
<1>5. CASE m_buffSize = 0 /\ m_pNextPtr = 0 /\ list = <<>>
  <2>1. n = 0
    BY <1>5
  <2>2. Len(list') = 0 /\ m_pNextPtr' = 0
    BY <1>2, <1>4, <1>5, <2>1
  <2>3. list' = <<>>
    BY <1>4, <2>2, EmptySeq
  <2>4. QED
    BY <1>4, <1>5, <2>2, <2>3 DEF BufferInv
<1>6. CASE /\ m_buffSize \in BuffSizes
           /\ m_pNextPtr = 3 + 4 * Len(list) /\ m_pNextPtr <= m_buffSize
  <2>1. m_buffSize \in Nat
    BY <1>6, SizesAre
  <2>2. /\ m_pNextPtr' = 3 + 4 * Len(list) + n
        /\ Len(list') = Len(list) + (n \div 4)
    BY <1>2, <1>4, <1>6
  <2>3. m_pNextPtr' = 3 + 4 * Len(list')
    BY <1>4, <2>2
  <2>4. m_pNextPtr' <= m_buffSize
    BY <1>2, <1>4, <1>6, <2>1
  <2>5. QED
    BY <1>4, <1>6, <2>3, <2>4 DEF BufferInv
<1>7. QED
  BY <1>5, <1>6 DEF BufferInv

(* The room that the differences of pointers tell. *)
LEMMA Differences ==
  ASSUME TypeOK, BufferInv
  PROVE  \/ /\ m_buffSize = 0 /\ used_space = UInt - 3
            /\ buff_cmd_size = UInt - 3 /\ UInt - 3 \in Nat
         \/ /\ m_buffSize > 0 /\ m_buffSize \in 3..UInt+2
            /\ m_pNextPtr \in 3..m_buffSize
            /\ used_space = m_pNextPtr - 3 /\ buff_cmd_size = m_buffSize - 3
            /\ used_space % 4 = 0
<1>1. CASE m_buffSize = 0 /\ m_pNextPtr = 0 /\ list = <<>>
  <2>1. UInt >= 4
    BY SizesAre
  <2>2. -3 = UInt * (-1) + (UInt - 3) /\ UInt - 3 \in 0..UInt-1
        /\ -3 \in Int /\ -1 \in Int
    BY <2>1, SizesAre
  <2> DEFINE d == -3
             e == -1
  <2>3. d \in Int /\ e \in Int /\ d = UInt * e + (UInt - 3)
    BY <2>2
  <2> HIDE DEF d, e
  <2>4. d % UInt = UInt - 3
    BY <2>2, <2>3, SizesAre, Remainder
  <2>5. m_pNextPtr - 3 = d /\ m_buffSize - 3 = d
    BY <1>1 DEF d
  <2>6. QED
    BY <1>1, <2>2, <2>4, <2>5 DEF used_space, buff_cmd_size, U
<1>2. CASE /\ m_buffSize \in BuffSizes
           /\ m_pNextPtr = 3 + 4 * Len(list) /\ m_pNextPtr <= m_buffSize
  <2>1. Len(list) \in Nat
    BY LenProperties DEF TypeOK
  <2>2. /\ m_buffSize \in 3..UInt+2 /\ m_pNextPtr \in 3..m_buffSize
    BY <1>2, <2>1, SizesAre
  <2>3. m_pNextPtr - 3 \in 0..UInt-1 /\ m_buffSize - 3 \in 0..UInt-1
    BY <2>2, SizesAre
  <2>4. used_space = m_pNextPtr - 3 /\ buff_cmd_size = m_buffSize - 3
    BY <2>3, Unsigned DEF used_space, buff_cmd_size
  <2>5. (m_pNextPtr - 3) % 4 = 0
    <3>1. m_pNextPtr - 3 = 4 * Len(list)
      BY <1>2, <2>1
    <3>2. QED
      BY <2>1, <3>1
  <2>6. QED
    BY <2>2, <2>4, <2>5
<1>3. QED
  BY <1>1, <1>2 DEF BufferInv

(* The position and size of the buffer are natural numbers. *)
LEMMA Pointers == ASSUME TypeOK, BufferInv
                  PROVE  m_pNextPtr \in Nat /\ m_buffSize \in Nat
<1>1. Len(list) \in Nat
  <2>1. list \in Seq(Word)
    BY DEF TypeOK, Word
  <2>2. QED
    BY <2>1, LenProperties
<1>2. CASE m_buffSize = 0 /\ m_pNextPtr = 0
  BY <1>2
<1>3. CASE m_buffSize \in BuffSizes /\ m_pNextPtr = 3 + 4 * Len(list)
  BY <1>1, <1>3, SizesAre
<1>4. QED
  BY <1>2, <1>3 DEF BufferInv

(* The words a call has still to append fit the buffer. *)
LEMMA WordsFit ==
  ASSUME TypeOK, BufferInv
  PROVE  /\ words_left \in Nat
         /\ words_left > 0 => /\ m_buffSize > 0
                              /\ m_pNextPtr + 4 * words_left <= m_buffSize
<1>1. CASE /\ m_buffSize = 0 /\ used_space = UInt - 3
           /\ buff_cmd_size = UInt - 3 /\ UInt - 3 \in Nat
  BY <1>1 DEF words_left
<1>2. CASE /\ m_buffSize > 0 /\ m_buffSize \in 3..UInt+2
           /\ m_pNextPtr \in 3..m_buffSize
           /\ used_space = m_pNextPtr - 3 /\ buff_cmd_size = m_buffSize - 3
           /\ used_space % 4 = 0
  <2> DEFINE u == used_space
             s == buff_cmd_size
  <2>1. /\ u \in Nat /\ s \in Nat /\ u <= s /\ u % 4 = 0
        /\ m_pNextPtr = u + 3 /\ m_buffSize = s + 3
    BY <1>2, SizesAre
  <2>2. words_left = IF u \div 4 < s \div 4 THEN s \div 4 - u \div 4 ELSE 0
    BY DEF words_left
  <2> HIDE DEF u, s
  <2>3. /\ words_left \in Nat
        /\ words_left > 0 => u + 4 * words_left <= s
    BY <2>1, <2>2
  <2>4. QED
    BY <1>2, <2>1, <2>3
<1>3. QED
  BY <1>1, <1>2, Differences

(* A string fits behind the words that fit. *)
LEMMA StringFits ==
  ASSUME TypeOK, BufferInv, NEW len \in 1..UInt-4, NEW w \in Nat,
         w = 0 \/ (m_buffSize > 0 /\ m_pNextPtr + 4 * w <= m_buffSize),
         StrFits(len, U(used_space + 4 * w))
  PROVE  m_buffSize > 0 /\ m_pNextPtr + 4 * w + Padded(len) <= m_buffSize
<1>1. Padded(len) \in Nat /\ Padded(len) > 0
  BY PaddedUp, SizesAre
<1>2. CASE /\ m_buffSize = 0 /\ used_space = UInt - 3
           /\ buff_cmd_size = UInt - 3 /\ UInt - 3 \in Nat
  <2>1. w = 0 /\ used_space + 4 * w = UInt - 3 /\ UInt - 3 \in 0..UInt-1
    BY <1>2, SizesAre
  <2>2. U(used_space + 4 * w) = UInt - 3
    BY <2>1, Unsigned
  <2>3. buff_cmd_size - (UInt - 3) = 0 /\ 0 \in 0..UInt-1
    BY <1>2, SizesAre
  <2>4. Padded(len) <= 0
    BY <2>2, <2>3, Unsigned DEF StrFits
  <2>5. QED
    BY <1>1, <2>4
<1>3. CASE /\ m_buffSize > 0 /\ m_buffSize \in 3..UInt+2
           /\ m_pNextPtr \in 3..m_buffSize
           /\ used_space = m_pNextPtr - 3 /\ buff_cmd_size = m_buffSize - 3
           /\ used_space % 4 = 0
  <2>1. used_space + 4 * w \in 0..UInt-1
    BY <1>3, SizesAre
  <2>2. U(used_space + 4 * w) = used_space + 4 * w
    BY <2>1, Unsigned
  <2>3. buff_cmd_size - (used_space + 4 * w) \in 0..UInt-1
    BY <1>3, SizesAre
  <2>4. Padded(len) <= buff_cmd_size - (used_space + 4 * w)
    BY <2>2, <2>3, Unsigned DEF StrFits
  <2>5. QED
    BY <1>1, <1>3, <2>4
<1>4. QED
  BY <1>2, <1>3, Differences

-----------------------------------------------------------------------------
(* The empty buffer. *)
LEMMA Initial == Init => IInv
<1> SUFFICES ASSUME Init PROVE IInv
  OBVIOUS
<1>1. 0 \in 0..FifoSize-1 /\ 0 \in Word /\ 0 \in 0..Places-1
  BY SizesAre DEF Word
<1>2. TypeOK
  <2>1. <<>> \in Seq(0..Stamps-1)
    OBVIOUS
  <2>2. {cmd_rd_reg, cmd_wr_reg, rd, wr} \subseteq 0..FifoSize-1
    BY <1>1 DEF Init
  <2>3. fifo \in [Cells -> 0..Stamps-1]
    BY <1>1 DEF Init, Word
  <2>4. QED
    BY <1>1, <2>1, <2>2, <2>3 DEF Init, TypeOK, Word
<1>3. BufferInv
  BY DEF Init, BufferInv
<1>4. FifoInv
  <2>1. rd = 0 /\ wr = 0 /\ pending = <<>> /\ 0 \div 4 = 0 /\ 0 % 4 = 0
    BY DEF Init
  <2>2. <<>> \in Seq(Word) /\ Len(<<>>) = 0 /\ 0 < Places /\ 0 + 0 = 0
    BY SizesAre
  <2>3. (0 + Len(<<>>)) % Places = 0
    BY <1>1, <2>2, Small, SizesAre
  <2>4. QED
    BY <2>1, <2>2, <2>3 DEF FifoInv, Holds
<1>5. FlushInv
  BY DEF Init, FlushInv
<1>6. QED
  BY <1>2, <1>3, <1>4, <1>5 DEF IInv

(* A call of the client's, between two flushes. *)
LEMMA ClientKeeps ==
  ASSUME IInv, pc = "idle", UNCHANGED <<flush, chip>>,
         BufferInv', list' \in Seq(Word), m_buffSize' \in BuffSizes \cup {0},
         result' \in {"done", "no place", "empty", "no buffer"},
         dlSize' \in DlSizes \cup {0}
  PROVE  IInv'
<1>1. UNCHANGED <<pc, cmd_rd_reg, cmd_wr_reg, fifo, rd, wr, pending, stamp>>
  BY DEF flush, chip
<1>2. TypeOK'
  <2>1. {cmd_rd_reg', cmd_wr_reg', rd', wr'} \subseteq 0..FifoSize-1
    BY <1>1 DEF IInv, TypeOK
  <2>2. QED
    BY <1>1, <2>1 DEF IInv, TypeOK, Word
<1>3. FifoInv'
  BY <1>1 DEF IInv, FifoInv, Holds
<1>4. FlushInv'
  BY <1>1 DEF FlushInv
<1>5. QED
  BY <1>2, <1>3, <1>4 DEF IInv

LEMMA PrepareKeeps ==
  ASSUME IInv, NEW size \in BuffSizes \cup {0}, prepare(size)
  PROVE  IInv'
<1>1. /\ pc = "idle" /\ m_pNextPtr' = 3 /\ list' = <<>>
      /\ UNCHANGED <<flush, chip, result, dl>>
      /\ size > 0 \/ m_buffSize > 0
      /\ m_buffSize' = IF size > 0 THEN size ELSE m_buffSize
  BY DEF prepare
<1>2. m_buffSize' \in BuffSizes /\ m_buffSize' \in 3..FifoSize+2
  <2>1. m_buffSize \in BuffSizes \cup {0}
    BY DEF IInv, TypeOK
  <2>2. m_buffSize' \in BuffSizes
    BY <1>1, <2>1
  <2>3. QED
    BY <2>2, SizesAre
<1>3. list' \in Seq(Word) /\ Len(list') = 0
  BY <1>1
<1>4. BufferInv'
  BY <1>1, <1>2, <1>3, SizesAre DEF BufferInv
<1>5. /\ result' \in {"done", "no place", "empty", "no buffer"}
      /\ dlSize' \in DlSizes \cup {0}
  BY <1>1 DEF IInv, TypeOK, dl
<1>6. m_buffSize' \in BuffSizes \cup {0} /\ UNCHANGED <<flush, chip>>
  BY <1>1, <1>2
<1>7. QED
  BY <1>1, <1>3, <1>4, <1>5, <1>6, ClientKeeps

LEMMA AnswerKeeps ==
  ASSUME IInv, NEW n \in Nat, n % 4 = 0, NEW room,
         room => m_buffSize > 0 /\ m_pNextPtr + n <= m_buffSize,
         Answer(n, room)
  PROVE  IInv'
<1>1. /\ pc = "idle" /\ UNCHANGED <<m_buffSize, flush, chip, dl>>
      /\ UNCHANGED <<flush, chip>>
  BY DEF Answer
<1>2. BufferInv' /\ list' \in Seq(Word)
  <2>1. CASE room
    <3>1. Put(n)
      BY <2>1 DEF Answer
    <3>2. TypeOK /\ BufferInv /\ UNCHANGED m_buffSize
      BY <1>1 DEF IInv
    <3>3. QED
      BY <2>1, <3>1, <3>2, PutKeeps
  <2>2. CASE ~room
    BY <1>1, <2>2 DEF Answer, IInv, BufferInv, TypeOK, Word
  <2>3. QED
    BY <2>1, <2>2
<1>3. result' \in {"done", "no place", "empty", "no buffer"}
  BY DEF Answer
<1>4. m_buffSize' \in BuffSizes \cup {0} /\ dlSize' \in DlSizes \cup {0}
  BY <1>1 DEF IInv, TypeOK, dl
<1>5. QED
  BY <1>1, <1>2, <1>3, <1>4, ClientKeeps

LEMMA AppendKeeps == ASSUME IInv, append PROVE IInv'
<1>1. 4 \in Nat /\ 4 % 4 = 0
  OBVIOUS
<1>2. words_left > 0 => m_buffSize > 0 /\ m_pNextPtr + 4 <= m_buffSize
  <2> SUFFICES ASSUME words_left > 0
               PROVE  m_buffSize > 0 /\ m_pNextPtr + 4 <= m_buffSize
    OBVIOUS
  <2>1. /\ words_left \in Nat /\ m_buffSize > 0
        /\ m_pNextPtr + 4 * words_left <= m_buffSize
    BY WordsFit DEF IInv
  <2>2. m_pNextPtr \in Int /\ m_buffSize \in Int
    BY Differences, SizesAre, <2>1 DEF IInv
  <2> DEFINE w == words_left
  <2>3. w \in Nat /\ w > 0 /\ m_pNextPtr + 4 * w <= m_buffSize
    BY <2>1
  <2> HIDE DEF w
  <2>4. m_pNextPtr + 4 <= m_buffSize
    BY <2>2, <2>3
  <2>5. QED
    BY <2>1, <2>4
<1>3. Answer(4, words_left > 0)
  BY DEF append
<1>4. QED
  BY <1>1, <1>2, <1>3, AnswerKeeps

LEMMA AppendStrKeeps ==
  ASSUME IInv, NEW len \in StrLens, append_str(len)
  PROVE  IInv'
<1>1. len \in 1..UInt-4 /\ len \in Nat
  BY SizeAssumption
<1>2. Padded(len) \in Nat /\ Padded(len) % 4 = 0
  BY <1>1, PaddedUp
<1>3. StrFits(len, used_space) =>
        m_buffSize > 0 /\ m_pNextPtr + Padded(len) <= m_buffSize
  <2> SUFFICES ASSUME StrFits(len, used_space)
               PROVE  m_buffSize > 0 /\ m_pNextPtr + Padded(len) <= m_buffSize
    OBVIOUS
  <2>1. used_space \in 0..UInt-1
    BY Differences, SizesAre DEF IInv
  <2>2. used_space + 4 * 0 = used_space /\ 0 \in Nat
    BY <2>1
  <2>3. U(used_space + 4 * 0) = used_space
    BY <2>1, <2>2, Unsigned
  <2> TypeOK /\ BufferInv
    BY DEF IInv
  <2>4. ASSUME NEW w \in Nat, w = 0, U(used_space + 4 * w) = used_space
        PROVE  m_buffSize > 0 /\ m_pNextPtr + 4 * w + Padded(len) <= m_buffSize
    <3>1. StrFits(len, U(used_space + 4 * w))
      BY <2>4
    <3>2. QED
      BY <1>1, <2>4, <3>1, StringFits
  <2>5. m_buffSize > 0 /\ m_pNextPtr + 4 * 0 + Padded(len) <= m_buffSize
    BY <2>2, <2>3, <2>4
  <2>6. m_pNextPtr \in Int
    BY Differences, <2>5, SizesAre DEF IInv
  <2>7. QED
    BY <1>2, <2>5, <2>6
<1>4. Answer(Padded(len), StrFits(len, used_space))
  BY DEF append_str
<1>5. QED
  BY <1>2, <1>3, <1>4, AnswerKeeps

LEMMA WidgetKeeps ==
  ASSUME IInv, NEW n \in 2..4, NEW len \in StrLens \cup {0}, widget(n, len)
  PROVE  IInv'
<1> DEFINE words == IF n < words_left THEN n ELSE words_left
           str == IF len > 0 /\ StrFits(len, U(used_space + 4 * words))
                  THEN Padded(len) ELSE 0
<1>1. /\ pc = "idle" /\ Put(4 * words + str)
      /\ UNCHANGED <<m_buffSize, flush, chip, result, dl>>
      /\ UNCHANGED <<flush, chip>>
  BY DEF widget
<1> HIDE DEF words, str
<1>2. /\ words \in Nat
      /\ words = 0 \/ (m_buffSize > 0 /\ m_pNextPtr + 4 * words <= m_buffSize)
  <2>1. /\ words_left \in Nat
        /\ words_left > 0 => /\ m_buffSize > 0
                             /\ m_pNextPtr + 4 * words_left <= m_buffSize
    BY WordsFit DEF IInv
  <2>2. m_pNextPtr \in Int /\ m_buffSize \in Int
    BY Pointers DEF IInv
  <2> DEFINE w == words_left
  <2>3. /\ w \in Nat
        /\ w > 0 => m_buffSize > 0 /\ m_pNextPtr + 4 * w <= m_buffSize
        /\ words = IF n < w THEN n ELSE w
    BY <2>1 DEF words
  <2> HIDE DEF w
  <2>4. words \in Nat /\ words <= w
    BY <2>3
  <2>5. QED
    BY <2>2, <2>3, <2>4
<1>3. /\ str \in Nat /\ str % 4 = 0
      /\ \/ str = 0
         \/ m_buffSize > 0 /\ m_pNextPtr + 4 * words + str <= m_buffSize
  <2>1. CASE len > 0 /\ StrFits(len, U(used_space + 4 * words))
    <3>1. len \in 1..UInt-4 /\ len \in Nat /\ str = Padded(len)
      BY <2>1, SizeAssumption DEF str
    <3>2. m_buffSize > 0 /\ m_pNextPtr + 4 * words + Padded(len) <= m_buffSize
      BY <1>2, <2>1, <3>1, StringFits DEF IInv
    <3>3. QED
      BY <3>1, <3>2, PaddedUp
  <2>2. CASE ~(len > 0 /\ StrFits(len, U(used_space + 4 * words)))
    <3>1. str = 0
      BY <2>2, Zenon DEF str
    <3>2. QED
      BY <3>1
  <2>3. QED
    BY <2>1, <2>2
<1>4. BufferInv' /\ list' \in Seq(Word)
  <2> DEFINE k == 4 * words + str
  <2>1. k \in Nat /\ k % 4 = 0
    BY <1>2, <1>3
  <2>2. k = 0 \/ (m_buffSize > 0 /\ m_pNextPtr + k <= m_buffSize)
    <3>1. m_pNextPtr \in Int
      BY Pointers DEF IInv
    <3>2. CASE str = 0
      BY <1>2, <3>1, <3>2
    <3>3. CASE str # 0
      BY <1>2, <1>3, <3>1, <3>3
    <3>4. QED
      BY <3>2, <3>3
  <2>3. TypeOK /\ BufferInv /\ UNCHANGED m_buffSize /\ Put(k)
    BY <1>1 DEF IInv
  <2> HIDE DEF k
  <2>4. QED
    BY <2>1, <2>2, <2>3, PutKeeps
<1>5. /\ result' \in {"done", "no place", "empty", "no buffer"}
      /\ m_buffSize' \in BuffSizes \cup {0} /\ dlSize' \in DlSizes \cup {0}
  BY <1>1 DEF IInv, TypeOK, dl
<1>6. QED
  BY <1>1, <1>4, <1>5, ClientKeeps

LEMMA DlKeeps ==
  ASSUME IInv,
         \/ \E size \in DlSizes \cup {0} : dl_prepare(size)
         \/ dl_append
         \/ dl_flush
  PROVE  IInv'
<1>1. /\ pc = "idle" /\ UNCHANGED <<cmd, flush, chip>>
      /\ UNCHANGED <<flush, chip>>
      /\ dlSize' \in DlSizes \cup {0}
      /\ result' \in {"done", "no place", "empty", "no buffer"}
  BY DEF IInv, TypeOK, dl_prepare, dl_append, dl_flush, dl
<1>2. UNCHANGED <<m_buffSize, m_pNextPtr, list>>
  BY <1>1 DEF cmd
<1>3. /\ BufferInv' /\ list' \in Seq(Word)
      /\ m_buffSize' \in BuffSizes \cup {0}
  BY <1>2 DEF IInv, TypeOK, BufferInv, Word
<1>4. QED
  BY <1>1, <1>3, ClientKeeps

-----------------------------------------------------------------------------
(* The chip's offsets in words. *)
LEMMA InWords ==
  ASSUME NEW x \in 0..FifoSize-1, x % 4 = 0
  PROVE  x = 4 * (x \div 4) /\ x \div 4 \in 0..Places-1
BY SizesAre

(* As many words are pending as the offsets are apart. *)
LEMMA Distance ==
  ASSUME NEW f, NEW r \in 0..Places-1, NEW w \in 0..Places-1, NEW p,
         Holds(f, r, w, p)
  PROVE  Len(p) \in 0..Places-1 /\ Len(p) = (w - r) % Places
<1>1. p \in Seq(Word) /\ Len(p) < Places /\ w = (r + Len(p)) % Places
  BY DEF Holds
<1> DEFINE l == Len(p)
<1>2. l \in 0..Places-1
  BY <1>1, LenProperties, SizesAre
<1> HIDE DEF l
<1>3. (((r + l) % Places) - r) % Places = l
  BY <1>2, Ahead, SizesAre
<1>4. QED
  BY <1>1, <1>2, <1>3 DEF l

(* The pointers are multiples of 4, and what waits there is words. *)
LEMMA NonePending ==
  ASSUME IInv
  PROVE  /\ rd \div 4 \in 0..Places-1 /\ wr \div 4 \in 0..Places-1
         /\ rd = 4 * (rd \div 4) /\ wr = 4 * (wr \div 4)
         /\ Len(pending) \in 0..Places-1 /\ pending \in Seq(Word)
         /\ rd = wr <=> pending = <<>>
<1>1. rd \in 0..FifoSize-1 /\ wr \in 0..FifoSize-1
  BY DEF IInv, TypeOK
<1>2. rd % 4 = 0 /\ wr % 4 = 0
  BY DEF IInv, FifoInv
<1>3. /\ rd \div 4 \in 0..Places-1 /\ wr \div 4 \in 0..Places-1
      /\ rd = 4 * (rd \div 4) /\ wr = 4 * (wr \div 4)
  BY <1>1, <1>2, InWords
<1> DEFINE r == rd \div 4
           w == wr \div 4
<1>4. Holds(fifo, r, w, pending) /\ r \in 0..Places-1 /\ w \in 0..Places-1
  BY <1>3 DEF IInv, FifoInv
<1>5. rd = wr <=> r = w
  BY <1>3
<1> HIDE DEF r, w
<1>6. Len(pending) \in 0..Places-1 /\ Len(pending) = (w - r) % Places
  BY <1>4, Distance
<1>7. pending \in Seq(Word) /\ w = (r + Len(pending)) % Places
  BY <1>4 DEF Holds
<1>8. r = w => Len(pending) = 0
  <2> SUFFICES ASSUME r = w PROVE Len(pending) = 0
    OBVIOUS
  <2>1. w - r = 0 /\ 0 \in 0..Places-1
    BY <1>4, SizesAre
  <2>2. QED
    BY <1>6, <2>1, Small, SizesAre
<1>9. Len(pending) = 0 => r = w
  <2> SUFFICES ASSUME Len(pending) = 0 PROVE r = w
    OBVIOUS
  <2>1. r + Len(pending) = r
    BY <1>4
  <2>2. QED
    BY <1>4, <1>7, <2>1, Small, SizesAre
<1>10. Len(pending) = 0 <=> pending = <<>>
  BY <1>7, EmptySeq, LenProperties
<1>11. QED
  BY <1>3, <1>5, <1>6, <1>7, <1>8, <1>9, <1>10

LEMMA FlushCallKeeps == ASSUME IInv, flush_call PROVE IInv'
<1>1. /\ UNCHANGED <<cmd, cmd_rd_reg, cmd_wr_reg, chip, dl>> /\ pc = "idle"
      /\ \/ pc' = "idle"
         \/ pc' = "read" /\ m_buffSize # 0
      /\ result' \in {"done", "no place", "empty", "no buffer"}
  BY DEF flush_call, IInv, TypeOK
<1>2. UNCHANGED <<m_buffSize, m_pNextPtr, list, fifo, rd, wr, pending, stamp,
                  dlSize>>
  BY <1>1 DEF cmd, chip, dl
<1>3. TypeOK'
  <2>1. {cmd_rd_reg', cmd_wr_reg', rd', wr'} \subseteq 0..FifoSize-1
    BY <1>1, <1>2 DEF IInv, TypeOK
  <2>2. QED
    BY <1>1, <1>2, <2>1 DEF IInv, TypeOK
<1>4. BufferInv' /\ FifoInv'
  BY <1>2 DEF IInv, BufferInv, FifoInv, Holds
<1>5. FlushInv'
  <2>1. m_buffSize # 0 => m_buffSize > 0
    BY Pointers DEF IInv
  <2>2. QED
    BY <1>1, <1>2, <2>1 DEF FlushInv
<1>6. QED
  BY <1>3, <1>4, <1>5 DEF IInv

LEMMA FlushReadKeeps == ASSUME IInv, flush_read PROVE IInv'
<1>1. /\ cmd_rd_reg' = rd /\ pc = "read" /\ pc' = "write"
      /\ UNCHANGED <<m_buffSize, m_pNextPtr, list, fifo, rd, wr, pending,
                     stamp, dlSize, cmd_wr_reg, result>>
  BY DEF flush_read, cmd, chip, dl
<1>2. TypeOK'
  <2>1. {cmd_rd_reg', cmd_wr_reg', rd', wr'} \subseteq 0..FifoSize-1
    BY <1>1 DEF IInv, TypeOK
  <2>2. QED
    BY <1>1, <2>1 DEF IInv, TypeOK
<1>3. BufferInv' /\ FifoInv'
  BY <1>1 DEF IInv, BufferInv, FifoInv, Holds
<1>4. FlushInv'
  BY <1>1 DEF IInv, FlushInv
<1>5. QED
  BY <1>2, <1>3, <1>4 DEF IInv

LEMMA FlushWriteKeeps == ASSUME IInv, flush_write PROVE IInv'
<1>1. /\ cmd_wr_reg' = wr /\ pc = "write"
      /\ pc' = IF wr = cmd_rd_reg THEN "send" ELSE "read"
      /\ UNCHANGED <<m_buffSize, m_pNextPtr, list, fifo, rd, wr, pending,
                     stamp, dlSize, cmd_rd_reg, result>>
  BY DEF flush_write, cmd, chip, dl
<1>2. TypeOK'
  <2>1. {cmd_rd_reg', cmd_wr_reg', rd', wr'} \subseteq 0..FifoSize-1
    BY <1>1 DEF IInv, TypeOK
  <2>2. QED
    BY <1>1, <2>1 DEF IInv, TypeOK
<1>3. BufferInv' /\ FifoInv'
  BY <1>1 DEF IInv, BufferInv, FifoInv, Holds
<1>4. FlushInv'
  BY <1>1 DEF IInv, FlushInv
<1>5. QED
  BY <1>2, <1>3, <1>4 DEF IInv

LEMMA FlushSendKeeps == ASSUME IInv, flush_send PROVE IInv'
<1> DEFINE K(i) == (i - (cmd_wr_reg \div 4)) % Places
<1>1. /\ pc = "send" /\ pc' = "tell"
      /\ fifo' = [i \in Cells |->
                    IF K(i) < Len(list) THEN list[K(i) + 1] ELSE fifo[i]]
      /\ UNCHANGED <<m_buffSize, m_pNextPtr, list, rd, wr, pending, stamp,
                     dlSize, cmd_rd_reg, cmd_wr_reg, result>>
  BY DEF flush_send, cmd, dl, Places
<1>2. rd = wr /\ cmd_wr_reg = wr /\ m_buffSize > 0
  BY <1>1 DEF IInv, FlushInv
<1>3. list \in Seq(Word) /\ Len(list) \in 0..Places-1
  BY ListShort DEF IInv, TypeOK, Word
<1>4. pending = <<>> /\ wr \div 4 \in 0..Places-1
  BY <1>2, NonePending
<1>5. fifo' \in [Cells -> Word]
  <2> SUFFICES ASSUME NEW i \in Cells, K(i) < Len(list)
               PROVE  list[K(i) + 1] \in Word
    BY <1>1 DEF IInv, TypeOK, Word
  <2>1. i - (cmd_wr_reg \div 4) \in Int
    BY <1>2, <1>4, SizesAre DEF Cells
  <2>2. K(i) \in 0..Places-1
    BY <2>1, Division, SizesAre
  <2> HIDE DEF K
  <2>3. K(i) + 1 \in 1..Len(list)
    BY <1>3, <2>2
  <2>4. QED
    BY <1>3, <2>3, ElementOfSeq
<1>6. TypeOK'
  <2>1. {cmd_rd_reg', cmd_wr_reg', rd', wr'} \subseteq 0..FifoSize-1
    BY <1>1 DEF IInv, TypeOK
  <2> HIDE DEF K
  <2>2. QED
    BY <1>1, <1>5, <2>1 DEF IInv, TypeOK, Word
<1>7. BufferInv'
  BY <1>1 DEF IInv, BufferInv
<1>8. FifoInv'
  <2>1. Len(pending) = 0
    BY <1>4
  <2>2. QED
    BY <1>1, <2>1 DEF IInv, FifoInv, Holds
<1>9. ASSUME NEW k \in 1..Len(list)
      PROVE  fifo'[((wr \div 4) + k - 1) % Places] = list[k]
  <2> DEFINE t == wr \div 4
             l == k - 1
             c == (t + l) % Places
  <2>1. /\ t \in 0..Places-1 /\ l \in 0..Places-1
        /\ l < Len(list) /\ t + l \in Int
    BY <1>3, <1>4, SizesAre
  <2>2. (wr \div 4) + k - 1 = t + l
    BY <2>1
  <2> HIDE DEF t, l
  <2>3. c \in 0..Places-1
    BY <2>1, Division, SizesAre
  <2>4. (((t + l) % Places) - t) % Places = l
    BY <2>1, Ahead, SizesAre
  <2>5. K(c) = l /\ c \in Cells
    BY <1>2, <2>3, <2>4, SizesAre DEF t, Cells, Places
  <2> HIDE DEF c, K
  <2>6. fifo'[c] = list[l + 1]
    BY <1>1, <2>1, <2>5
  <2>7. l + 1 = k
    BY DEF l
  <2>8. QED
    BY <2>2, <2>6, <2>7 DEF c
<1>10. FlushInv'
  BY <1>1, <1>2, <1>9 DEF FlushInv
<1>11. QED
  BY <1>6, <1>7, <1>8, <1>10 DEF IInv

LEMMA FlushTellKeeps == ASSUME IInv, flush_tell PROVE IInv'
<1> DEFINE w == wr \div 4
           L == Len(list)
<1>1. /\ pc = "tell" /\ pc' = "idle" /\ m_pNextPtr' = 3 /\ list' = <<>>
      /\ wr' = (cmd_wr_reg + (m_pNextPtr - 3)) % FifoSize
      /\ pending' = pending \o list /\ stamp' = (stamp + L) % Stamps
      /\ result' = "done"
      /\ UNCHANGED <<m_buffSize, cmd_rd_reg, cmd_wr_reg, fifo, rd, dlSize>>
  BY DEF flush_tell, dl
<1>2. /\ rd = wr /\ cmd_wr_reg = wr /\ m_buffSize > 0
      /\ \A k \in 1..L : fifo[(w + k - 1) % Places] = list[k]
  BY <1>1 DEF IInv, FlushInv
<1>3. list \in Seq(Word) /\ L \in 0..Places-1
  BY ListShort DEF IInv, TypeOK, Word
<1>4. pending = <<>> /\ w \in 0..Places-1 /\ wr = 4 * w
  BY <1>2, NonePending
<1>5. m_buffSize \in BuffSizes /\ m_pNextPtr = 3 + 4 * L
  BY <1>2 DEF IInv, BufferInv
<1> HIDE DEF L, w
<1>6. (w + L) % Places \in 0..Places-1
  <2>1. w + L \in Int
    BY <1>3, <1>4, SizesAre
  <2>2. QED
    BY <2>1, Division, SizesAre
<1>7. wr' = 4 * ((w + L) % Places)
  <2>1. cmd_wr_reg + (m_pNextPtr - 3) = 4 * (w + L) /\ w + L \in Int
    BY <1>2, <1>3, <1>4, <1>5, SizesAre
  <2>2. wr' = (4 * (w + L)) % (4 * Places)
    BY <1>1, <2>1, SizesAre
  <2>3. QED
    BY <2>1, <2>2, Fourfold, SizesAre
<1> DEFINE n == (w + L) % Places
<1>8. n \in 0..Places-1 /\ wr' = 4 * n
  BY <1>6, <1>7
<1> HIDE DEF n
<1>9. wr' \in 0..FifoSize-1 /\ wr' % 4 = 0 /\ wr' \div 4 = n
  BY <1>8, SizesAre
<1>10. pending' = list
  BY <1>1, <1>3, <1>4, ConcatEmptySeq
<1>11. TypeOK'
  <2>1. {cmd_rd_reg', cmd_wr_reg', rd', wr'} \subseteq 0..FifoSize-1
    BY <1>1, <1>9 DEF IInv, TypeOK
  <2>2. stamp' \in Word
    <3>1. stamp + L \in Int
      <4>1. stamp \in Word
        BY DEF IInv, TypeOK, Word
      <4>2. QED
        BY <1>3, <4>1, SizesAre DEF Word
    <3>2. QED
      BY <1>1, <3>1, Stamped
  <2>3. list' \in Seq(0..Stamps-1)
    BY <1>1
  <2>4. QED
    BY <1>1, <2>1, <2>2, <2>3 DEF IInv, TypeOK, Word
<1>12. BufferInv'
  <2>1. Len(list') = 0 /\ m_buffSize \in Nat /\ m_buffSize >= 3
    BY <1>1, <1>5, SizesAre
  <2>2. QED
    BY <1>1, <1>5, <2>1 DEF BufferInv
<1>13. FifoInv'
  <2>1. rd' \div 4 = w /\ rd' % 4 = 0
    BY <1>1, <1>2 DEF w, IInv, FifoInv
  <2>2. Holds(fifo, w, n, list)
    <3>1. n = (w + Len(list)) % Places /\ Len(list) < Places
      BY <1>3, SizesAre DEF n, L
    <3>2. \A k \in 1..Len(list) : fifo[(w + k - 1) % Places] = list[k]
      BY <1>2 DEF L
    <3>3. QED
      BY <1>3, <3>1, <3>2 DEF Holds
  <2>3. QED
    BY <1>1, <1>9, <1>10, <2>1, <2>2 DEF FifoInv
<1>14. FlushInv'
  BY <1>1 DEF FlushInv
<1>15. QED
  BY <1>11, <1>12, <1>13, <1>14 DEF IInv

LEMMA ExecuteKeeps == ASSUME IInv, Execute PROVE IInv'
<1> DEFINE r == rd \div 4
           w == wr \div 4
           q == Tail(pending)
           n == (r + 1) % Places
<1>1. /\ rd # wr /\ rd' = (rd + 4) % FifoSize /\ pending' = q
      /\ UNCHANGED <<m_buffSize, m_pNextPtr, list, pc, cmd_rd_reg, cmd_wr_reg,
                     fifo, wr, stamp, result, dlSize>>
  BY DEF Execute, cmd, flush, dl
<1>2. /\ r \in 0..Places-1 /\ w \in 0..Places-1 /\ rd = 4 * r
      /\ pending \in Seq(Word) /\ Len(pending) \in 0..Places-1
      /\ pending # <<>>
  BY <1>1, NonePending
<1>3. /\ w = (r + Len(pending)) % Places
      /\ \A k \in 1..Len(pending) : fifo[(r + k - 1) % Places] = pending[k]
  BY DEF IInv, FifoInv, Holds
<1>4. /\ q \in Seq(Word) /\ Len(q) = Len(pending) - 1
      /\ \A k \in 1..Len(q) : q[k] = pending[k + 1]
  BY <1>2, HeadTailProperties
<1> HIDE DEF q, r, w
<1>5. n \in 0..Places-1
  <2>1. r + 1 \in Int
    BY <1>2, SizesAre
  <2>2. QED
    BY <2>1, Division, SizesAre
<1>6. \A k \in Int : (n + k) % Places = (r + 1 + k) % Places
  <2> DEFINE x == r + 1
  <2>1. x \in Int
    BY <1>2, SizesAre
  <2> HIDE DEF x
  <2>2. \A k \in Int : ((x % Places) + k) % Places = (x + k) % Places
    BY <2>1, ReducedSame, SizesAre
  <2>3. QED
    BY <2>2 DEF x
<1>7. rd' = 4 * n
  <2>1. rd + 4 = 4 * (r + 1) /\ r + 1 \in Int
    BY <1>2, SizesAre
  <2>2. rd' = (4 * (r + 1)) % (4 * Places)
    BY <1>1, <2>1, SizesAre
  <2>3. QED
    BY <2>1, <2>2, Fourfold, SizesAre
<1> HIDE DEF n
<1>8. rd' \in 0..FifoSize-1 /\ rd' % 4 = 0 /\ rd' \div 4 = n
  BY <1>5, <1>7, SizesAre
<1>9. TypeOK'
  <2>1. {cmd_rd_reg', cmd_wr_reg', rd', wr'} \subseteq 0..FifoSize-1
    BY <1>1, <1>8 DEF IInv, TypeOK
  <2>2. QED
    BY <1>1, <2>1 DEF IInv, TypeOK
<1>10. BufferInv'
  BY <1>1 DEF IInv, BufferInv
<1>11. FifoInv'
  <2>1. Len(q) < Places /\ Len(q) \in Int /\ Len(pending) >= 1
    BY <1>2, <1>4, SizesAre, LenProperties
  <2>2. w = (n + Len(q)) % Places
    <3>1. (n + Len(q)) % Places = (r + 1 + Len(q)) % Places
      BY <1>6, <2>1
    <3>2. r + 1 + Len(q) = r + Len(pending)
      BY <1>2, <1>4, <2>1
    <3>3. QED
      BY <1>3, <3>1, <3>2
  <2>3. ASSUME NEW k \in 1..Len(q)
        PROVE  fifo[(n + k - 1) % Places] = q[k]
    <3>1. k + 1 \in 1..Len(pending) /\ k - 1 \in Int
      BY <1>2, <1>4
    <3>2. fifo[(r + (k + 1) - 1) % Places] = pending[k + 1]
      BY <1>3, <3>1
    <3>3. (n + (k - 1)) % Places = (r + 1 + (k - 1)) % Places
      BY <1>6, <3>1
    <3>4. /\ n + k - 1 = n + (k - 1)
          /\ r + 1 + (k - 1) = r + (k + 1) - 1
      BY <1>2, <1>5, <3>1
    <3>5. QED
      BY <1>4, <3>2, <3>3, <3>4
  <2>4. Holds(fifo, n, w, q)
    BY <1>4, <2>1, <2>2, <2>3 DEF Holds
  <2>5. wr' % 4 = 0 /\ wr' \div 4 = w
    BY <1>1 DEF w, IInv, FifoInv
  <2>6. QED
    BY <1>1, <1>8, <2>4, <2>5 DEF FifoInv
<1>12. FlushInv'
  BY <1>1 DEF IInv, FlushInv
<1>13. QED
  BY <1>9, <1>10, <1>11, <1>12 DEF IInv

(* Every step keeps the invariant. *)
LEMMA StepKeeps == IInv /\ [Next]_vars => IInv'
<1> SUFFICES ASSUME IInv, [Next]_vars PROVE IInv'
  OBVIOUS
<1>1. CASE \E size \in BuffSizes \cup {0} : prepare(size)
  BY <1>1, PrepareKeeps
<1>2. CASE append
  BY <1>2, AppendKeeps
<1>3. CASE \E len \in StrLens : append_str(len)
  BY <1>3, AppendStrKeeps
<1>4. CASE \E n \in 2..4, len \in StrLens \cup {0} : widget(n, len)
  BY <1>4, WidgetKeeps
<1>5. CASE flush_call
  BY <1>5, FlushCallKeeps
<1>6. CASE flush_read
  BY <1>6, FlushReadKeeps
<1>7. CASE flush_write
  BY <1>7, FlushWriteKeeps
<1>8. CASE flush_send
  BY <1>8, FlushSendKeeps
<1>9. CASE flush_tell
  BY <1>9, FlushTellKeeps
<1>10. CASE Execute
  BY <1>10, ExecuteKeeps
<1>11. CASE \/ \E size \in DlSizes \cup {0} : dl_prepare(size)
            \/ dl_append
            \/ dl_flush
  BY <1>11, DlKeeps
<1>12. CASE UNCHANGED vars
  <2>1. /\ UNCHANGED <<m_buffSize, m_pNextPtr, list, pc, cmd_rd_reg>>
        /\ UNCHANGED <<cmd_wr_reg, fifo, rd, wr, pending, stamp, result>>
        /\ UNCHANGED <<dlSize, dlNext>>
    BY <1>12 DEF vars, cmd, flush, chip, dl
  <2>2. TypeOK'
    <3>1. {cmd_rd_reg', cmd_wr_reg', rd', wr'} \subseteq 0..FifoSize-1
      BY <2>1 DEF IInv, TypeOK
    <3>2. QED
      BY <2>1, <3>1 DEF IInv, TypeOK
  <2>3. BufferInv' /\ FifoInv'
    BY <2>1 DEF IInv, BufferInv, FifoInv, Holds
  <2>4. FlushInv'
    BY <2>1 DEF IInv, FlushInv
  <2>5. QED
    BY <2>2, <2>3, <2>4 DEF IInv
<1>13. QED
  BY <1>1, <1>2, <1>3, <1>4, <1>5, <1>6, <1>7, <1>8, <1>9, <1>10, <1>11,
     <1>12 DEF Next

-----------------------------------------------------------------------------
(* The buffer, the chip's FIFO and a flush in progress are at all times as *)
(* the invariant says (ft801_api_cmd.c).                                   *)
THEOREM InvCorrect == Spec => []IInv
<1>1. QED
  BY Initial, StepKeeps, PTL DEF Spec

(* The variables keep their types, and the offsets stay in the FIFO.       *)
THEOREM TypeCorrect == Spec => []TypeOK
<1>1. IInv => TypeOK
  BY DEF IInv
<1>2. QED
  BY <1>1, InvCorrect, PTL

(* No order of words, strings and widgets writes behind the client's       *)
(* buffer, of whatever size it is (ft801_api_cmd.c:78-164).                *)
THEOREM BufferKept == Spec => []InBuffer
<1>1. IInv => InBuffer
  <2> SUFFICES ASSUME IInv PROVE m_pNextPtr <= m_buffSize
    BY DEF InBuffer
  <2>1. QED
    BY DEF IInv, BufferInv
<1>2. QED
  BY <1>1, InvCorrect, PTL

(* Between the chip's offsets are the flushed lists, whole and in order,   *)
(* wherever in the FIFO the flush found them (ft801_api_cmd.c:169-210).    *)
THEOREM ListsFlushed == Spec => []FlushedWhole
<1>1. IInv => FlushedWhole
  <2> SUFFICES ASSUME IInv PROVE FlushedWhole
    OBVIOUS
  <2> DEFINE r == rd \div 4
             w == wr \div 4
  <2>1. /\ r \in 0..Places-1 /\ w \in 0..Places-1 /\ rd = 4 * r /\ wr = 4 * w
    BY NonePending
  <2>2. Holds(fifo, r, w, pending)
    BY DEF IInv, FifoInv
  <2>3. \A k \in 1..Len(pending) :
          fifo[(rd \div 4 + k - 1) % (FifoSize \div 4)] = pending[k]
    BY <2>2 DEF Holds, Places
  <2> HIDE DEF r, w
  <2>4. Len(pending) = (w - r) % Places
    BY <2>1, <2>2, Distance
  <2>5. wr - rd = 4 * (w - r) /\ w - r \in Int
    BY <2>1, SizesAre
  <2>6. (wr - rd) % FifoSize = (4 * (w - r)) % (4 * Places)
    BY <2>5, SizesAre
  <2>7. (4 * (w - r)) % (4 * Places) = 4 * ((w - r) % Places)
    BY <2>5, Fourfold, SizesAre
  <2>8. QED
    BY <2>3, <2>4, <2>6, <2>7 DEF FlushedWhole
<1>2. QED
  BY <1>1, InvCorrect, PTL
=============================================================================
