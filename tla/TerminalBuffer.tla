--------------------------- MODULE TerminalBuffer ---------------------------
(***************************************************************************)
(* terminal_task.c: the text of the terminal, kept as lines that end with  *)
(* NUL in a ring of characters, and the window that the terminal task      *)
(* shows of it.                                                            *)
(*                                                                         *)
(* The client appends strings at any time; the engine calls the painting   *)
(* function once after each activation and then the doing function, which  *)
(* reads the tag under the finger.  So a tag belongs to what was painted,  *)
(* and strings may have been appended since.  All of this runs in the main *)
(* thread: every function is one step.                                     *)
(*                                                                         *)
(* m_lines is derived from m_area_h, which is one of two constants; so is  *)
(* m_chars, whose only value is LineChars.  `x & (size-1)' is Cell(x).     *)
(***************************************************************************)
EXTENDS Integers, SequencesExt

CONSTANTS Char,           \* characters other than NUL and Newline
          NUL, Newline,
          Size,           \* _rbuffer_size
          LineChars,      \* 476 / 8
          ScreenLines,    \* 230 / 16
          KeyboardLines,  \* 100 / 16
          SizeT,          \* 2^32: size_t counters wrap
          Strings,        \* the strings appended
          MaxTotal        \* bound on m_total_lines_no

ASSUME SizeAssumption == /\ Size \in Nat /\ LineChars \in Nat \ {0}
                         /\ LineChars + 1 < Size
ASSUME CharAssumption == /\ NUL \notin Char \cup {Newline} /\ Newline \notin Char
                         /\ Strings \subseteq Seq(Char \cup {Newline})
ASSUME CountAssumption == /\ SizeT \in Nat /\ Size < SizeT /\ MaxTotal \in Nat
                          /\ {ScreenLines, KeyboardLines} \subseteq Nat \ {0}

VARIABLES
  pbuff,       \* the characters, zero at the start of the program
  head, tail,
  start_line,  \* index of the first character shown
  total,       \* m_total_lines_no
  curr,        \* m_curr_line_no
  m_lines,     \* lines on the screen, 0 until it is first computed
  keyboard,    \* show_keyboard
  painted,     \* is the painting up to date, that is, the task running?
  tags,        \* the navigation tags painted
  overflowed,  \* history: was the ring ever full?
  astray       \* history: start_line was last set from outside the text

text   == <<pbuff, head, tail>>
place  == <<start_line, curr, astray>>
screen == <<painted, tags>>
vars   == <<text, place, total, m_lines, keyboard, screen, overflowed>>

Cell(n) == n % Size
Wrapped(n) == n % SizeT
LinesFor(kbd) == IF kbd THEN KeyboardLines ELSE ScreenLines

(* The distance from cell p to the next end of a line, where a loop that   *)
(* looks for NUL stops.                                                    *)
ToEnd(buf, p) == CHOOSE d \in 0..Size-1 :
                   /\ buf[Cell(p + d)] = NUL
                   /\ \A e \in 0..d-1 : buf[Cell(p + e)] # NUL

(* The same backwards. *)
BackToEnd(buf, p) == CHOOSE d \in 0..Size-1 :
                       /\ buf[Cell(p - d)] = NUL
                       /\ \A e \in 0..d-1 : buf[Cell(p - e)] # NUL

is_rb_empty == head = tail
is_rb_full(b) == Cell(b.head + 1) = b.tail

Init == /\ pbuff = [i \in 0..Size-1 |-> NUL]
        /\ head = 0 /\ tail = 0
        /\ start_line = 0 /\ total = 0 /\ curr = 0 /\ m_lines = 0
        /\ keyboard = FALSE /\ painted = FALSE /\ tags = {}
        /\ overflowed = FALSE /\ astray = FALSE

-----------------------------------------------------------------------------
(* terminalTask_appendStr on a record b of the ring, the line count and    *)
(* char_no.                                                                *)

Push(b, c) == [b EXCEPT !.buf[b.head] = c, !.head = Cell(@ + 1)]
PushEnd(b) == [Push(b, NUL) EXCEPT !.total = @ + 1]
MakeRoom(b) == IF is_rb_full(b) THEN [b EXCEPT !.tail = Cell(@ + 1)] ELSE b

(* A line leaves the count when the cell of its NUL is overwritten. *)
CountOverwritten(b) ==
  IF is_rb_full(b) /\ b.buf[b.head] = NUL /\ b.total > 0
  THEN [b EXCEPT !.total = @ - 1] ELSE b

(* Faulty: the array of _print_text without its NUL. *)
BreakLineLate(b) ==
  IF b.char_no > LineChars + 1
  THEN MakeRoom([PushEnd(b) EXCEPT !.char_no = 1])
  ELSE b

BreakLine(b) ==
  IF b.char_no > LineChars
  THEN MakeRoom([PushEnd(b) EXCEPT !.char_no = 1])
  ELSE b

(* Faulty: a newline is pushed like any other character. *)
CopyCharUncounted(b, c) ==
  LET r == BreakLine(MakeRoom(CountOverwritten(b)))
      p == IF c = Newline THEN [Push(r, NUL) EXCEPT !.char_no = 1]
                          ELSE Push(r, c)
  IN  [p EXCEPT !.char_no = @ + 1]

CopyChar(b, c) ==
  LET r == BreakLine(MakeRoom(CountOverwritten(b)))
      p == IF c = Newline THEN [PushEnd(r) EXCEPT !.char_no = 1]
                          ELSE Push(r, c)
  IN  [p EXCEPT !.char_no = @ + 1]

(* Faulty: the NUL of the broken line stays. *)
DropBrokenButEnd(b) ==
  LET d == ToEnd(b.buf, b.head)
  IN  IF is_rb_full(b)
      THEN [b EXCEPT !.tail = Cell(b.head + d),
                     !.total = IF d > 0 /\ @ > 1 THEN @ - 1 ELSE @]
      ELSE b

(* What is left of a line whose beginning was overwritten goes. *)
DropBroken(b) ==
  LET d == ToEnd(b.buf, b.head)
  IN  IF is_rb_full(b)
      THEN [b EXCEPT !.tail = Cell(b.head + d + 1),
                     !.total = IF d > 0 /\ @ > 1 THEN @ - 1 ELSE @]
      ELSE b

Copied(s) ==
  LET b[c \in 0..Len(s)] ==
        IF c = 0 THEN [buf |-> pbuff, head |-> head, tail |-> tail,
                       total |-> total, char_no |-> 1]
                 ELSE CopyChar(b[c-1], s[c])
  IN  PushEnd(MakeRoom(b[Len(s)]))

(* The start of the n-th line before the head. *)
point_to_latest_screen(buf, h, n) ==
  LET pos[i \in 0..n] == IF i = 0 THEN Cell(h - 2)
                         ELSE Cell(pos[i-1] - BackToEnd(buf, pos[i-1]) - 1)
  IN  Cell(pos[n] + 2)

appendStr(s) ==
  LET full == Copied(s)
      b    == DropBroken(full)
      n    == LinesFor(keyboard)
  IN  /\ b.total <= MaxTotal
      /\ pbuff' = b.buf /\ head' = b.head /\ tail' = b.tail /\ total' = b.total
      /\ m_lines' = n
      /\ IF b.total <= n
         THEN /\ start_line' = b.tail
              /\ curr' = 1
         ELSE /\ start_line' = point_to_latest_screen(b.buf, b.head, n)
              /\ curr' = Wrapped(b.total - n + 1)
      /\ overflowed' = (overflowed \/ is_rb_full(full))
      /\ astray' = FALSE
      /\ UNCHANGED <<keyboard, screen>>

-----------------------------------------------------------------------------
(* The task's functions. *)

painting ==
  /\ ~painted
  /\ painted' = TRUE
  /\ tags' = IF total <= m_lines THEN {}
             ELSE {t \in {"up", "down"} :
                     IF t = "up" THEN curr > 1
                                 ELSE Wrapped(curr + m_lines - 1) # total}
  /\ UNCHANGED <<text, place, total, m_lines, keyboard, overflowed>>

(* Where the loop of _move_to_prev_line stops when it begins at p. *)
StopFrom(p) ==
  LET stops(q) == q = tail \/ pbuff[q] = NUL
  IN  Cell(p - CHOOSE d \in 0..Size-1 : /\ stops(Cell(p - d))
                                        /\ \A e \in 0..d-1 : ~stops(Cell(p - e)))
LineAfter(stop) == IF stop = tail THEN tail ELSE Cell(stop + 1)

(* start_line - 2 is not masked: below 2 the loop begins outside the       *)
(* buffer, where some byte is read, which may or may not be 0.  And a loop *)
(* that meets the NUL of an empty first line, at tail, takes it for the    *)
(* line.                                                                   *)
move_to_prev_line ==
  IF is_rb_empty THEN start_line' = head /\ UNCHANGED <<curr, astray>>
  ELSE IF start_line = tail THEN UNCHANGED place
  ELSE /\ curr' = Wrapped(curr - 1)
       /\ IF start_line >= 2
          THEN LET stop == StopFrom(start_line - 2)
               IN  /\ start_line' = LineAfter(stop)
                   /\ astray' = (astray \/ (stop = tail /\ pbuff[tail] = NUL))
          ELSE /\ start_line' \in {Cell(start_line - 1),
                                   LineAfter(StopFrom(start_line - 3))}
               /\ astray' = TRUE

move_to_next_line ==
  IF is_rb_empty \/ total <= m_lines
  THEN start_line' = tail /\ UNCHANGED <<curr, astray>>
  ELSE LET d == ToEnd(pbuff, start_line)
       IN  IF /\ Wrapped(total - curr + 1) > m_lines
              /\ \A e \in 0..d : Cell(start_line + e) # head
           THEN /\ start_line' = Cell(start_line + d + 1)
                /\ curr' = Wrapped(curr + 1)
                /\ UNCHANGED astray
           ELSE UNCHANGED place

(* terminalTask_doing after a touch, by tag; each ends by activating the   *)
(* task, which has it painted again.                                       *)
doing_up == /\ painted /\ "up" \in tags
            /\ move_to_prev_line
            /\ painted' = FALSE
            /\ UNCHANGED <<text, total, m_lines, keyboard, tags, overflowed>>

doing_down == /\ painted /\ "down" \in tags
              /\ move_to_next_line
              /\ painted' = FALSE
              /\ UNCHANGED <<text, total, m_lines, keyboard, tags, overflowed>>

(* Faulty: the number of the line is signed. *)
doing_keyboardSigned ==
  /\ painted
  /\ keyboard' = ~keyboard
  /\ m_lines' = LinesFor(keyboard')
  /\ start_line' = point_to_latest_screen(pbuff, head, m_lines')
  /\ curr' = total - m_lines' + 1
  /\ astray' = (total < m_lines')
  /\ painted' = FALSE
  /\ UNCHANGED <<text, total, tags, overflowed>>

doing_keyboard ==
  /\ painted
  /\ keyboard' = ~keyboard
  /\ m_lines' = LinesFor(keyboard')
  /\ start_line' = point_to_latest_screen(pbuff, head, m_lines')
  /\ curr' = Wrapped(total - m_lines' + 1)
  /\ astray' = (total < m_lines')
  /\ painted' = FALSE
  /\ UNCHANGED <<text, total, tags, overflowed>>

Next == \/ \E s \in Strings : appendStr(s)
        \/ painting
        \/ doing_up
        \/ doing_down
        \/ doing_keyboard

Spec == Init /\ [][Next]_vars

-----------------------------------------------------------------------------
(* The variables keep their types. *)
TypeOK == /\ pbuff \in [0..Size-1 -> Char \cup {NUL}]
          /\ {head, tail, start_line} \subseteq 0..Size-1
          /\ total \in 0..MaxTotal
          /\ curr \in 0..SizeT-1
          /\ m_lines \in {0, ScreenLines, KeyboardLines}
          /\ {keyboard, painted, overflowed, astray} \subseteq BOOLEAN
          /\ tags \subseteq {"up", "down"}

(* Wherever _print_text starts reading, it meets the end of a line before  *)
(* its local array is full: no line in the ring is longer than LineChars,  *)
(* through every wrap, overflow and half-overwritten line.                 *)
LinesFit == \A p \in 0..Size-1 : ToEnd(pbuff, p) <= LineChars

(* The characters between tail and head, oldest first, and the number of  *)
(* the line at start_line.                                                 *)
Text == [i \in 1..Cell(head - tail) |-> pbuff[Cell(tail + i - 1)]]
Top == 1 + Cardinality({i \in 1..Cell(start_line - tail) :
                          pbuff[Cell(tail + i - 1)] = NUL})

(* The terminal implements the window on the text: strings are broken into *)
(* lines and kept in order, overflow drops whole oldest lines only, the    *)
(* window shows the end of the text after an append and moves by one line  *)
(* at a time.                                                              *)
Wrapping == INSTANCE LineWrap WITH End <- NUL
Appends == {Wrapping!Wrap(s) : s \in Strings}

(* What the loop of appendStr pushes, the ring left aside. *)
LineEnd(l) == [out |-> Append(l.out, NUL), char_no |-> 1]
AddChar(l, c) == LET r == IF l.char_no > LineChars THEN LineEnd(l) ELSE l
                     p == IF c = Newline THEN LineEnd(r)
                                         ELSE [r EXCEPT !.out = Append(@, c)]
                 IN  [p EXCEPT !.char_no = @ + 1]
Lined(s) == LET l[c \in 0..Len(s)] ==
                  IF c = 0 THEN [out |-> <<>>, char_no |-> 1]
                           ELSE AddChar(l[c-1], s[c])
            IN  Append(l[Len(s)].out, NUL)

Window == INSTANCE TextWindow WITH End <- NUL, text <- Text, top <- Top,
                                   forgotten <- overflowed
ImplementsWindow == Window!Spec

(* Until the ring overflows, the counters are what their comments say: the *)
(* lines in the buffer and the number of the line the window starts at.    *)
Counted == ~overflowed /\ head # tail =>
             /\ total = Window!Lines
             /\ ~astray => curr = Top

(* terminal_task.c:648, "this always should points to the beginning of     *)
(* each line": the cell before start_line ends a line.                     *)
StartOnLine == pbuff[Cell(start_line - 1)] = NUL

(* terminal_task.c:57, "keeps number of current line from the buffer". *)
CurrentInBuffer == head # tail => curr \in 1..total
=============================================================================
