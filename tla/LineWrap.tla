------------------------------ MODULE LineWrap ------------------------------
(***************************************************************************)
(* How a string is broken into lines of the screen, without reference to   *)
(* the loop in terminal_task.c that does it.                               *)
(***************************************************************************)
EXTENDS Integers, SequencesExt

CONSTANTS Newline,    \* the character that ends a paragraph
          End,        \* what ends a line of the screen
          LineChars   \* the longest line

(* The n-th of a set of numbers. *)
Nth(S, n) == CHOOSE x \in S : Cardinality({y \in S : y <= x}) = n

(* A newline takes a place in the line it ends, and another one in the     *)
(* line it begins: a full line with a newline behind it is followed by an  *)
(* empty one.                                                              *)
Wrap(s) ==
  LET ends == {i \in DOMAIN s : s[i] = Newline}
      from(p) == IF p = 1 THEN 1 ELSE Nth(ends, p - 1) + 1
      to(p)   == IF p > Cardinality(ends) THEN Len(s) ELSE Nth(ends, p)
      room(p) == IF p = 1 THEN LineChars ELSE LineChars - 1
      count(p) ==
        1 + Max({0, (to(p) - from(p) - room(p) + LineChars) \div LineChars})
      \* the last place of line k of paragraph p
      last(p, k) == from(p) + room(p) - 1 + (k - 1) * LineChars
      line(p, k) == SubSeq(s, IF k = 1 THEN from(p) ELSE last(p, k - 1) + 1,
                              Min({last(p, k), to(p)}))
      paragraph(p) ==
        [k \in 1..count(p) |->
           SelectSeq(line(p, k), LAMBDA c : c # Newline) \o <<End>>]
  IN  FlattenSeq(FlattenSeq([p \in 1..Cardinality(ends) + 1 |-> paragraph(p)]))
=============================================================================
