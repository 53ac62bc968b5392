----------------------------- MODULE MCTerminal -----------------------------
(* The terminal with a ring of eight characters and lines of two, so that a *)
(* few strings fill it and every index wraps.  The strings: an empty one, a *)
(* short one, one that is broken at the edge of the screen and ones with a  *)
(* newline at either end.                                                   *)
EXTENDS TerminalBuffer

CONSTANTS letter, digit

MCStrings ==
  {<<>>, <<letter>>, <<digit, letter, digit>>,
   <<letter, Newline>>, <<Newline, letter, digit>>}

(* The loop breaks a string as LineWrap says, here every one of up to eight *)
(* characters.                                                              *)
ASSUME LoopWraps ==
  \A s \in SeqOf({letter, Newline}, 8) \cup MCStrings :
    Lined(s) = Wrapping!Wrap(s)
=============================================================================
