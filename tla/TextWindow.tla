----------------------------- MODULE TextWindow -----------------------------
(***************************************************************************)
(* What the terminal promises its user: the text appended, as lines that   *)
(* each end with End, and a window of some height on it.  The ring of      *)
(* characters that holds the text does not appear here; when it has no     *)
(* room it forgets the oldest lines.  TerminalBuffer is checked to         *)
(* implement this module.                                                  *)
(***************************************************************************)
EXTENDS Integers, SequencesExt

CONSTANTS End,            \* what ends a line
          Appends,        \* the texts that may be appended, in whole lines
          ScreenLines,    \* height of the window
          KeyboardLines   \* and its height above the keyboard

VARIABLES text,           \* the lines kept
          top,            \* number of the line the window starts at
          keyboard,       \* is the keyboard shown?
          forgotten,      \* was a line ever forgotten?
          astray          \* has the window lost its place?

windowVars == <<text, top, keyboard, forgotten, astray>>

Lines == Cardinality({i \in DOMAIN text : text[i] = End})

Height == IF keyboard THEN KeyboardLines ELSE ScreenLines

(* The number of the line from which the end of the text is shown. *)
Latest == IF Lines <= Height THEN 1 ELSE Lines + 1 - Height

Placed == ~forgotten /\ ~astray

Init == /\ text = <<>> /\ top = 1
        /\ keyboard = FALSE /\ forgotten = FALSE /\ astray = FALSE

(* new is what is left of old: whole lines of it, and only the oldest ones *)
(* are missing.                                                            *)
LatestLines(new, old) ==
  LET gone == Len(old) - Len(new)
  IN  /\ gone >= 0
      /\ new = SubSeq(old, gone + 1, Len(old))
      /\ gone > 0 => old[gone] = End

(* The new lines come last and the window shows them. *)
AppendLines(new) ==
  /\ UNCHANGED keyboard
  /\ ~astray'
  /\ forgotten => forgotten'
  /\ IF forgotten' THEN LatestLines(text', text \o new) ELSE text' = text \o new
  /\ Placed' => top' = Latest'

Up == /\ Placed => top > 1 /\ top' = top - 1
      /\ UNCHANGED <<text, keyboard, forgotten, astray>>

Down == /\ Placed => top < Latest /\ top' = top + 1
        /\ UNCHANGED <<text, keyboard, forgotten, astray>>

ToggleKeyboard == /\ keyboard' = ~keyboard
                  /\ Placed' => top' = Latest'
                  /\ UNCHANGED <<text, forgotten>>

GoAstray == astray' /\ UNCHANGED <<text, keyboard, forgotten>>

Next == \/ Up
        \/ Down
        \/ ToggleKeyboard
        \/ GoAstray
        \/ \E new \in Appends : AppendLines(new)

Spec == Init /\ [][Next]_windowVars
=============================================================================
