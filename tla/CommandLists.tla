---------------------------- MODULE CommandLists ----------------------------
(***************************************************************************)
(* The sizes of the command lists the painting functions build, in bytes   *)
(* as bytes_in_transaction counts them: each call of the builder by what   *)
(* it appends.  Strings count with their final 0.                          *)
(***************************************************************************)
EXTENDS Naturals

Words(n) == 4 * n

(* Faulty: strings are not filled up. *)
PaddedNot(n) == n

(* Strings and blocks of memory are filled up to whole words. *)
Padded(n) == IF n % 4 > 0 THEN n + 4 - (n % 4) ELSE n

Text(len)     == Words(3) + Padded(len)
Number        == Words(4)
Keys(len)     == Words(4) + Padded(len)
Color         == Words(2)   \* of the foreground, background or gradient
Button(len)   == Words(4) + Padded(len)
Track         == Words(4)
Memwrite(num) == Words(3) + Padded(num)
Slider        == Words(5)
Gauge         == Words(5)
Progress      == Words(5)
Toggle(len)   == Words(4) + Padded(len)

-----------------------------------------------------------------------------
(* my_tasks.c *)
task1_painting == Words(10) + Text(13) + Text(14) + Text(11)

task2_painting == Words(16) + Text(13) + 3 * (Color + Slider + Track)
                  + Gauge + Track + Memwrite(1)

(* len: of the text typed so far and the cursor. *)
keyboardTask_painting(len) ==
  Words(24) + Text(len) + Number + 3 * Color
  + Keys(11) + Keys(10) + Keys(8) + Keys(3) + 4 * Keys(4)
  + Button(10) + Button(6) + Button(1) + Button(7) + Button(3)

(* Two vertices for each of 34 lines, and the two touches if there are. *)
graphExample_painting(touches) ==
  Words(19) + Text(17) + Track + 34 * Words(2)
  + (IF touches THEN Words(7) ELSE 0)

(* demo_tasks.c *)
demoMenuTask_painting ==
  Words(56) + Text(6) + Text(5) + Text(35) + Text(31) + Text(34) + Text(5)
  + 5 * Color + Button(11) + Button(7) + Progress

demoGraphTask_painting ==
  Words(107) + Text(6) + 7 * Text(4) + Text(6) + Text(7)

demoSettTask_painting ==
  Words(73) + Text(5) + Text(30) + Text(21) + Text(21) + Text(4) + Text(5)
  + 5 * Color + Slider + Toggle(7) + Gauge

(* terminal_task.c: full lines and empty ones are what a screen holds,     *)
(* arrows is the number of navigation areas, if there are any.             *)
print_text(full, empty, LineChars) == full * Text(LineChars + 1) + empty * Text(1)

print_text_dw_up(scrolls, arrows) ==
  IF scrolls THEN Words(7) + arrows * Words(3) ELSE 0

print_keybard_button == Words(5) + 2 * Color + 2 * Button(2) + Text(6)

print_keybard(shown) ==
  IF shown THEN Words(13) + 2 * Color + 3 * Keys(11)
                + Button(6) + Button(1) + Button(5) + Button(6) + Text(1)
           ELSE 0

terminalTask_painting(text, navigation, keyboard) ==
  Words(17) + text + navigation + print_keybard_button + print_keybard(keyboard)
=============================================================================
