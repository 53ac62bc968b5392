----------------------------- MODULE MCScreens -----------------------------
(* The three example programs with all their tasks, and a keyboard string   *)
(* of three characters; the chip's FIFO and the terminal have their size.   *)
EXTENDS Screens

CONSTANT key

MCTask == UNION {Tasks(p) : p \in DOMAIN Programs}
=============================================================================
