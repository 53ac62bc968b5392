--------------------------- MODULE MCBlockingMain ---------------------------
(* All the examples, with one word of display list and of command list: a   *)
(* longer one repeats the same step.                                        *)
EXTENDS BlockingMain

MCExamples == {"dl", "cmd", "calibrate", "api"}
=============================================================================
