--------------------------- MODULE MCBlockingApi ---------------------------
(* Buffers with places for one word, for two and two bytes, and for three, *)
(* in front of a FIFO of four words: lists wrap at each of its offsets.    *)
EXTENDS BlockingApi
=============================================================================
