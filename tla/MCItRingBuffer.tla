--------------------------- MODULE MCItRingBuffer ---------------------------
(* The two ring buffers of the driver, each on a small instance; which one  *)
(* runs is chosen at the beginning.                                         *)
(*                                                                          *)
(* The transmit ring has four cells, two-byte words and strings of up to    *)
(* three bytes, so that every append can hit the full boundary and every    *)
(* index wraps several times.  The generic one has rings for no, one, two   *)
(* and three elements, the last of which is refused, one for an element of  *)
(* two bytes and one of none, and indices that overflow after four puts.    *)
EXTENDS ItRingBuffer, RingBufferApi

MCByte == {0, 1}
MCAttrs == {[s_elem |-> s, n_elem |-> n] : s \in {1}, n \in 0..3}
           \cup {[s_elem |-> 2, n_elem |-> 1], [s_elem |-> 0, n_elem |-> 1]}

VARIABLE which

MCInit == /\ Init /\ RbInit
          /\ \/ which = "transmit"
             \/ which = "generic" /\ out = 0 /\ \A i \in DOMAIN buf : buf[i] = 0

MCNext == /\ UNCHANGED which
          /\ \/ which = "transmit" /\ Next /\ UNCHANGED rbVars
             \/ which = "generic" /\ RbNext /\ UNCHANGED vars

MCSpec == MCInit /\ [][MCNext]_<<vars, rbVars, which>>
=============================================================================
