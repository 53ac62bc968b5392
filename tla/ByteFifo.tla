------------------------------ MODULE ByteFifo ------------------------------
(***************************************************************************)
(* What the transmit ring buffer promises its two users: a bounded byte    *)
(* queue.  The main thread puts whole byte strings, all of the string or   *)
(* nothing of it; the SPI interrupt handler takes one byte at a time, in   *)
(* the order the bytes were put.  Nothing here mentions indices, cells or  *)
(* the copying loop; ItRingBuffer is shown to implement this module.       *)
(***************************************************************************)
EXTENDS Naturals, Sequences

CONSTANTS Byte,      \* the values a byte can take
          Strings,   \* the byte strings the main thread may put
          Capacity   \* how many bytes the queue can hold

VARIABLES arg,       \* the string being put, <<>> between two puts
          queue,     \* the bytes put and not yet taken
          result,    \* what the last put returned
          out        \* the last byte taken

fifoVars == <<arg, queue, result, out>>

Fits(s) == Len(queue) + Len(s) <= Capacity

Init == /\ arg = <<>>
        /\ queue = <<>>
        /\ result = TRUE
        /\ out \in Byte

(* The whole string enters the queue in one step. *)
Put(s) == /\ Fits(s)
          /\ queue' = queue \o s
          /\ result' = TRUE
          /\ UNCHANGED out

(* A put that finds room takes effect some time later, and then completely *)
(* and with the string it was called with.                                 *)
Begin(s) == /\ arg = <<>>
            /\ Fits(s)
            /\ arg' = s
            /\ UNCHANGED <<queue, result, out>>

Commit == /\ arg # <<>>
          /\ Put(arg)
          /\ arg' = <<>>

(* A put is refused only when the string really does not fit. *)
Refuse(s) == /\ arg = <<>>
             /\ ~Fits(s)
             /\ result' = FALSE
             /\ UNCHANGED <<arg, queue, out>>

Get == /\ queue # <<>>
       /\ out' = Head(queue)
       /\ queue' = Tail(queue)
       /\ UNCHANGED <<arg, result>>

Reset == /\ arg = <<>>
         /\ queue' = <<>>
         /\ UNCHANGED <<arg, result, out>>

Next == \/ \E s \in Strings : Begin(s) \/ Refuse(s)
        \/ Commit
        \/ Get
        \/ Reset

Spec == Init /\ [][Next]_fifoVars
=============================================================================
