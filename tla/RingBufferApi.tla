--------------------------- MODULE RingBufferApi ---------------------------
(***************************************************************************)
(* ringBuffer_api.c: a small set of ring buffers for elements of any size, *)
(* behind descriptors.  Nothing in the repository calls it; the model's    *)
(* clients are the ones its volatile indices are made for, one that puts   *)
(* and one that gets.  A put and a get are three steps each: the test, the *)
(* memcpy, and the increment that publishes it.                            *)
(*                                                                         *)
(* head and tail are never reduced: they run through all of size_t, and    *)
(* the place of an element is found modulo the size of the buffer.         *)
(***************************************************************************)
EXTENDS Integers, Sequences

CONSTANTS RING_BUFFER_MAX,
          Attrs,     \* the attributes clients ask for, [s_elem, n_elem]
          Elem,      \* the values of an element
          Sizes      \* the number of values of size_t, 2^32

(* The client's buffer is in memory, so that its size is a size_t. *)
ASSUME RbAssumption ==
  /\ RING_BUFFER_MAX \in Nat /\ Sizes \in Nat \ {0}
  /\ \A a \in Attrs : /\ a.s_elem \in Nat /\ a.n_elem \in 0..Sizes-1
                     /\ a.s_elem * a.n_elem < Sizes
  /\ \E k \in 0..64 : Sizes = 2^k

VARIABLES idx,      \* the next free place of _rb
          rb,       \* _rb
          putting,  \* the put in progress: ring, offset and element, or <<>>
          getting,  \* the get in progress: ring, and what it copied, or <<>>
          ok,       \* what the last call returned
          held      \* history: the elements put and not got, for each ring

rbVars == <<idx, rb, putting, getting, ok, held>>

Rings == 0..RING_BUFFER_MAX-1

RbInit == /\ idx = 0
          /\ rb = [r \in Rings |-> [head |-> 0, tail |-> 0, s_elem |-> 0,
                                    n_elem |-> 0, buf |-> <<>>]]
          /\ putting = <<>> /\ getting = <<>> /\ ok = TRUE
          /\ held = [r \in Rings |-> <<>>]

-----------------------------------------------------------------------------
count(r)      == (rb[r].head - rb[r].tail) % Sizes
full(r)       == count(r) = rb[r].n_elem
empty(r)      == count(r) = 0
Offset(r, i)  == i % (rb[r].s_elem * rb[r].n_elem)

(* Faulty: any number of elements will do. *)
PowerOf2Not(n) == TRUE

(* (n-1) & n is 0: so it is for no element at all, and for the divisors of *)
(* 2^32.                                                                   *)
PowerOf2(n) == n = 0 \/ \E m \in 1..Sizes : n * m = Sizes

(* The memory at the buffer is what was there before; the last element     *)
(* may reach s_elem - 1 bytes behind it.                                   *)
ring_buffer_init(a, null) ==
  /\ putting = <<>>
  /\ IF idx < RING_BUFFER_MAX /\ ~null /\ a.s_elem > 0 /\ PowerOf2(a.n_elem)
     THEN /\ \E e \in Elem :
             rb' = [rb EXCEPT ![idx] =
                      [head |-> 0, tail |-> 0, s_elem |-> a.s_elem,
                       n_elem |-> a.n_elem,
                       buf |-> [i \in 0..(a.n_elem + 1) * a.s_elem - 2 |-> e]]]
          /\ idx' = idx + 1
          /\ ok' = TRUE
     ELSE ok' = FALSE /\ UNCHANGED <<idx, rb>>
  /\ UNCHANGED <<putting, getting, held>>

(* A ring that was never initialised has no elements: it is full and empty. *)
ring_buffer_put(r, e) ==
  /\ putting = <<>>
  /\ IF r \in Rings /\ ~full(r)
     THEN /\ putting' = <<r, Offset(r, rb[r].head), e>>
          /\ UNCHANGED ok
     ELSE ok' = FALSE /\ UNCHANGED putting
  /\ UNCHANGED <<idx, rb, getting, held>>

PutCopy ==
  /\ Len(putting) = 3
  /\ LET r == putting[1]
         at == putting[2]
     IN  rb' = [rb EXCEPT ![r].buf =
                  [i \in DOMAIN @ |-> IF i \in at..at + rb[r].s_elem - 1
                                      THEN putting[3] ELSE @[i]]]
  /\ putting' = <<putting[1], putting[3]>>
  /\ UNCHANGED <<idx, getting, ok, held>>

PutDone ==
  /\ Len(putting) = 2
  /\ rb' = [rb EXCEPT ![putting[1]].head = (@ + 1) % Sizes]
  /\ held' = [held EXCEPT ![putting[1]] = Append(@, putting[2])]
  /\ putting' = <<>> /\ ok' = TRUE
  /\ UNCHANGED <<idx, getting>>

ring_buffer_get(r) ==
  /\ getting = <<>>
  /\ IF r \in Rings /\ ~empty(r)
     THEN getting' = <<r>> /\ UNCHANGED ok
     ELSE ok' = FALSE /\ UNCHANGED getting
  /\ UNCHANGED <<idx, rb, putting, held>>

(* The first byte of the element stands for it. *)
GetCopy ==
  /\ Len(getting) = 1
  /\ LET r == getting[1]
     IN  getting' = <<r, rb[r].buf[Offset(r, rb[r].tail)]>>
  /\ UNCHANGED <<idx, rb, putting, ok, held>>

GetDone ==
  /\ Len(getting) = 2
  /\ rb' = [rb EXCEPT ![getting[1]].tail = (@ + 1) % Sizes]
  /\ held' = [held EXCEPT ![getting[1]] = Tail(@)]
  /\ getting' = <<>> /\ ok' = TRUE
  /\ UNCHANGED <<idx, putting>>

RbNext == \/ \E a \in Attrs, null \in BOOLEAN : ring_buffer_init(a, null)
          \/ \E r \in 0..RING_BUFFER_MAX, e \in Elem : ring_buffer_put(r, e)
          \/ \E r \in 0..RING_BUFFER_MAX : ring_buffer_get(r)
          \/ PutCopy \/ PutDone \/ GetCopy \/ GetDone

RbSpec == RbInit /\ [][RbNext]_rbVars

-----------------------------------------------------------------------------
(* Each ring of one-byte elements holds, oldest first, what was put into   *)
(* it and not got, and never more than it was made for, also when its      *)
(* indices overflow; and what a get copied is the oldest.  (With larger    *)
(* elements it does not: the offset of line 90 counts bytes as elements.)  *)
Held == \A r \in Rings : rb[r].s_elem = 1 =>
          /\ Len(held[r]) = count(r) /\ count(r) <= rb[r].n_elem
          /\ \A j \in 1..Len(held[r]) :
               held[r][j] = rb[r].buf[Offset(r, rb[r].tail + j - 1)]
          /\ Len(getting) = 2 /\ getting[1] = r => getting[2] = held[r][1]
=============================================================================
