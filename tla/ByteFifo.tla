------------------------------ MODULE ByteFifo ------------------------------
(***************************************************************************)
(* What a Buffer promises the decoders that use it: a queue of bytes, put  *)
(* in at one end and taken out at the other (or dropped from where they    *)
(* were put), that can also be read a few bits at a time, the bits of a    *)
(* byte that was only partly read being kept for the next time.  Bytes are *)
(* numbered in the order they are put in.  Buffer implements this module.  *)
(***************************************************************************)
EXTENDS Naturals, Sequences

CONSTANTS
  ByteBits,        \* bits in a byte (8)
  MaxBytes         \* the most bytes put in at once

VARIABLES fifo,          \* the bytes in the queue
          ahead,         \* bits of a byte taken out, not given to anyone yet
          out,           \* what the last operation took out, bytes or bits
          put            \* how many bytes were ever put in

vars == <<fifo, ahead, out, put>>

(* The bits of some bytes, first bit of the first byte first; bits are     *)
(* numbered like the bytes, from 1 on.                                     *)
BitsOf(bytes) ==
  [i \in 1..(Len(bytes) * ByteBits) |->
     (bytes[((i - 1) \div ByteBits) + 1] - 1) * ByteBits + ((i - 1) % ByteBits) + 1]

Fresh(n) == [i \in 1..n |-> put + i]

Init == fifo = <<>> /\ ahead = <<>> /\ out = <<>> /\ put = 0

Put(n) == fifo' = fifo \o Fresh(n) /\ put' = put + n /\ out' = <<>> /\ UNCHANGED ahead

TakeFront(n) ==
  /\ out' = SubSeq(fifo, 1, n) /\ fifo' = SubSeq(fifo, n + 1, Len(fifo))
  /\ UNCHANGED <<ahead, put>>

DropBack(n) == fifo' = SubSeq(fifo, 1, Len(fifo) - n) /\ out' = <<>> /\ UNCHANGED <<ahead, put>>

Clear == fifo' = <<>> /\ ahead' = <<>> /\ out' = <<>> /\ UNCHANGED put

(* k bytes go, which leaves less than a byte's bits to be kept.            *)
TakeBits(n, k) ==
  LET bits == ahead \o BitsOf(SubSeq(fifo, 1, k)) IN
  /\ k = 0 \/ Len(bits) < n + ByteBits
  /\ Len(bits) >= n
  /\ out' = SubSeq(bits, 1, n) /\ ahead' = SubSeq(bits, n + 1, Len(bits))
  /\ fifo' = SubSeq(fifo, k + 1, Len(fifo))
  /\ UNCHANGED put

Next ==
  \/ Clear
  \/ \E n \in 0..MaxBytes : Put(n)
  \/ \E n \in 0..Len(fifo) : TakeFront(n) \/ DropBack(n)
  \/ \E k \in 0..Len(fifo) : \E n \in 0..(Len(ahead) + k * ByteBits) : TakeBits(n, k)

Spec == Init /\ [][Next]_vars
=============================================================================
