----------------------------- MODULE AudioFifo ------------------------------
(* What the ring buffer of a track promises: a queue of bounded length. A write adds as much of
   a slice as is free, a read takes as much as is there; the n-th value written is n. *)
EXTENDS Naturals, Sequences

CONSTANTS Capacity, MaxSamples

VARIABLES
  queue,
  stored,  \* values written so far
  heard    \* the slice the last read returned

Lesser(a, b) == IF a < b THEN a ELSE b
Upward(n, k) == [i \in 1 .. k |-> n + i]

FifoInit == queue = <<>> /\ stored = 0 /\ heard = <<>>

Put(n) ==
  LET k == Lesser(n, Capacity - Len(queue))
  IN /\ queue' = queue \o Upward(stored, k)
     /\ stored' = stored + k
     /\ UNCHANGED heard

Take(n) ==
  LET k == Lesser(n, Len(queue))
  IN /\ queue' = SubSeq(queue, k + 1, Len(queue))
     /\ heard' = SubSeq(queue, 1, k)
     /\ UNCHANGED stored

FifoNext == \E n \in 1 .. MaxSamples : Put(n) \/ Take(n)

FifoSpec == FifoInit /\ [][FifoNext]_<<queue, stored, heard>>
=============================================================================
