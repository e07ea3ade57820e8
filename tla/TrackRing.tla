----------------------------- MODULE TrackRing ------------------------------
(* trackRingBuf of pkg/audio/pcm/track.go: its storage with head and tail, of which tail may run
   one turn ahead ("we need to keep tail always greater or equal to head") and which come back by
   a turn when head reaches the end. PcmMixer has the calls around it; here a step is one write
   or read of the storage under trb.mu. The n-th value written is n. *)
EXTENDS Integers, Sequences

CONSTANTS
  RingLen,     \* len(rb)
  MaxSamples,  \* bound: length of a slice
  MaxPut       \* bound: values written

ASSUME TrackRingAssumption == RingLen \in Nat \ {0} /\ MaxSamples \in Nat /\ MaxPut \in Nat

VARIABLES rb, rhead, rtail, rput, rheard

ringVars == <<rb, rhead, rtail, rput, rheard>>

Lower(a, b) == IF a < b THEN a ELSE b

(* mutant: the second copy starts again at the head of p *)
CopyIntoAgain(s, lo, hi, p, from) ==
  [i \in DOMAIN s |->
     IF lo <= i /\ i < lo + Lower(hi - lo, Len(p) - from) THEN p[i - lo + 1] ELSE s[i]]

(* copy(rb[lo:hi], p[from:]) *)
CopyInto(s, lo, hi, p, from) ==
  [i \in DOMAIN s |->
     IF lo <= i /\ i < lo + Lower(hi - lo, Len(p) - from) THEN p[from + i - lo + 1] ELSE s[i]]

(* rb[lo:lo+n] *)
Slice(lo, n) == [i \in 1 .. n |-> rb[lo + i - 1]]

(* how much the second copy of write takes *)
Wrapped(over, k) == IF over >= 0 THEN Lower(rhead - over, k) ELSE 0

(* write: up to the end of the storage while tail is in it, then from the start up to head *)
StoreWithin(p) ==
  LET n == IF rtail < RingLen THEN Lower(RingLen - rtail, Len(p)) ELSE 0
      buf == IF rtail < RingLen THEN CopyInto(rb, rtail, RingLen, p, 0) ELSE rb
      over == rtail + n - RingLen
      m == Wrapped(over, Len(p) - n)
  IN /\ rb' = IF over >= 0 THEN CopyInto(buf, over, rhead, p, n) ELSE buf
     /\ rtail' = rtail + n + m
     /\ rput' = rput + n + m

RingPut(n) ==
  /\ n <= MaxPut - rput
  /\ IF rtail - rhead = RingLen THEN UNCHANGED <<rb, rtail, rput>>
     ELSE StoreWithin([i \in 1 .. n |-> rput + i])
  /\ UNCHANGED <<rhead, rheard>>

(* read: what lies before the end if tail is past it, perhaps back by a turn, then up to tail *)
RingTake(p) ==
  LET n == IF rtail >= RingLen THEN Lower(RingLen - rhead, p) ELSE 0
      turn == rtail >= RingLen /\ rhead + n = RingLen
      h == IF turn THEN 0 ELSE rhead + n
      t == IF turn THEN rtail - RingLen ELSE rtail
      m == IF t < RingLen THEN Lower(t - h, p - n) ELSE 0
  IN /\ rheard' = Slice(rhead, n) \o Slice(h, m)
     /\ rhead' = h + m
     /\ rtail' = t
     /\ UNCHANGED <<rb, rput>>

TrackRingInit ==
  /\ rb = [i \in 0 .. RingLen - 1 |-> 0]
  /\ rhead = 0 /\ rtail = 0 /\ rput = 0 /\ rheard = <<>>

TrackRingNext == \E n \in 1 .. MaxSamples : RingPut(n) \/ RingTake(n)

TrackRingSpec == TrackRingInit /\ [][TrackRingNext]_ringVars

-----------------------------------------------------------------------------
(* The indices stay within one turn of each other and of the storage. *)
RingTypeOK ==
  /\ rb \in [0 .. RingLen - 1 -> 0 .. MaxPut]
  /\ rhead \in 0 .. RingLen - 1 /\ rtail \in rhead .. rhead + RingLen
  /\ rput \in 0 .. MaxPut
  /\ rheard \in Seq(0 .. MaxPut)

Place(i) == IF i < RingLen THEN i ELSE i - RingLen

Queued == [i \in 1 .. rtail - rhead |-> rb[Place(rhead + i - 1)]]

Fifo == INSTANCE AudioFifo WITH Capacity <- RingLen, queue <- Queued,
                                stored <- rput, heard <- rheard

(* The ring is a bounded queue: a write puts in all of its slice, or what fits, behind what is
   there, and a read takes the oldest values, also over the end of the storage (write, read). *)
RingIsFifo == Fifo!FifoSpec
=============================================================================
