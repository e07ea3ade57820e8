------------------------------ MODULE Buffers -------------------------------
(***************************************************************************)
(* The three buffers of pkg/buffer: BlockBuffer (block_buffer.go), a       *)
(* circular buffer whose writers wait when it is full, RingBuffer          *)
(* (ring_buffer.go), whose writers overwrite the oldest values, and Buffer *)
(* (buffer.go), which grows.  A behaviour uses one of them, bkind.  Every  *)
(* step is what a method does between two acquisitions of its mutex.       *)
(*                                                                         *)
(* The n-th value written is n, and a length is at least 1.  BlockBuffer   *)
(* waits on a sync.Cond, which Signal wakes in the order of Wait; the      *)
(* others wait for a token in writeNotify, a channel of one place.         *)
(***************************************************************************)
EXTENDS Integers, Sequences, FiniteSets

CONSTANTS
  BufKinds,     \* the buffers in use, of "block", "ring" and "growable"
  Size,         \* len(buf) of the circular ones
  BufReaders, BufWriters,
  MaxValues,    \* bound: values written
  MaxSlice      \* bound: length of a slice read into or written

ASSUME BuffersAssumption ==
  /\ BufKinds \subseteq {"block", "ring", "growable"}
  /\ Size \in Nat \ {0} /\ MaxValues \in Nat /\ MaxSlice \in Nat
  /\ BufReaders \cap BufWriters = {}

VARIABLES
  bkind,
  slots, head, tail,      \* buf, head and tail of the circular buffers
  growable,               \* buf of Buffer
  closeWrite, closeErr,
  waiters,                \* BlockBuffer: the goroutines asleep in cond.Wait, in order
  writeNotify,            \* the channel holds a token
  bcall,                  \* goroutine -> where its call is, and the length left
  written,                \* values written so far
  got,                    \* history: the values returned by Read and Next
  gone,                   \* history: the latest value that was read, discarded or reset
  unsignalled             \* history: the buffer changed for a sleeper without a signal

storage == <<slots, head, tail, growable>>
closing == <<closeWrite, closeErr>>
signals == <<waiters, writeNotify>>
history == <<written, got, gone, unsignalled>>
bufVars == <<bkind, storage, closing, signals, bcall, history>>

BIdle == [at |-> "idle", n |-> 0]
Least(a, b) == IF a < b THEN a ELSE b
Elements(s) == {s[i] : i \in DOMAIN s}
Numbers(n, k) == [i \in 1 .. k |-> n + i]

NewBuffer ==
  /\ bkind \in BufKinds
  /\ slots = [i \in 0 .. (Size - 1) |-> 0] /\ head = 0 /\ tail = 0
  /\ growable = <<>>
  /\ closeWrite = FALSE /\ closeErr = FALSE
  /\ waiters = <<>> /\ writeNotify = FALSE
  /\ bcall = [g \in BufReaders \cup BufWriters |-> BIdle]
  /\ written = 0 /\ got = <<>> /\ gone = 0 /\ unsignalled = FALSE

Circular == bkind # "growable"
Available == IF Circular THEN tail - head ELSE Len(growable)

-----------------------------------------------------------------------------
(* Waking *)

(* cond.Signal, or a token if there is room for one *)
OneWoken == IF waiters = <<>> THEN <<>> ELSE Tail(waiters)
Signal ==
  IF bkind = "block" THEN waiters' = OneWoken /\ UNCHANGED writeNotify
    ELSE writeNotify' = TRUE /\ UNCHANGED waiters

Park(g, n) ==
  /\ bcall' = [bcall EXCEPT ![g] = [at |-> "wait", n |-> n]]
  /\ waiters' = IF bkind = "block" THEN Append(waiters, g) ELSE waiters
  /\ UNCHANGED writeNotify

(* The lock is held, at the beginning of a call or after a wait *)
Entering(g, n) == bcall[g].at = "idle" \/ (bcall[g].at = "woken" /\ n = bcall[g].n)

Return(g) == bcall' = [bcall EXCEPT ![g] = BIdle]

(* cond.Wait has been signalled, or writeNotify holds a token or is closed *)
Woken(g) == IF bkind = "block" THEN g \notin Elements(waiters) ELSE writeNotify \/ closeWrite

Wake(g) ==
  /\ bcall[g].at = "wait" /\ Woken(g)
  /\ writeNotify' = FALSE
  /\ bcall' = [bcall EXCEPT ![g].at = "woken"]
  /\ UNCHANGED <<bkind, storage, closing, waiters, history>>

-----------------------------------------------------------------------------
(* Copying: copy(dst[lo:hi], src) for a Go slice, as the buffer after it *)
Copied(lo, hi, src) == Least(hi - lo, Len(src))
CopyTo(dst, lo, hi, src) ==
  [i \in DOMAIN dst |-> IF lo <= i /\ i < lo + Copied(lo, hi, src) THEN src[i - lo + 1] ELSE dst[i]]
After(s, n) == SubSeq(s, n + 1, Len(s))
Between(lo, hi) == [i \in 1 .. (hi - lo) |-> slots[lo + i - 1]]

(* What Read copies out: up to the end of the storage, then from its start *)
ReadOut(n) ==
  LET h == head % Size IN
  IF h + Available <= Size THEN SubSeq(Between(h, h + Available), 1, Least(n, Available))
  ELSE LET first == SubSeq(Between(h, Size), 1, Least(n, Size - h)) IN
       first \o SubSeq(Between(0, Available - Len(first)), 1, Least(n, Available) - Len(first))

(* mutant: what does not fit before the end of the storage is not copied *)
FillFreeNoWrap(p) == CopyTo(slots, tail % Size, Size, p)

(* The free places are filled with p, also over the end of the storage *)
FillFree(p) ==
  LET avail == Size - Available
      t == tail % Size IN
  IF t + avail <= Size THEN CopyTo(slots, t, t + avail, p)
  ELSE LET n == Copied(t, Size, p) IN
       CopyTo(CopyTo(slots, t, Size, p), 0, avail - n, After(p, n))

(* RingBuffer.Write with values left over: cbuf, the part after the last whole turn, *)
(* and bbuf, what is kept of the turn before, replace the oldest values              *)
Overwrite(buf, p, left) ==
  LET cn == IF left <= Size THEN left ELSE left % Size
      cbuf == After(p, Len(p) - cn)
      bbuf == IF left <= Size THEN <<>> ELSE SubSeq(p, Len(p) - Size + 1, Len(p) - cn)
      h == head % Size
      cp1 == Copied(h, Size, cbuf)
      with == CopyTo(buf, h, Size, cbuf)
      bp1 == Copied(h + cp1, Size, bbuf) IN
  [moved |-> cn,
   buf |-> IF cp1 < cn
             THEN CopyTo(CopyTo(with, 0, Size, After(cbuf, cp1)), cn - cp1, Size, bbuf)
             ELSE CopyTo(CopyTo(with, h + cp1, Size, bbuf), 0, Size, After(bbuf, bp1))]

-----------------------------------------------------------------------------
(* Reading *)

Remove(n) ==
  IF Circular THEN head' = head + n /\ UNCHANGED <<slots, tail, growable>>
  ELSE growable' = After(growable, n) /\ UNCHANGED <<slots, head, tail>>

(* mutant: no signal *)
TakeOutQuiet(values) ==
  /\ Remove(Len(values))
  /\ got' = got \o values /\ gone' = values[Len(values)]
  /\ UNCHANGED <<signals, written, unsignalled>>

(* The values leave; a BlockBuffer signals *)
TakeOut(values) ==
  /\ Remove(Len(values))
  /\ got' = got \o values /\ gone' = values[Len(values)]
  /\ IF bkind = "block" THEN Signal /\ unsignalled' = FALSE
     ELSE UNCHANGED <<signals, unsignalled>>
  /\ UNCHANGED written

(* Read, at its beginning or after a wait; Next is a Read of one value *)
Read(r, n) ==
  /\ Entering(r, n)
  /\ \/ /\ closeErr \/ (Available = 0 /\ closeWrite)
        /\ Return(r) /\ UNCHANGED <<storage, signals, history>>
     \/ /\ ~closeErr /\ Available = 0 /\ ~closeWrite
        /\ Park(r, n) /\ UNCHANGED <<storage, history>>
     \/ /\ ~closeErr /\ Available > 0
        /\ TakeOut(IF Circular THEN ReadOut(n) ELSE SubSeq(growable, 1, Least(n, Available)))
        /\ Return(r)
  /\ UNCHANGED <<bkind, closing>>

Discard(n) ==
  /\ ~closeErr
  /\ LET k == Least(n, Available) IN
     /\ Remove(k)
     /\ gone' = written - Available + k
     /\ unsignalled' = (unsignalled \/ (k > 0 /\ waiters # <<>>))
  /\ UNCHANGED <<bkind, closing, signals, bcall, written, got>>

Reset ==
  /\ head' = 0 /\ tail' = 0 /\ growable' = <<>>
  /\ gone' = written
  /\ unsignalled' = (unsignalled \/ (Available > 0 /\ waiters # <<>>))
  /\ UNCHANGED <<bkind, slots, closing, signals, bcall, written, got>>

-----------------------------------------------------------------------------
(* Writing *)
Wrote(k) == written' = written + k /\ UNCHANGED <<got, gone>>

(* BlockBuffer.Write fills what is free, signals and waits with the rest; Add writes one *)
BlockWrite(w, n) ==
  /\ bkind = "block"
  /\ Entering(w, n)
  /\ \/ /\ closeWrite
        /\ Return(w) /\ UNCHANGED <<slots, tail, signals, history>>
     \/ /\ ~closeWrite /\ Available = Size
        /\ Park(w, n) /\ UNCHANGED <<slots, tail, history>>
     \/ /\ ~closeWrite /\ Available < Size
        /\ LET k == Least(n, Size - Available) IN
           /\ slots' = FillFree(Numbers(written, n)) /\ tail' = tail + k
           /\ Wrote(k)
           /\ IF k = n THEN Signal /\ Return(w)
              ELSE /\ waiters' = Append(OneWoken, w)
                   /\ bcall' = [bcall EXCEPT ![w] = [at |-> "wait", n |-> n - k]]
                   /\ UNCHANGED writeNotify
        /\ unsignalled' = FALSE
  /\ UNCHANGED <<bkind, head, growable, closing>>

(* RingBuffer.Write gives no token *)
RingWrite(n) ==
  /\ bkind = "ring" /\ ~closeWrite
  /\ LET p == Numbers(written, n)
         wn == Least(n, Size - Available)
         over == Overwrite(FillFree(p), p, n - wn) IN
     IF wn = n THEN slots' = FillFree(p) /\ tail' = tail + n /\ UNCHANGED head
     ELSE slots' = over.buf /\ head' = head + over.moved /\ tail' = tail + wn + over.moved
  /\ Wrote(n) /\ unsignalled' = TRUE
  /\ UNCHANGED <<bkind, growable, closing, signals, bcall>>

RingAdd ==
  /\ bkind = "ring" /\ ~closeWrite
  /\ slots' = [slots EXCEPT ![tail % Size] = written + 1]
  /\ tail' = tail + 1
  /\ head' = IF tail + 1 - head > Size THEN head + 1 ELSE head
  /\ Wrote(1) /\ Signal /\ unsignalled' = FALSE
  /\ UNCHANGED <<bkind, growable, closing, bcall>>

(* Write and Add of Buffer *)
GrowWrite(n) ==
  /\ bkind = "growable" /\ ~closeWrite
  /\ growable' = growable \o Numbers(written, n)
  /\ Wrote(n) /\ Signal
  /\ UNCHANGED <<bkind, slots, head, tail, closing, bcall, unsignalled>>

-----------------------------------------------------------------------------
(* Closing; a closed writeNotify holds no token that matters *)
CloseWrite ==
  /\ ~closeWrite
  /\ closeWrite' = TRUE /\ waiters' = <<>>
  /\ UNCHANGED <<bkind, storage, closeErr, writeNotify, bcall, history>>

(* Close is CloseWithError(io.ErrClosedPipe); Buffer drops its values *)
CloseWithError ==
  /\ ~closeErr
  /\ closeErr' = TRUE /\ closeWrite' = TRUE /\ waiters' = <<>>
  /\ IF Circular THEN UNCHANGED <<growable, gone>> ELSE growable' = <<>> /\ gone' = written
  /\ UNCHANGED <<bkind, slots, head, tail, writeNotify, bcall, written, got, unsignalled>>

BufNext ==
  \/ \E g \in BufReaders \cup BufWriters : Wake(g)
  \/ \E n \in 1 .. MaxSlice :
       \/ \E r \in BufReaders : Read(r, n)
       \/ Discard(n)
       \/ written + n <= MaxValues /\ \/ RingWrite(n) \/ GrowWrite(n)
                                      \/ \E w \in BufWriters : BlockWrite(w, n)
  \/ written < MaxValues /\ RingAdd
  \/ Reset \/ CloseWrite \/ CloseWithError

BufSpec == NewBuffer /\ [][BufNext]_bufVars

-----------------------------------------------------------------------------
(* Types; only goroutines in a call wait. *)
BufTypeOK ==
  /\ head \in Nat /\ tail \in Nat
  /\ slots \in [0 .. (Size - 1) -> 0 .. MaxValues]
  /\ Elements(growable) \cup Elements(got) \subseteq 1 .. MaxValues
  /\ \A g \in Elements(waiters) : bcall[g].at = "wait"

Contents ==
  IF Circular THEN [i \in 1 .. Available |-> slots[(head + i - 1) % Size]] ELSE growable

(* Values come out in the order they went in, each once, and none is lost but to Discard,
   Reset and Close: the buffer holds the values written after the last one that left it,
   of a RingBuffer the latest that fit.  It must hold for every position of head and tail,
   over the end of the storage and for slices longer than it (Read, Write, Add). *)
BufferInOrder ==
  /\ \A i, j \in DOMAIN got : i < j => got[i] < got[j]
  /\ Contents = Numbers(written - Available, Available)
  /\ Available = IF bkind = "ring" THEN Least(Size, written - gone) ELSE written - gone

(* With one reader and one writer, as every use in the repository has, nobody sleeps with
   work to do: a sleeping reader has an empty buffer, a sleeping writer a full one, and
   neither a closed one.  Excepted is what Discard, Reset and RingBuffer.Write changed,
   which wake nobody. *)
BufferWakes ==
  unsignalled \/
  \A g \in DOMAIN bcall :
    bcall[g].at = "wait" /\ ~Woken(g)
      => ~closeWrite /\ Available = IF g \in BufReaders THEN 0 ELSE Size
=============================================================================
