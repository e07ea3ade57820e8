------------------------- MODULE NoiseSessionProofs -------------------------
(***************************************************************************)
(* The replay filter is exact, and a session delivers every message at     *)
(* most once, for every window size, every nonce width and any number of   *)
(* concurrent senders and workers.                                         *)
(***************************************************************************)
EXTENDS NoiseSession, TLAPS

-----------------------------------------------------------------------------
(* What the replay filter's bit manipulation computes, for every word size *)
(* and every number of words.                                              *)

Bitmap == [Word -> SUBSET Bit]

(* The parts of a window position: the code's wordIndex and bitIndex.      *)
LEMMA DivisionParts ==
  ASSUME NEW d \in Nat
  PROVE  /\ d \div WordBits \in Nat
         /\ d % WordBits \in Bit
         /\ d = WordBits * (d \div WordBits) + (d % WordBits)
  BY WindowAssumption DEF Bit

(* A position is determined by its word and its bit: a bitIndex below      *)
(* WordBits and a wordIndex are the quotient and remainder of the position.*)
LEMMA DivisionUnique ==
  ASSUME NEW q \in Nat, NEW r \in Bit, NEW d \in Nat, d = WordBits * q + r
  PROVE  d \div WordBits = q /\ d % WordBits = r
<1> DEFINE p == d \div WordBits
           s == d % WordBits
<1>1. p \in Nat /\ s \in Bit /\ WordBits * p + s = WordBits * q + r
  BY DivisionParts
<1>2. WordBits \in Nat /\ WordBits > 0 /\ r \in Nat /\ s \in Nat /\ r < WordBits /\ s < WordBits
  BY <1>1, WindowAssumption DEF Bit
<1> HIDE DEF p, s
<1>3. p = q
  <2>1. ASSUME p < q PROVE FALSE
    <3>1. WordBits * (p + 1) <= WordBits * q
      BY <1>1, <1>2, <2>1
    <3>2. WordBits * (p + 1) = WordBits * p + WordBits
      BY <1>1, <1>2
    <3>3. WordBits * p \in Nat /\ WordBits * q \in Nat
      BY <1>1, <1>2
    <3> QED BY <1>1, <1>2, <3>1, <3>2, <3>3
  <2>2. ASSUME q < p PROVE FALSE
    <3>1. WordBits * (q + 1) <= WordBits * p
      BY <1>1, <1>2, <2>2
    <3>2. WordBits * (q + 1) = WordBits * q + WordBits
      BY <1>1, <1>2
    <3>3. WordBits * p \in Nat /\ WordBits * q \in Nat
      BY <1>1, <1>2
    <3> QED BY <1>1, <1>2, <3>1, <3>2, <3>3
  <2> QED BY <1>1, <2>1, <2>2
<1>4. s = r
  BY <1>1, <1>2, <1>3
<1> QED BY <1>3, <1>4 DEF p, s

(* Positions of the window are words of the bitmap.                        *)
LEMMA PositionInWindow ==
  ASSUME NEW d \in Nat, d < ReplayWindowSize
  PROVE  d \div WordBits \in Word /\ d % WordBits \in Bit
<1> DEFINE p == d \div WordBits
           s == d % WordBits
<1>1. p \in Nat /\ s \in Bit /\ d = WordBits * p + s
  BY DivisionParts
<1>2. WordBits \in Nat /\ WordBits > 0 /\ replayWindowWords \in Nat /\ replayWindowWords > 0
      /\ s \in Nat /\ s < WordBits
  BY <1>1, WindowAssumption DEF Bit
<1> HIDE DEF p, s
<1>3. p < replayWindowWords
  <2> SUFFICES ASSUME p >= replayWindowWords PROVE FALSE
    BY <1>1, <1>2
  <2>1. WordBits * p >= WordBits * replayWindowWords
    BY <1>1, <1>2
  <2>2. WordBits * p \in Nat /\ WordBits * replayWindowWords \in Nat
        /\ WordBits * replayWindowWords = replayWindowWords * WordBits
    BY <1>1, <1>2
  <2> QED BY <1>1, <1>2, <2>1, <2>2 DEF ReplayWindowSize
<1> QED BY <1>1, <1>2, <1>3 DEF p, s, Word

(* Moving whole words up keeps every word a set of bits.                   *)
LEMMA MovedType ==
  ASSUME NEW bm \in Bitmap, NEW ws \in Nat
  PROVE  [i \in Word |-> IF i >= ws THEN bm[i - ws] ELSE {}] \in Bitmap
<1>1. ASSUME NEW i \in Word, i >= ws PROVE bm[i - ws] \in SUBSET Bit
  <2>1. i - ws \in Word
    BY <1>1, WindowAssumption DEF Word
  <2> QED BY <2>1 DEF Bitmap
<1> QED BY <1>1 DEF Bitmap

(* slideWindow keeps the bitmap's shape.                                   *)
LEMMA SlideType ==
  ASSUME NEW bm \in Bitmap, NEW shift \in Nat
  PROVE  slideWindow(bm, shift) \in Bitmap
<1> DEFINE ws == shift \div WordBits
           bs == shift % WordBits
           moved == [i \in Word |-> IF i >= ws THEN bm[i - ws] ELSE {}]
<1>1. ws \in Nat /\ bs \in Bit
  BY DivisionParts
<1>2. moved \in Bitmap
  BY <1>1, MovedType
<1>3. EmptyBitmap \in Bitmap
  BY DEF EmptyBitmap, Bitmap
<1> QED BY <1>1, <1>2, <1>3 DEF slideWindow, Bitmap, ShiftLeft, ShiftRight

(* The two-stage slide, whole words and then bits with carry, moves every  *)
(* position by exactly shift: the bit at d afterwards is the bit that was  *)
(* at d - shift, and positions below shift are clear.                      *)
LEMMA SlideExact ==
  ASSUME NEW bm \in Bitmap, NEW shift \in Nat, NEW d \in Nat, d < ReplayWindowSize
  PROVE  BitSet(slideWindow(bm, shift), d) <=> (d >= shift /\ BitSet(bm, d - shift))
<1> DEFINE ws == shift \div WordBits
           bs == shift % WordBits
           p  == d \div WordBits
           r  == d % WordBits
           moved == [i \in Word |-> IF i >= ws THEN bm[i - ws] ELSE {}]
           carry(i) == IF i = 0 THEN {} ELSE ShiftRight(moved[i - 1], WordBits - bs)
           slid == slideWindow(bm, shift)
<1>1. ws \in Nat /\ bs \in Bit /\ shift = WordBits * ws + bs
  BY DivisionParts
<1>2. p \in Word /\ r \in Bit /\ d = WordBits * p + r
  BY DivisionParts, PositionInWindow
<1>3. WordBits \in Nat /\ WordBits > 0
      /\ bs \in Nat /\ bs < WordBits /\ r \in Nat /\ r < WordBits /\ p \in Nat
  BY <1>1, <1>2, WindowAssumption DEF Bit, Word
<1>4. WordBits * p \in Nat /\ WordBits * ws \in Nat
  BY <1>1, <1>3
<1>5. CASE shift >= ReplayWindowSize
  <2>1. slid = EmptyBitmap
    BY <1>5 DEF slideWindow
  <2>2. ~BitSet(slid, d)
    BY <2>1, <1>2 DEF BitSet, EmptyBitmap
  <2>3. ReplayWindowSize \in Int
    BY WindowAssumption DEF ReplayWindowSize
  <2>4. ~(d >= shift)
    BY <1>5, <2>3
  <2> QED BY <2>2, <2>4
<1>6. CASE shift < ReplayWindowSize
  <2>0. ~(shift >= ReplayWindowSize)
    <3>1. ReplayWindowSize \in Int
      BY WindowAssumption DEF ReplayWindowSize
    <3> QED BY <1>6, <3>1
  <2>1. BitSet(slid, d) <=>
          IF bs = 0 THEN r \in moved[p]
          ELSE r \in ShiftLeft(moved[p], bs) \cup carry(p)
    BY <2>0, <1>2 DEF slideWindow, BitSet
  <2> HIDE DEF ws, bs, p, r, slid
  <2>2. CASE r >= bs
    (* the bit stays in the word ws below *)
    <3>1. d >= shift <=> p >= ws
      <4>1. ASSUME p >= ws PROVE d >= shift
        <5>1. WordBits * p >= WordBits * ws
          BY <1>1, <1>3, <4>1
        <5> QED BY <1>1, <1>2, <1>3, <1>4, <2>2, <5>1
      <4>2. ASSUME p < ws PROVE d < shift
        <5>1. WordBits * (p + 1) <= WordBits * ws
          BY <1>1, <1>3, <4>2
        <5>2. WordBits * (p + 1) = WordBits * p + WordBits
          BY <1>3
        <5> QED BY <1>1, <1>2, <1>3, <1>4, <5>1, <5>2
      <4> QED BY <4>1, <4>2, <1>1, <1>3
    <3>2. ASSUME p >= ws
          PROVE  BitSet(bm, d - shift) <=> (r - bs) \in bm[p - ws]
      <4>1. p - ws \in Nat /\ r - bs \in Bit
        BY <3>2, <1>1, <1>3, <2>2 DEF Bit
      <4>2. WordBits * (p - ws) = WordBits * p - WordBits * ws
        BY <1>1, <1>3
      <4>3. d - shift = WordBits * (p - ws) + (r - bs) /\ d - shift \in Nat
        BY <1>1, <1>2, <1>3, <1>4, <4>2, <3>1, <3>2
      <4>4. (d - shift) \div WordBits = p - ws /\ (d - shift) % WordBits = r - bs
        BY <4>1, <4>3, DivisionUnique
      <4> QED BY <4>4 DEF BitSet
    <3>3. bs # 0 => r \notin carry(p)
      <4> SUFFICES ASSUME bs # 0, p # 0, r \in ShiftRight(moved[p - 1], WordBits - bs)
                   PROVE FALSE
        OBVIOUS
      <4>1. (r + (WordBits - bs)) \in moved[p - 1]
        BY DEF ShiftRight
      <4>2. p - 1 \in Word
        BY <1>2, <1>3, WindowAssumption DEF Word
      <4>3. moved[p - 1] \subseteq Bit
        BY <4>2, <1>1, MovedType DEF Bitmap
      <4> QED BY <4>1, <4>3, <1>3, <2>2 DEF Bit
    <3>4. BitSet(slid, d) <=> (r - bs) \in moved[p]
      <4>1. CASE bs = 0
        BY <4>1, <2>1, <1>3
      <4>2. CASE bs # 0
        BY <4>2, <2>1, <3>3, <1>2 DEF ShiftLeft
      <4> QED BY <4>1, <4>2
    <3>5. (r - bs) \in moved[p] <=> (p >= ws /\ (r - bs) \in bm[p - ws])
      BY <1>2
    <3> QED BY <3>1, <3>2, <3>4, <3>5 DEF slid
  <2>3. CASE r < bs
    (* the bit is carried from the word ws + 1 below *)
    <3>1. d >= shift <=> p - 1 >= ws
      <4>1. ASSUME p - 1 >= ws PROVE d >= shift
        <5>1. WordBits * p >= WordBits * (ws + 1)
          BY <1>1, <1>3, <4>1
        <5>2. WordBits * (ws + 1) = WordBits * ws + WordBits
          BY <1>1, <1>3
        <5> QED BY <1>1, <1>2, <1>3, <1>4, <5>1, <5>2
      <4>2. ASSUME p <= ws PROVE d < shift
        <5>1. WordBits * p <= WordBits * ws
          BY <1>1, <1>3, <4>2
        <5> QED BY <1>1, <1>2, <1>3, <1>4, <2>3, <5>1
      <4> QED BY <4>1, <4>2, <1>1, <1>3
    <3>2. ASSUME p - 1 >= ws
          PROVE  BitSet(bm, d - shift) <=> (r + (WordBits - bs)) \in bm[(p - 1) - ws]
      <4>1. (p - 1) - ws \in Nat /\ r + (WordBits - bs) \in Bit
        BY <3>2, <1>1, <1>3, <2>3 DEF Bit
      <4>2. WordBits * ((p - 1) - ws) = (WordBits * p - WordBits) - WordBits * ws
        BY <1>1, <1>3
      <4>3. d - shift = WordBits * ((p - 1) - ws) + (r + (WordBits - bs)) /\ d - shift \in Nat
        BY <1>1, <1>2, <1>3, <1>4, <4>2, <3>1, <3>2
      <4>4. (d - shift) \div WordBits = (p - 1) - ws
            /\ (d - shift) % WordBits = r + (WordBits - bs)
        BY <4>1, <4>3, DivisionUnique
      <4> QED BY <4>4 DEF BitSet
    <3>3. r \notin ShiftLeft(moved[p], bs)
      <4>1. moved[p] \subseteq Bit
        BY <1>1, <1>2, MovedType DEF Bitmap
      <4> QED BY <4>1, <1>3, <2>3 DEF ShiftLeft, Bit
    <3>4. BitSet(slid, d) <=> r \in carry(p)
      BY <2>1, <3>3, <2>3, <1>3
    <3>5. CASE p = 0
      BY <3>5, <3>4, <3>1, <1>1 DEF slid
    <3>6. CASE p # 0
      <4>1. p - 1 \in Word
        BY <3>6, <1>2, <1>3, WindowAssumption DEF Word
      <4>2. r \in carry(p) <=> (r + (WordBits - bs)) \in moved[p - 1]
        BY <3>6, <1>2 DEF ShiftRight
      <4>3. (r + (WordBits - bs)) \in moved[p - 1] <=>
              (p - 1 >= ws /\ (r + (WordBits - bs)) \in bm[(p - 1) - ws])
        BY <4>1
      <4> QED BY <3>1, <3>2, <3>4, <4>2, <4>3 DEF slid
    <3> QED BY <3>5, <3>6
  <2> QED BY <2>2, <2>3, <1>3
<1>7. ReplayWindowSize \in Int
  BY WindowAssumption DEF ReplayWindowSize
<1> QED BY <1>5, <1>6, <1>7

(* Marking a position sets that bit, changes no other and keeps the shape. *)
LEMMA MarkExact ==
  ASSUME NEW bm \in Bitmap, NEW d \in Nat, d < ReplayWindowSize
  PROVE  /\ MarkBit(bm, d) \in Bitmap
         /\ \A e \in Nat : e < ReplayWindowSize =>
              (BitSet(MarkBit(bm, d), e) <=> (e = d \/ BitSet(bm, e)))
<1>1. d \div WordBits \in Word /\ d % WordBits \in Bit
      /\ d = WordBits * (d \div WordBits) + (d % WordBits)
  BY DivisionParts, PositionInWindow
<1>2. MarkBit(bm, d) \in Bitmap
  BY <1>1 DEF MarkBit, Bitmap
<1>3. ASSUME NEW e \in Nat, e < ReplayWindowSize
      PROVE  BitSet(MarkBit(bm, d), e) <=> (e = d \/ BitSet(bm, e))
  <2>1. e \div WordBits \in Word /\ e % WordBits \in Bit
        /\ e = WordBits * (e \div WordBits) + (e % WordBits)
    BY <1>3, DivisionParts, PositionInWindow
  <2>2. e = d <=> (e \div WordBits = d \div WordBits /\ e % WordBits = d % WordBits)
    BY <1>1, <2>1
  <2> DEFINE pe == e \div WordBits
             re == e % WordBits
             pd == d \div WordBits
             rd == d % WordBits
  <2>3. BitSet(MarkBit(bm, d), e) <=> re \in [bm EXCEPT ![pd] = bm[pd] \cup {rd}][pe]
    BY DEF BitSet, MarkBit
  <2>4. BitSet(bm, e) <=> re \in bm[pe]
    BY DEF BitSet
  <2> HIDE DEF pe, re, pd, rd
  <2>5. pe \in Word /\ pd \in Word
    BY <1>1, <2>1 DEF pe, pd
  <2>6. re \in [bm EXCEPT ![pd] = bm[pd] \cup {rd}][pe]
          <=> ((pe = pd /\ re = rd) \/ re \in bm[pe])
    BY <2>5 DEF Bitmap
  <2>7. e = d <=> (pe = pd /\ re = rd)
    BY <2>2 DEF pe, pd, re, rd
  <2> QED BY <2>3, <2>4, <2>6, <2>7
<1> QED BY <1>2, <1>3

-----------------------------------------------------------------------------
(* The session on top of the filter. *)

Filter == [bitmap : Bitmap, maxNonce : Nat]

(* The bitmap records the set seen: bit d stands for maxNonce - d, and no  *)
(* seen nonce is above maxNonce.                                           *)
Records(rf, seen) ==
  /\ \A n \in seen : n <= rf.maxNonce
  /\ \A d \in Nat : d < ReplayWindowSize =>
       (BitSet(rf.bitmap, d) <=> (rf.maxNonce - d) \in seen)

(* The window has a position for maxNonce itself.                          *)
LEMMA WindowNotEmpty == ReplayWindowSize \in Nat /\ ReplayWindowSize > 0
  BY WindowAssumption DEF ReplayWindowSize

(* updateLocked on a nonce that checkLocked accepts keeps the filter well  *)
(* formed and records exactly that nonce in addition.                      *)
LEMMA UpdateRecords ==
  ASSUME NEW rf \in Filter, NEW n \in Nat, NEW seen \in SUBSET Nat,
         Records(rf, seen), checkLocked(rf, n)
  PROVE  /\ updateLocked(rf, n) \in Filter
         /\ updateLocked(rf, n).maxNonce \in {rf.maxNonce, n}
         /\ Records(updateLocked(rf, n), seen \cup {n})
<1> USE WindowNotEmpty
<1> DEFINE m == rf.maxNonce
           bm == rf.bitmap
           up == updateLocked(rf, n)
<1>1. m \in Nat /\ bm \in Bitmap /\ rf = [bitmap |-> bm, maxNonce |-> m]
  BY DEF Filter
<1>2. CASE n > m
  <2> DEFINE slid == slideWindow(bm, n - m)
             marked == MarkBit(slid, 0)
  <2>1. n - m \in Nat /\ n - m > 0
    BY <1>1, <1>2
  <2>2. up = [bitmap |-> marked, maxNonce |-> n]
    BY <1>2 DEF updateLocked
  <2>3. slid \in Bitmap
    BY <1>1, <2>1, SlideType
  <2>4. \A d \in Nat : d < ReplayWindowSize =>
          (BitSet(slid, d) <=> (d >= n - m /\ BitSet(bm, d - (n - m))))
    BY <1>1, <2>1, SlideExact
  <2> HIDE DEF slid, bm, m, up
  <2>5. marked \in Bitmap /\ \A e \in Nat : e < ReplayWindowSize =>
          (BitSet(marked, e) <=> (e = 0 \/ BitSet(slid, e)))
    BY <2>3, MarkExact
  <2> HIDE DEF marked
  <2>6. up \in Filter
    BY <2>2, <2>5 DEF Filter
  <2>7. \A k \in seen \cup {n} : k <= n
    <3>1. \A k \in seen : k \in Nat /\ k <= m
      BY DEF Records, m
    <3> QED BY <3>1, <1>1, <1>2
  <2>8. ASSUME NEW d \in Nat, d < ReplayWindowSize
        PROVE  BitSet(marked, d) <=> (n - d) \in seen \cup {n}
    <3>1. CASE d = 0
      BY <3>1, <2>5, <2>8
    <3>2. CASE d > 0 /\ d < n - m
      <4>1. n - d > m /\ n - d # n
        BY <3>2, <1>1
      <4>2. (n - d) \notin seen
        BY <4>1, <1>1 DEF Records, m
      <4>3. ~(d = 0) /\ ~(d >= n - m)
        BY <3>2, <1>1, <2>1
      <4> QED BY <4>1, <4>2, <4>3, <2>4, <2>5, <2>8
    <3>3. CASE d > 0 /\ d >= n - m
      <4>1. d - (n - m) \in Nat /\ d - (n - m) < ReplayWindowSize
            /\ m - (d - (n - m)) = n - d /\ n - d # n
        BY <3>3, <2>1, <2>8, <1>1
      <4>2. BitSet(bm, d - (n - m)) <=> (m - (d - (n - m))) \in seen
        BY <4>1 DEF Records, bm, m
      <4> QED BY <4>1, <4>2, <3>3, <2>4, <2>5, <2>8
    <3> QED BY <3>1, <3>2, <3>3, <2>1
  <2> QED BY <2>2, <2>6, <2>7, <2>8 DEF Records, up
<1>3. CASE n <= m
  <2> DEFINE marked == MarkBit(bm, m - n)
  <2>1. m - n \in Nat /\ m - n < ReplayWindowSize /\ ~(n > m)
    BY <1>1, <1>3 DEF checkLocked
  <2>2. up = [bitmap |-> marked, maxNonce |-> m]
    BY <1>1, <2>1 DEF updateLocked
  <2>3. marked \in Bitmap /\ \A e \in Nat : e < ReplayWindowSize =>
          (BitSet(marked, e) <=> (e = m - n \/ BitSet(bm, e)))
    BY <1>1, <2>1, MarkExact
  <2> HIDE DEF marked, bm, m, up
  <2>4. up \in Filter
    BY <2>2, <2>3, <1>1 DEF Filter
  <2>5. \A k \in seen \cup {n} : k <= m
    BY <1>3 DEF Records, m
  <2>6. ASSUME NEW d \in Nat, d < ReplayWindowSize
        PROVE  BitSet(marked, d) <=> (m - d) \in seen \cup {n}
    <3>1. BitSet(bm, d) <=> (m - d) \in seen
      BY <2>6 DEF Records, bm, m
    <3>2. d = m - n <=> m - d = n
      BY <1>1
    <3> QED BY <3>1, <3>2, <2>3, <2>6
  <2> QED BY <2>2, <2>4, <2>5, <2>6 DEF Records, up, m
<1> QED BY <1>1, <1>2, <1>3

-----------------------------------------------------------------------------
(* Type correctness and the receiving side *)

(* A packet held past the replay check has its nonce consumed, and only by *)
(* that worker's call.                                                     *)
OpenersDisjoint ==
  /\ \A w \in Workers : wpc[w] = "open" => wpkt[w].nonce \in consumed
  /\ \A v, w \in Workers :
       v # w /\ wpc[v] = "open" /\ wpc[w] = "open" => wpkt[v].nonce # wpkt[w].nonce

(* A delivered nonce is consumed and no worker can deliver it again.       *)
DeliveredConsumed ==
  \A n \in Nonce : delivered[n] > 0 =>
    /\ delivered[n] = 1
    /\ n \in consumed
    /\ \A w \in Workers : wpc[w] = "open" => wpkt[w].nonce # n

RecvInv ==
  /\ TypeOK
  /\ Records(recvNonce, consumed)
  /\ OpenersDisjoint
  /\ DeliveredConsumed

(* Nonces are natural numbers and the fixed-width counter stays a nonce.   *)
LEMMA NonceFacts ==
  /\ Nonce \subseteq Nat
  /\ 0 \in Nonce
  /\ MaxNonce \in Nonce
  /\ \A k \in Nonce : (k + 1) % NonceMod \in Nonce
  BY NonceAssumption DEF Nonce, MaxNonce

(* A filter that records consumed refuses every consumed nonce.            *)
LEMMA ConsumedRefused ==
  ASSUME NEW rf \in Filter, NEW seen \in SUBSET Nat, Records(rf, seen), NEW n \in seen
  PROVE  ~checkLocked(rf, n)
<1>1. rf.maxNonce \in Nat /\ n \in Nat /\ n <= rf.maxNonce
  BY DEF Records, Filter
<1>2. rf.maxNonce - n \in Nat /\ rf.maxNonce - (rf.maxNonce - n) = n
  BY <1>1
<1>3. rf.maxNonce - n < ReplayWindowSize => BitSet(rf.bitmap, rf.maxNonce - n)
  BY <1>2 DEF Records
<1> QED BY <1>1, <1>3 DEF checkLocked

(* The receiving invariant holds initially: nothing is consumed and every   *)
(* bit is clear.                                                           *)
LEMMA InitRecv == Init => RecvInv
<1> SUFFICES ASSUME Init PROVE RecvInv
  OBVIOUS
<1> USE DEF Init
<1>1. TypeOK
  <2>1. NoPacket \in Packet
    BY NonceFacts DEF NoPacket, Packet
  <2>2. recvNonce \in [bitmap : [Word -> SUBSET Bit], maxNonce : Nonce]
    BY NonceFacts DEF NewReplayFilter, EmptyBitmap
  <2>3. sendNonce \in Nonce /\ calls \in 0 .. MaxCalls /\ corrupted \in 0 .. MaxCorrupt
    BY NonceFacts, NonceAssumption
  <2>4. /\ snonce \in [Senders -> Nonce]
        /\ sealed \in [Nonce -> Nat]
        /\ delivered \in [Nonce -> Nat]
        /\ wpkt \in [Workers -> Packet]
    BY <2>1, NonceFacts
  <2> QED BY <2>2, <2>3, <2>4 DEF TypeOK
<1>2. Records(recvNonce, consumed)
  <2>1. ASSUME NEW d \in Nat, d < ReplayWindowSize PROVE ~BitSet(recvNonce.bitmap, d)
    <3>1. d \div WordBits \in Word
      BY <2>1, PositionInWindow
    <3>2. recvNonce.bitmap = [i \in Word |-> {}]
      BY DEF NewReplayFilter, EmptyBitmap
    <3> QED BY <3>1, <3>2 DEF BitSet
  <2> QED BY <2>1 DEF Records
<1>3. OpenersDisjoint /\ DeliveredConsumed
  BY DEF OpenersDisjoint, DeliveredConsumed
<1> QED BY <1>1, <1>2, <1>3 DEF RecvInv

(* Every step of either side preserves the receiving invariant.            *)
LEMMA StepRecv == RecvInv /\ [Next]_vars => RecvInv'
<1> SUFFICES ASSUME RecvInv, [Next]_vars PROVE RecvInv'
  OBVIOUS
<1>0. TypeOK /\ Records(recvNonce, consumed) /\ OpenersDisjoint /\ DeliveredConsumed
  BY DEF RecvInv
<1>a. ASSUME UNCHANGED <<recvNonce, wpc, wpkt, consumed, delivered>>, TypeOK'
      PROVE  RecvInv'
  BY <1>0, <1>a DEF RecvInv, Records, OpenersDisjoint, DeliveredConsumed
<1>1. ASSUME NEW t \in Senders, EncryptBegin(t) PROVE RecvInv'
  <2>1. TypeOK'
    BY <1>0, <1>1 DEF EncryptBegin, TypeOK, recvVars
  <2> QED BY <2>1, <1>a, <1>1 DEF EncryptBegin, recvVars
<1>2. ASSUME NEW t \in Senders, EncryptAllocate(t) PROVE RecvInv'
  <2>1. TypeOK'
    <3>1. sendNonce' \in Nonce /\ calls' \in 0 .. MaxCalls
      BY <1>0, <1>2, NonceFacts, NonceAssumption DEF EncryptAllocate, TypeOK
    <3> QED BY <3>1, <1>0, <1>2 DEF EncryptAllocate, TypeOK, recvVars
  <2> QED BY <2>1, <1>a, <1>2 DEF EncryptAllocate, recvVars
<1>3. ASSUME NEW t \in Senders, EncryptSeal(t) PROVE RecvInv'
  <2>1. TypeOK'
    <3>1. sealed' \in [Nonce -> Nat] /\ snonce' \in [Senders -> Nonce]
      <4>1. snonce[t] \in Nonce /\ sealed[snonce[t]] + 1 \in Nat
        BY <1>0 DEF TypeOK
      <4>2. 0 \in Nonce
        BY NonceFacts
      <4> QED BY <4>1, <4>2, <1>0, <1>3 DEF EncryptSeal, TypeOK
    <3> QED BY <3>1, <1>0, <1>3 DEF EncryptSeal, TypeOK, recvVars
  <2> QED BY <2>1, <1>a, <1>3 DEF EncryptSeal, recvVars
<1>4. ASSUME NEW w \in Workers, NEW pkt \in Packet, DecryptBegin(w, pkt) PROVE RecvInv'
  <2>1. TypeOK'
    <3>1. corrupted' \in 0 .. MaxCorrupt
      BY <1>0, <1>4, NonceAssumption DEF DecryptBegin, Arrives, TypeOK
    <3> QED BY <3>1, <1>0, <1>4 DEF DecryptBegin, TypeOK, sendVars
  <2>2. Records(recvNonce, consumed)'
    BY <1>0, <1>4 DEF DecryptBegin, Records
  <2>3. OpenersDisjoint' /\ DeliveredConsumed'
    BY <1>0, <1>4 DEF DecryptBegin, OpenersDisjoint, DeliveredConsumed, TypeOK
  <2> QED BY <2>1, <2>2, <2>3 DEF RecvInv
<1>5. ASSUME NEW w \in Workers, DecryptCheck(w) PROVE RecvInv'
  <2> DEFINE n == wpkt[w].nonce
  <2>1. n \in Nonce /\ n \in Nat /\ consumed \in SUBSET Nat /\ wpc[w] = "check"
    BY <1>0, <1>5, NonceFacts DEF TypeOK, Packet, DecryptCheck
  <2>2. recvNonce \in Filter
    BY <1>0, NonceFacts DEF TypeOK, Filter, Bitmap
  <2>3. CASE checkLocked(recvNonce, n)
    <3>1. /\ recvNonce' = updateLocked(recvNonce, n)
          /\ consumed' = consumed \cup {n}
          /\ wpc' = [wpc EXCEPT ![w] = "open"]
          /\ UNCHANGED <<sendVars, recvState, wpkt, corrupted, delivered>>
      BY <1>5, <2>3 DEF DecryptCheck
    <3> HIDE DEF n
    <3>2. recvNonce' \in Filter /\ recvNonce'.maxNonce \in {recvNonce.maxNonce, n}
          /\ Records(recvNonce, consumed)'
      <4>1. Records(updateLocked(recvNonce, n), consumed \cup {n})
            /\ updateLocked(recvNonce, n) \in Filter
            /\ updateLocked(recvNonce, n).maxNonce \in {recvNonce.maxNonce, n}
        BY <2>1, <2>2, <2>3, <1>0, UpdateRecords
      <4> QED BY <4>1, <3>1 DEF Records
    <3>3. n \notin consumed
      BY <2>1, <2>2, <2>3, <1>0, ConsumedRefused
    <3>4. TypeOK'
      <4>1. recvNonce' \in [bitmap : [Word -> SUBSET Bit], maxNonce : Nonce]
        BY <1>0, <2>1, <3>2 DEF Filter, Bitmap, TypeOK
      <4> QED BY <4>1, <1>0, <2>1, <3>1 DEF TypeOK, sendVars
    <3>5. OpenersDisjoint'
      BY <1>0, <3>1, <3>3, <2>1 DEF OpenersDisjoint, TypeOK, n
    <3>6. DeliveredConsumed'
      BY <1>0, <3>1, <3>3, <2>1 DEF DeliveredConsumed, TypeOK, n
    <3> QED BY <3>2, <3>4, <3>5, <3>6 DEF RecvInv
  <2>4. CASE ~checkLocked(recvNonce, n)
    <3>1. /\ wpc' = [wpc EXCEPT ![w] = "idle"]
          /\ wpkt' = [wpkt EXCEPT ![w] = NoPacket]
          /\ UNCHANGED <<recvNonce, consumed>>
          /\ UNCHANGED <<sendVars, recvState, corrupted, delivered>>
      BY <1>5, <2>4 DEF DecryptCheck
    <3>2. NoPacket \in Packet
      BY NonceFacts DEF NoPacket, Packet
    <3>3. TypeOK'
      BY <1>0, <3>1, <3>2 DEF TypeOK, sendVars
    <3>4. Records(recvNonce, consumed)'
      BY <1>0, <3>1 DEF Records
    <3>5. OpenersDisjoint' /\ DeliveredConsumed'
      BY <1>0, <3>1 DEF OpenersDisjoint, DeliveredConsumed, TypeOK
    <3> QED BY <3>3, <3>4, <3>5 DEF RecvInv
  <2> QED BY <2>3, <2>4
<1>6. ASSUME NEW w \in Workers, DecryptOpen(w) PROVE RecvInv'
  <2> DEFINE n == wpkt[w].nonce
  <2>1. n \in Nonce /\ wpc[w] = "open" /\ n \in consumed
    BY <1>0, <1>6 DEF TypeOK, Packet, DecryptOpen, OpenersDisjoint
  <2>2. delivered[n] \in Nat /\ ~(delivered[n] > 0)
    BY <1>0, <2>1 DEF TypeOK, DeliveredConsumed
  <2>3. /\ wpc' = [wpc EXCEPT ![w] = "idle"]
        /\ wpkt' = [wpkt EXCEPT ![w] = NoPacket]
        /\ delivered' \in {delivered, [delivered EXCEPT ![n] = delivered[n] + 1]}
        /\ UNCHANGED <<sendVars, recvState, recvNonce, corrupted, consumed>>
    BY <1>6 DEF DecryptOpen
  <2>4. NoPacket \in Packet
    BY NonceFacts DEF NoPacket, Packet
  <2>5. TypeOK'
    BY <1>0, <2>1, <2>2, <2>3, <2>4 DEF TypeOK, sendVars
  <2>6. Records(recvNonce, consumed)'
    BY <1>0, <2>3 DEF Records
  <2>7. OpenersDisjoint'
    BY <1>0, <2>3 DEF OpenersDisjoint, TypeOK
  <2>8. DeliveredConsumed'
    <3> SUFFICES ASSUME NEW k \in Nonce, delivered'[k] > 0
                 PROVE  /\ delivered'[k] = 1
                        /\ k \in consumed'
                        /\ \A v \in Workers : wpc'[v] = "open" => wpkt'[v].nonce # k
      BY DEF DeliveredConsumed
    <3>1. CASE k = n
      <4>1. delivered'[k] = 1
        BY <3>1, <2>1, <2>2, <2>3, <1>0 DEF TypeOK
      <4>2. \A v \in Workers : wpc'[v] = "open" => wpkt'[v].nonce # k
        BY <3>1, <2>1, <2>3, <1>0 DEF TypeOK, OpenersDisjoint
      <4> QED BY <4>1, <4>2, <3>1, <2>1, <2>3
    <3>2. CASE k # n
      <4>1. delivered'[k] = delivered[k]
        BY <3>2, <2>1, <2>3, <1>0 DEF TypeOK
      <4>2. \A v \in Workers : wpc'[v] = "open" => wpkt'[v].nonce # k
        BY <4>1, <2>3, <1>0 DEF TypeOK, DeliveredConsumed
      <4> QED BY <4>1, <4>2, <2>3, <1>0 DEF DeliveredConsumed
    <3> QED BY <3>1, <3>2
  <2> QED BY <2>5, <2>6, <2>7, <2>8 DEF RecvInv
<1>7. ASSUME ExpireSender PROVE RecvInv'
  <2>1. TypeOK'
    BY <1>0, <1>7 DEF ExpireSender, TypeOK, recvVars
  <2> QED BY <2>1, <1>a, <1>7 DEF ExpireSender, recvVars
<1>8. ASSUME ExpireReceiver PROVE RecvInv'
  <2>1. TypeOK'
    BY <1>0, <1>8 DEF ExpireReceiver, TypeOK, sendVars
  <2> QED BY <2>1, <1>a, <1>8 DEF ExpireReceiver
<1>9. ASSUME UNCHANGED vars PROVE RecvInv'
  <2>1. TypeOK'
    BY <1>0, <1>9 DEF vars, sendVars, recvVars, TypeOK
  <2> QED BY <2>1, <1>a, <1>9 DEF vars, recvVars
<1> QED
  BY <1>1, <1>2, <1>3, <1>4, <1>5, <1>6, <1>7, <1>8, <1>9 DEF Next, Encrypt, Decrypt

(* Type correctness of a session under any interleaving (TypeOK).          *)
THEOREM TypeCorrect == Spec => []TypeOK
<1>1. RecvInv => TypeOK
  BY DEF RecvInv
<1> QED BY <1>1, InitRecv, StepRecv, PTL DEF Spec

(* CheckAndUpdate accepts exactly the fresh nonces of the window, whatever *)
(* the word size and number of words (FilterExact).                        *)
THEOREM FilterIsExact == Spec => []FilterExact
<1>1. RecvInv => FilterExact
  <2> SUFFICES ASSUME RecvInv, NEW n \in Nonce
               PROVE  checkLocked(recvNonce, n) <=>
                        \/ n > recvNonce.maxNonce
                        \/ recvNonce.maxNonce - n < ReplayWindowSize /\ n \notin consumed
    BY DEF FilterExact
  <2> DEFINE m == recvNonce.maxNonce
  <2>1. m \in Nat /\ n \in Nat
    BY NonceFacts DEF RecvInv, TypeOK
  <2>2. CASE n > m
    BY <2>2, <2>1 DEF checkLocked
  <2>3. CASE n <= m /\ m - n < ReplayWindowSize
    <3>1. m - n \in Nat /\ m - (m - n) = n /\ ~(n > m)
      BY <2>1, <2>3
    <3>2. BitSet(recvNonce.bitmap, m - n) <=> (m - (m - n)) \in consumed
      BY <2>3, <3>1 DEF RecvInv, Records
    <3> QED BY <3>1, <3>2, <2>3 DEF checkLocked
  <2>4. CASE n <= m /\ ~(m - n < ReplayWindowSize)
    BY <2>4, <2>1 DEF checkLocked
  <2> QED BY <2>1, <2>2, <2>3, <2>4
<1> QED BY <1>1, InitRecv, StepRecv, PTL DEF Spec

(* No plaintext is returned twice, for any number of decrypt workers       *)
(* (DeliveredOnce).                                                        *)
THEOREM AtMostOnceDelivery == Spec => []DeliveredOnce
<1>1. RecvInv => DeliveredOnce
  <2> SUFFICES ASSUME RecvInv, NEW n \in Nonce PROVE delivered[n] <= 1
    BY DEF DeliveredOnce
  <2>1. delivered[n] \in Nat /\ (delivered[n] > 0 => delivered[n] = 1)
    BY DEF RecvInv, TypeOK, DeliveredConsumed
  <2> QED BY <2>1
<1> QED BY <1>1, InitRecv, StepRecv, PTL DEF Spec

-----------------------------------------------------------------------------
(* The sending side, while the counter has not wrapped *)

(* Every nonce handed out so far lies below the counter, is held by one    *)
(* sender at most, and is unused while it is held.                         *)
SendInv ==
  /\ calls < NonceMod => sendNonce = calls
  /\ \A n \in Nonce : sealed[n] <= 1 /\ (sealed[n] > 0 => n < calls)
  /\ \A t \in Senders : spc[t] = "seal" => snonce[t] < calls /\ sealed[snonce[t]] = 0
  /\ \A t, u \in Senders :
       t # u /\ spc[t] = "seal" /\ spc[u] = "seal" => snonce[t] # snonce[u]

(* A genuine packet held by a worker was sealed by the sender.             *)
HeldSealed ==
  \A w \in Workers : wpc[w] # "idle" /\ wpkt[w].genuine => sealed[wpkt[w].nonce] > 0

FullInv == RecvInv /\ SendInv /\ HeldSealed

(* The whole invariant holds initially.                                    *)
LEMMA InitFull == Init => FullInv
<1> SUFFICES ASSUME Init PROVE FullInv
  OBVIOUS
<1>1. RecvInv
  BY InitRecv
<1>2. SendInv
  BY NonceAssumption DEF Init, SendInv
<1>3. HeldSealed
  BY DEF Init, HeldSealed
<1> QED BY <1>1, <1>2, <1>3 DEF FullInv

(* Up to NonceMod allocations, every step preserves the whole invariant.   *)
LEMMA StepFull ==
  ASSUME MaxCalls <= NonceMod
  PROVE  FullInv /\ [Next]_vars => FullInv'
<1> SUFFICES ASSUME FullInv, [Next]_vars PROVE FullInv'
  OBVIOUS
<1>0. RecvInv /\ TypeOK /\ SendInv /\ HeldSealed
  BY DEF FullInv, RecvInv
<1>r. RecvInv'
  BY <1>0, StepRecv
<1>n. NonceMod \in Nat /\ NonceMod > 2 /\ MaxCalls \in Nat /\ Nonce \subseteq Nat
  BY NonceAssumption, NonceFacts
<1>b. ASSUME UNCHANGED sendVars PROVE SendInv'
  BY <1>0, <1>b DEF sendVars, SendInv
<1>1. ASSUME NEW t \in Senders, EncryptBegin(t) PROVE SendInv' /\ HeldSealed'
  <2>1. SendInv'
    BY <1>0, <1>1 DEF EncryptBegin, SendInv, TypeOK
  <2>2. HeldSealed'
    BY <1>0, <1>1 DEF EncryptBegin, HeldSealed, recvVars
  <2> QED BY <2>1, <2>2
<1>2. ASSUME NEW t \in Senders, EncryptAllocate(t) PROVE SendInv' /\ HeldSealed'
  <2>1. calls \in Nat /\ calls < NonceMod /\ sendNonce = calls /\ calls' = calls + 1
    BY <1>0, <1>2, <1>n DEF EncryptAllocate, TypeOK, SendInv
  <2>2. calls' < NonceMod => sendNonce' = calls'
    BY <1>2, <1>n, <2>1 DEF EncryptAllocate
  <2>3. \A n \in Nonce : sealed'[n] <= 1 /\ (sealed'[n] > 0 => n < calls')
    BY <1>0, <1>2, <1>n, <2>1 DEF EncryptAllocate, SendInv
  <2>4. ASSUME NEW u \in Senders, spc'[u] = "seal"
        PROVE  /\ snonce'[u] < calls' /\ sealed'[snonce'[u]] = 0
               /\ snonce'[u] = IF u = t THEN calls ELSE snonce[u]
               /\ u # t => spc[u] = "seal"
    <3>1. CASE u = t
      <4>1. spc'[t] = "seal" => snonce'[t] = calls
        BY <1>0, <1>2, <2>1 DEF EncryptAllocate, TypeOK
      <4>2. calls \in Nonce
        BY <1>n, <2>1 DEF Nonce
      <4>3. sealed[calls] \in Nat /\ ~(sealed[calls] > 0)
        BY <4>2, <2>1, <1>0 DEF SendInv, TypeOK
      <4>4. sealed' = sealed
        BY <1>2 DEF EncryptAllocate
      <4> QED BY <3>1, <2>4, <4>1, <4>2, <4>3, <4>4, <2>1
    <3>2. CASE u # t
      <4>1. spc'[u] = spc[u] /\ snonce'[u] = snonce[u] /\ sealed' = sealed
        BY <3>2, <1>0, <1>2 DEF EncryptAllocate, TypeOK
      <4>2. snonce[u] \in Nat /\ snonce[u] < calls /\ sealed[snonce[u]] = 0
        BY <4>1, <2>4, <1>0, <1>n DEF SendInv, TypeOK
      <4> QED BY <3>2, <4>1, <4>2, <2>1, <2>4
    <3> QED BY <3>1, <3>2
  <2>5. ASSUME NEW u \in Senders, NEW v \in Senders, u # v, spc'[u] = "seal", spc'[v] = "seal"
        PROVE  snonce'[u] # snonce'[v]
    <3>1. \A x \in Senders : spc[x] = "seal" => snonce[x] \in Nat /\ snonce[x] < calls
      BY <1>0, <1>n DEF SendInv, TypeOK
    <3>2. CASE u = t
      BY <3>1, <3>2, <2>1, <2>4, <2>5
    <3>3. CASE v = t
      BY <3>1, <3>3, <2>1, <2>4, <2>5
    <3>4. CASE u # t /\ v # t
      BY <3>4, <2>4, <2>5, <1>0 DEF SendInv
    <3> QED BY <3>2, <3>3, <3>4
  <2>6. SendInv'
    BY <2>2, <2>3, <2>4, <2>5 DEF SendInv
  <2>7. HeldSealed'
    BY <1>0, <1>2 DEF EncryptAllocate, HeldSealed, recvVars
  <2> QED BY <2>6, <2>7
<1>3. ASSUME NEW t \in Senders, EncryptSeal(t) PROVE SendInv' /\ HeldSealed'
  <2> DEFINE k == snonce[t]
  <2>1. /\ k \in Nonce /\ k < calls /\ sealed[k] = 0
        /\ sealed' = [sealed EXCEPT ![k] = sealed[k] + 1]
        /\ spc' = [spc EXCEPT ![t] = "idle"]
        /\ snonce' = [snonce EXCEPT ![t] = 0]
        /\ UNCHANGED <<sendNonce, calls, wpc, wpkt>>
    BY <1>0, <1>3 DEF EncryptSeal, SendInv, TypeOK, recvVars
  <2>2. \A u \in Senders : spc'[u] = "seal" =>
          spc[u] = "seal" /\ u # t /\ snonce'[u] = snonce[u] /\ snonce[u] # k
    BY <1>0, <1>3, <2>1 DEF TypeOK, SendInv, EncryptSeal
  <2> HIDE DEF k
  <2>3. \A n \in Nonce : sealed'[n] = IF n = k THEN 1 ELSE sealed[n]
    BY <1>0, <2>1 DEF TypeOK
  <2>4. \A n \in Nonce : sealed'[n] <= 1 /\ (sealed'[n] > 0 => n < calls')
    BY <1>0, <2>1, <2>3 DEF SendInv
  <2>5. \A u \in Senders : snonce[u] \in Nonce
    BY <1>0 DEF TypeOK
  <2>6. \A u \in Senders : spc'[u] = "seal" =>
          snonce'[u] < calls' /\ sealed'[snonce'[u]] = 0
    BY <1>0, <2>1, <2>2, <2>3, <2>5 DEF SendInv
  <2>7. \A u, v \in Senders :
          u # v /\ spc'[u] = "seal" /\ spc'[v] = "seal" => snonce'[u] # snonce'[v]
    BY <1>0, <2>2 DEF SendInv
  <2>8. SendInv'
    BY <1>0, <2>1, <2>4, <2>6, <2>7 DEF SendInv
  <2>9. HeldSealed'
    <3>1. \A w \in Workers : wpkt[w].nonce \in Nonce
      BY <1>0 DEF TypeOK, Packet
    <3> QED BY <1>0, <2>1, <2>3, <3>1 DEF HeldSealed
  <2> QED BY <2>8, <2>9
<1>4. ASSUME NEW w \in Workers, NEW pkt \in Packet, DecryptBegin(w, pkt)
      PROVE  SendInv' /\ HeldSealed'
  <2>1. SendInv'
    BY <1>b, <1>4 DEF DecryptBegin
  <2>2. HeldSealed'
    BY <1>0, <1>4 DEF DecryptBegin, HeldSealed, sendVars, Arrives, TypeOK
  <2> QED BY <2>1, <2>2
<1>5. ASSUME NEW w \in Workers, DecryptCheck(w) PROVE SendInv' /\ HeldSealed'
  <2>1. SendInv'
    BY <1>b, <1>5 DEF DecryptCheck
  <2>2. HeldSealed'
    BY <1>0, <1>5 DEF DecryptCheck, HeldSealed, sendVars, TypeOK
  <2> QED BY <2>1, <2>2
<1>6. ASSUME NEW w \in Workers, DecryptOpen(w) PROVE SendInv' /\ HeldSealed'
  <2>1. SendInv'
    BY <1>b, <1>6 DEF DecryptOpen
  <2>2. HeldSealed'
    BY <1>0, <1>6 DEF DecryptOpen, HeldSealed, sendVars, TypeOK
  <2> QED BY <2>1, <2>2
<1>7. ASSUME ExpireSender PROVE SendInv' /\ HeldSealed'
  BY <1>0, <1>7 DEF ExpireSender, SendInv, HeldSealed, recvVars
<1>8. ASSUME ExpireReceiver PROVE SendInv' /\ HeldSealed'
  BY <1>0, <1>8 DEF ExpireReceiver, SendInv, HeldSealed, sendVars
<1>9. ASSUME UNCHANGED vars PROVE SendInv' /\ HeldSealed'
  BY <1>0, <1>9 DEF vars, sendVars, recvVars, SendInv, HeldSealed
<1>10. SendInv' /\ HeldSealed'
  BY <1>1, <1>2, <1>3, <1>4, <1>5, <1>6, <1>7, <1>8, <1>9 DEF Next, Encrypt, Decrypt
<1> QED BY <1>r, <1>10 DEF FullInv

(* Until the counter wraps, concurrent Encrypt calls never share a nonce   *)
(* (NonceUsedOnce).                                                        *)
THEOREM NonceNeverReused ==
  ASSUME MaxCalls <= NonceMod
  PROVE  Spec => []NonceUsedOnce
<1>1. FullInv => NonceUsedOnce
  BY DEF FullInv, SendInv, NonceUsedOnce
<1>2. FullInv /\ [Next]_vars => FullInv'
  BY StepFull
<1> QED BY <1>1, <1>2, InitFull, PTL DEF Spec

(* Until the counter wraps, the session implements the abstract channel    *)
(* AntiReplay: each of its steps is a Seal, a Deliver or a stutter         *)
(* (ImplementsAntiReplay).                                                 *)
THEOREM SessionImplementsAntiReplay ==
  ASSUME MaxCalls <= NonceMod
  PROVE  Spec => ImplementsAntiReplay
<1>1. Init => Channel!Init
  BY DEF Init, Channel!Init
<1>2. FullInv /\ [Next]_vars => [Channel!Next]_Channel!vars
  <2> SUFFICES ASSUME FullInv, [Next]_vars PROVE [Channel!Next]_Channel!vars
    OBVIOUS
  <2>0. TypeOK /\ SendInv /\ HeldSealed /\ DeliveredConsumed
    BY DEF FullInv, RecvInv
  <2>s. ASSUME UNCHANGED <<sealed, delivered>> PROVE [Channel!Next]_Channel!vars
    BY <2>s DEF Channel!vars
  <2>1. ASSUME NEW t \in Senders, EncryptBegin(t) PROVE UNCHANGED <<sealed, delivered>>
    BY <2>1 DEF EncryptBegin, recvVars
  <2>2. ASSUME NEW t \in Senders, EncryptAllocate(t) PROVE UNCHANGED <<sealed, delivered>>
    BY <2>2 DEF EncryptAllocate, recvVars
  <2>3. ASSUME NEW t \in Senders, EncryptSeal(t) PROVE Channel!Next
    <3>1. snonce[t] \in Nonce /\ sealed[snonce[t]] = 0
      BY <2>0, <2>3 DEF EncryptSeal, SendInv, TypeOK
    <3>2. sealed' = [sealed EXCEPT ![snonce[t]] = 1] /\ UNCHANGED delivered
      BY <3>1, <2>3 DEF EncryptSeal, recvVars
    <3> QED BY <3>1, <3>2 DEF Channel!Next, Channel!Seal
  <2>4. ASSUME NEW w \in Workers, NEW pkt \in Packet, DecryptBegin(w, pkt)
        PROVE  UNCHANGED <<sealed, delivered>>
    BY <2>4 DEF DecryptBegin, sendVars
  <2>5. ASSUME NEW w \in Workers, DecryptCheck(w) PROVE UNCHANGED <<sealed, delivered>>
    BY <2>5 DEF DecryptCheck, sendVars
  <2>6. ASSUME NEW w \in Workers, DecryptOpen(w) PROVE [Channel!Next]_Channel!vars
    <3> DEFINE n == wpkt[w].nonce
    <3>1. n \in Nonce /\ wpc[w] = "open" /\ UNCHANGED sealed
      BY <2>0, <2>6 DEF DecryptOpen, TypeOK, Packet, sendVars
    <3>2. CASE wpkt[w].genuine
      <4>1. sealed[n] \in Nat /\ sealed[n] > 0 /\ sealed[n] <= 1
        BY <2>0, <3>1, <3>2 DEF HeldSealed, SendInv, TypeOK
      <4>2. delivered[n] \in Nat /\ ~(delivered[n] > 0)
        BY <2>0, <3>1 DEF DeliveredConsumed, TypeOK
      <4>3. sealed[n] = 1 /\ delivered[n] = 0
        BY <4>1, <4>2
      <4>4. delivered' = [delivered EXCEPT ![n] = 1]
        BY <2>6, <3>2, <4>3 DEF DecryptOpen
      <4>5. Channel!Deliver(n)
        BY <3>1, <4>3, <4>4 DEF Channel!Deliver
      <4> QED BY <3>1, <4>5 DEF Channel!Next
    <3>3. CASE ~wpkt[w].genuine
      BY <3>1, <3>3, <2>6, <2>s DEF DecryptOpen
    <3> QED BY <3>2, <3>3
  <2>7. ASSUME ExpireSender \/ ExpireReceiver PROVE UNCHANGED <<sealed, delivered>>
    BY <2>7 DEF ExpireSender, ExpireReceiver, sendVars, recvVars
  <2>8. ASSUME UNCHANGED vars PROVE UNCHANGED <<sealed, delivered>>
    BY <2>8 DEF vars, sendVars, recvVars
  <2> QED
    BY <2>s, <2>1, <2>2, <2>3, <2>4, <2>5, <2>6, <2>7, <2>8 DEF Next, Encrypt, Decrypt
<1>3. FullInv /\ [Next]_vars => FullInv'
  BY StepFull
<1> QED BY <1>1, <1>2, <1>3, InitFull, PTL DEF Spec, ImplementsAntiReplay, Channel!Spec
=============================================================================
