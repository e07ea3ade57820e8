---------------------------- MODULE ReplayWindow ----------------------------
(***************************************************************************)
(* The sliding-window replay filter of pkg/giznet/internal/noise/replay.go *)
(* as pure operators on a filter record [bitmap, maxNonce].                *)
(*                                                                         *)
(* The Go bitmap is an array of replayWindowWords 64-bit words.  Here a    *)
(* word is the set of its bits that are 1, so the word and bit shifts of   *)
(* slideWindow, carry included, are kept as the code performs them.        *)
(***************************************************************************)
EXTENDS Integers

CONSTANTS WordBits,           \* bits of a word: 64 in the code
          replayWindowWords   \* words of the bitmap: 32 in the code

ASSUME WindowAssumption ==
  /\ WordBits \in Nat \ {0}
  /\ replayWindowWords \in Nat \ {0}

ReplayWindowSize == replayWindowWords * WordBits

Word == 0 .. (replayWindowWords - 1)
Bit  == 0 .. (WordBits - 1)

EmptyBitmap == [i \in Word |-> {}]

NewReplayFilter == [bitmap |-> EmptyBitmap, maxNonce |-> 0]

(* wordIndex and bitIndex of the position delta behind maxNonce *)
BitSet(bitmap, delta) == (delta % WordBits) \in bitmap[delta \div WordBits]

checkLocked(rf, nonce) ==
  \/ nonce > rf.maxNonce
  \/ /\ nonce <= rf.maxNonce
     /\ rf.maxNonce - nonce < ReplayWindowSize
     /\ ~BitSet(rf.bitmap, rf.maxNonce - nonce)

(* uint64 << n and >> n on words that are sets of bits *)
ShiftLeft(word, n)  == {b \in Bit : (b - n) \in word}
ShiftRight(word, n) == {b \in Bit : (b + n) \in word}

(* A slide whose bit shift forgets the carry from the word below *)
slideWindowNoCarry(bitmap, shift) ==
  LET wordShift == shift \div WordBits
      bitShift  == shift % WordBits
      moved == [i \in Word |-> IF i >= wordShift THEN bitmap[i - wordShift] ELSE {}]
  IN  IF shift >= ReplayWindowSize THEN EmptyBitmap
      ELSE [i \in Word |-> ShiftLeft(moved[i], bitShift)]

(***************************************************************************)
(* Whole words move to higher indices first, then every word is shifted    *)
(* left and takes the bits that fell out of the word below it.             *)
(***************************************************************************)
slideWindow(bitmap, shift) ==
  LET wordShift == shift \div WordBits
      bitShift  == shift % WordBits
      moved == [i \in Word |-> IF i >= wordShift THEN bitmap[i - wordShift] ELSE {}]
      carry(i) == IF i = 0 THEN {} ELSE ShiftRight(moved[i - 1], WordBits - bitShift)
  IN  IF shift >= ReplayWindowSize THEN EmptyBitmap
      ELSE IF bitShift = 0 THEN moved
      ELSE [i \in Word |-> ShiftLeft(moved[i], bitShift) \cup carry(i)]

MarkBit(bitmap, delta) ==
  [bitmap EXCEPT ![delta \div WordBits] = @ \cup {delta % WordBits}]

updateLocked(rf, nonce) ==
  IF nonce > rf.maxNonce
  THEN [bitmap   |-> MarkBit(slideWindow(rf.bitmap, nonce - rf.maxNonce), 0),
        maxNonce |-> nonce]
  ELSE IF rf.maxNonce - nonce < ReplayWindowSize
  THEN [rf EXCEPT !.bitmap = MarkBit(rf.bitmap, rf.maxNonce - nonce)]
  ELSE rf
=============================================================================
