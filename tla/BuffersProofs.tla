--------------------------- MODULE BuffersProofs ----------------------------
(***************************************************************************)
(* Proofs about the buffers of pkg/buffer, for storage of any size, slices *)
(* of any length and any number of values.                                 *)
(*                                                                         *)
(* The argument: a place of the storage is named by its distance from head *)
(* (or from tail) around the circle.  Each copy is stated as what it puts  *)
(* at every distance, which turns the cases of the code, whether the slice *)
(* crosses the end of the storage or not, into arithmetic without modulus. *)
(***************************************************************************)
EXTENDS Buffers, SequenceTheorems, TLAPS

Place == 0 .. (Size - 1)
Storage == [Place -> Nat]

-----------------------------------------------------------------------------
(* Places around the circle *)

(* A remainder is known once its quotient is. *)
LEMMA RemainderUnique ==
  ASSUME NEW x \in Nat, NEW q \in Nat, NEW r \in Place, x = Size * q + r
  PROVE  x % Size = r
<1> DEFINE p == x \div Size
           s == x % Size
<1>1. p \in Nat /\ s \in Place /\ Size * p + s = Size * q + r
  BY BuffersAssumption DEF Place
<1>2. Size \in Nat /\ Size > 0 /\ r \in Nat /\ s \in Nat /\ r < Size /\ s < Size
  BY <1>1, BuffersAssumption DEF Place
<1> HIDE DEF p, s
<1>3. p = q
  <2>1. ASSUME p < q PROVE FALSE
    <3>1. Size * (p + 1) <= Size * q /\ Size * (p + 1) = Size * p + Size
      BY <1>1, <1>2, <2>1
    <3>2. Size * p \in Nat /\ Size * q \in Nat
      BY <1>1, <1>2
    <3> QED
      BY <1>1, <1>2, <3>1, <3>2
  <2>2. ASSUME q < p PROVE FALSE
    <3>1. Size * (q + 1) <= Size * p /\ Size * (q + 1) = Size * q + Size
      BY <1>1, <1>2, <2>2
    <3>2. Size * p \in Nat /\ Size * q \in Nat
      BY <1>1, <1>2
    <3> QED
      BY <1>1, <1>2, <3>1, <3>2
  <2> QED
    BY <1>1, <2>1, <2>2
<1> QED
  BY <1>1, <1>2, <1>3 DEF s

(* Going i places on, at most once around: the end of the storage is followed by
   its start. *)
LEMMA PlaceAfter ==
  ASSUME NEW x \in Nat, NEW i \in 0 .. Size
  PROVE  /\ x % Size \in Place
         /\ (x + i) % Size = IF (x % Size) + i < Size THEN (x % Size) + i ELSE (x % Size) + i - Size
<1> DEFINE p == x \div Size
           s == x % Size
<1>1. p \in Nat /\ s \in Place /\ x = Size * p + s
  BY BuffersAssumption DEF Place
<1>2. Size \in Nat /\ Size > 0 /\ i \in Nat /\ i <= Size
  BY BuffersAssumption
<1> HIDE DEF p, s
<1>3. (x + i) % Size = IF s + i < Size THEN s + i ELSE s + i - Size
  <2>1. CASE s + i < Size
    <3>1. s + i \in Place /\ x + i \in Nat /\ x + i = Size * p + (s + i)
      BY <1>1, <1>2, <2>1 DEF Place
    <3>2. (x + i) % Size = s + i
      BY <1>1, <3>1, RemainderUnique
    <3> QED
      BY <2>1, <3>2
  <2>2. CASE ~(s + i < Size)
    <3>1. s + i - Size \in Place /\ x + i \in Nat
      BY <1>1, <1>2, <2>2 DEF Place
    <3>2. Size * (p + 1) = Size * p + Size /\ Size * p \in Nat /\ p + 1 \in Nat
      BY <1>1, <1>2
    <3>3. x + i = Size * (p + 1) + (s + i - Size)
      BY <1>1, <1>2, <3>1, <3>2 DEF Place
    <3>4. (x + i) % Size = s + i - Size
      BY <3>1, <3>2, <3>3, RemainderUnique
    <3> QED
      BY <2>2, <3>4
  <2> QED
    BY <2>1, <2>2
<1> QED
  BY <1>1, <1>3, Zenon DEF s

(* The distance of a place from place t, in the direction values are written *)
Distance(t, x) == IF t <= x THEN x - t ELSE x - t + Size

LEMMA DistanceOfPlace ==
  ASSUME NEW x \in Nat, NEW i \in Place
  PROVE  /\ (x + i) % Size \in Place
         /\ Distance(x % Size, (x + i) % Size) = i
<1> DEFINE s == x % Size
           y == (x + i) % Size
<1>1. Size \in Nat /\ i \in 0 .. Size /\ i < Size
  BY BuffersAssumption DEF Place
<1>2. s \in Place /\ y = IF s + i < Size THEN s + i ELSE s + i - Size
  BY <1>1, PlaceAfter, Zenon DEF s, y
<1> HIDE DEF s, y
<1>3. y \in Place /\ Distance(s, y) = i
  BY <1>1, <1>2 DEF Distance, Place
<1> QED
  BY <1>3, Zenon DEF s, y

(* Whole turns do not matter. *)
LEMMA TurnAround ==
  ASSUME NEW x \in Nat
  PROVE  x % Size \in Place /\ (x + Size) % Size = x % Size
<1> DEFINE s == x % Size
           y == (x + Size) % Size
<1>1. Size \in 0 .. Size
  BY BuffersAssumption
<1>2. s \in Place /\ y = IF s + Size < Size THEN s + Size ELSE s + Size - Size
  BY <1>1, PlaceAfter, Zenon DEF s, y
<1> HIDE DEF s, y
<1>3. y = s
  BY <1>1, <1>2 DEF Place
<1> QED
  BY <1>2, <1>3, Zenon DEF s, y

-----------------------------------------------------------------------------
(* Copying *)

LEMMA LeastIs ==
  ASSUME NEW a \in Int, NEW b \in Int
  PROVE  /\ Least(a, b) \in Int /\ Least(a, b) <= a /\ Least(a, b) <= b
         /\ Least(a, b) = a \/ Least(a, b) = b
  BY DEF Least

LEMMA AfterIs ==
  ASSUME NEW s \in Seq(Nat), NEW n \in 0 .. Len(s)
  PROVE  /\ After(s, n) \in Seq(Nat) /\ Len(After(s, n)) = Len(s) - n
         /\ \A i \in 1 .. (Len(s) - n) : After(s, n)[i] = s[n + i]
<1>1. n + 1 \in 1 .. (Len(s) + 1) /\ Len(s) \in Nat
  OBVIOUS
<1>2. /\ SubSeq(s, n + 1, Len(s)) \in Seq(Nat)
      /\ Len(SubSeq(s, n + 1, Len(s))) = IF n + 1 <= Len(s) THEN Len(s) - (n + 1) + 1 ELSE 0
      /\ \A i \in 1 .. (Len(s) - (n + 1) + 1) : SubSeq(s, n + 1, Len(s))[i] = s[(n + 1) + i - 1]
  BY <1>1, SubSeqProperties
<1> QED
  BY <1>1, <1>2 DEF After

LEMMA NumbersAre ==
  ASSUME NEW n \in Nat, NEW k \in Nat
  PROVE  /\ Numbers(n, k) \in Seq(Nat) /\ Len(Numbers(n, k)) = k
         /\ \A i \in 1 .. k : Numbers(n, k)[i] = n + i
  BY DEF Numbers

(* copy changes the places from lo on, as far as the slice and the values reach. *)
LEMMA CopyIs ==
  ASSUME NEW dst \in Storage, NEW lo \in Nat, NEW hi \in Nat, lo <= hi, hi <= Size,
         NEW src \in Seq(Nat)
  PROVE  /\ CopyTo(dst, lo, hi, src) \in Storage
         /\ Copied(lo, hi, src) = IF hi - lo < Len(src) THEN hi - lo ELSE Len(src)
         /\ \A x \in Place :
              CopyTo(dst, lo, hi, src)[x] =
                IF lo <= x /\ x < lo + Copied(lo, hi, src) THEN src[x - lo + 1] ELSE dst[x]
<1>1. Copied(lo, hi, src) = IF hi - lo < Len(src) THEN hi - lo ELSE Len(src)
  BY DEF Copied, Least
<1>2. DOMAIN dst = Place
  BY DEF Storage
<1> DEFINE c == Copied(lo, hi, src)
<1>3. CopyTo(dst, lo, hi, src) =
        [x \in Place |-> IF lo <= x /\ x < lo + c THEN src[x - lo + 1] ELSE dst[x]]
  BY <1>2 DEF CopyTo
<1>4. c \in 0 .. Len(src)
  BY <1>1
<1> HIDE DEF c
<1>5. \A x \in Place : (IF lo <= x /\ x < lo + c THEN src[x - lo + 1] ELSE dst[x]) \in Nat
  <2> TAKE x \in Place
  <2>1. x \in Nat /\ dst[x] \in Nat
    BY BuffersAssumption DEF Place, Storage
  <2>2. lo <= x /\ x < lo + c => src[x - lo + 1] \in Nat
    BY <1>4, <2>1
  <2> QED
    BY <2>1, <2>2
<1>6. CopyTo(dst, lo, hi, src) \in Storage
  BY <1>3, <1>5 DEF Storage
<1>7. \A x \in Place :
        CopyTo(dst, lo, hi, src)[x] =
          IF lo <= x /\ x < lo + c THEN src[x - lo + 1] ELSE dst[x]
  BY <1>3
<1> QED
  BY <1>1, <1>6, <1>7 DEF c

LEMMA CopyToStartIs ==
  ASSUME NEW dst \in Storage, NEW hi \in Nat, hi <= Size, NEW src \in Seq(Nat)
  PROVE  /\ CopyTo(dst, 0, hi, src) \in Storage
         /\ Copied(0, hi, src) = IF hi < Len(src) THEN hi ELSE Len(src)
         /\ \A x \in Place :
              CopyTo(dst, 0, hi, src)[x] = IF x < Copied(0, hi, src) THEN src[x + 1] ELSE dst[x]
<1> DEFINE lo == 0
           c == Copied(lo, hi, src)
<1>1. lo \in Nat /\ lo <= hi
  OBVIOUS
<1> HIDE DEF lo
<1>2. /\ CopyTo(dst, lo, hi, src) \in Storage
      /\ c = IF hi - lo < Len(src) THEN hi - lo ELSE Len(src)
      /\ \A x \in Place :
           CopyTo(dst, lo, hi, src)[x] = IF lo <= x /\ x < lo + c THEN src[x - lo + 1] ELSE dst[x]
  BY <1>1, CopyIs, Zenon
<1> HIDE DEF c
<1>3. Place \subseteq Nat /\ Len(src) \in Nat
  BY BuffersAssumption DEF Place
<1>4. c = IF hi < Len(src) THEN hi ELSE Len(src)
  BY <1>2, <1>3 DEF lo
<1>5. ASSUME NEW x \in Place
      PROVE  CopyTo(dst, lo, hi, src)[x] = IF x < c THEN src[x + 1] ELSE dst[x]
  <2>1. x \in Nat /\ (lo <= x /\ x < lo + c <=> x < c) /\ x - lo + 1 = x + 1
    BY <1>3, <1>4 DEF lo
  <2> QED
    BY <1>2, <2>1, Zenon
<1> QED
  BY <1>2, <1>4, <1>5, Zenon DEF lo, c

-----------------------------------------------------------------------------
(* Filling the free places: the first values of p that fit, from tail on. *)
LEMMA FillFreeIs ==
  ASSUME slots \in Storage, tail \in Nat, Available \in 0 .. Size, NEW p \in Seq(Nat),
         NEW k, k = Least(Len(p), Size - Available)
  PROVE  /\ FillFree(p) \in Storage
         /\ \A x \in Place : LET d == Distance(tail % Size, x) IN
              FillFree(p)[x] = IF d < k THEN p[d + 1] ELSE slots[x]
<1> DEFINE avail == Size - Available
           t == tail % Size
           first == CopyTo(slots, t, Size, p)
           n == Copied(t, Size, p)
           rest == After(p, n)
<1>0. t \in Place
  BY TurnAround, Zenon
<1>1. /\ t \in Place /\ Size \in Nat /\ Size > 0 /\ avail \in Nat /\ avail <= Size /\ Len(p) \in Nat
      /\ k = Least(Len(p), avail)
  <2>1. Len(p) \in Nat
    OBVIOUS
  <2> HIDE DEF t
  <2> QED
    BY <1>0, <2>1, BuffersAssumption
<1>2. FillFree(p) = IF t + avail <= Size THEN CopyTo(slots, t, t + avail, p)
                    ELSE CopyTo(first, 0, avail - n, rest)
  BY Zenon DEF FillFree
<1> HIDE DEF avail, t
<1>3. CASE t + avail <= Size
  <2>1. /\ t \in Nat /\ t + avail \in Nat /\ t <= t + avail
    BY <1>1 DEF Place
  <2> DEFINE c == Copied(t, t + avail, p)
  <2>2. /\ CopyTo(slots, t, t + avail, p) \in Storage
        /\ c = IF (t + avail) - t < Len(p) THEN (t + avail) - t ELSE Len(p)
        /\ \A x \in Place : CopyTo(slots, t, t + avail, p)[x] =
             IF t <= x /\ x < t + c THEN p[x - t + 1] ELSE slots[x]
    BY <1>3, <2>1, CopyIs, Zenon
  <2> HIDE DEF c
  <2>3. c = k
    BY <1>1, <2>1, <2>2 DEF Least
  <2>4. ASSUME NEW x \in Place
        PROVE  FillFree(p)[x] = IF Distance(t, x) < k THEN p[Distance(t, x) + 1] ELSE slots[x]
    <3>1. FillFree(p)[x] = IF t <= x /\ x < t + k THEN p[x - t + 1] ELSE slots[x]
      BY <1>2, <1>3, <2>2, <2>3
    <3>2. Distance(t, x) = IF t <= x THEN x - t ELSE x - t + Size
      BY DEF Distance
    <3>3. k <= avail /\ k \in Nat
      BY <1>1 DEF Least
    <3> QED
      BY <1>1, <1>3, <3>1, <3>2, <3>3 DEF Place
  <2> QED
    BY <1>2, <1>3, <2>2, <2>4 DEF t
<1>4. CASE ~(t + avail <= Size)
  <2>1. /\ t \in Nat /\ t <= Size /\ Size \in Nat /\ Size <= Size
    BY <1>1 DEF Place
  <2>2. /\ first \in Storage
        /\ n = IF Size - t < Len(p) THEN Size - t ELSE Len(p)
        /\ \A x \in Place : first[x] = IF t <= x /\ x < t + n THEN p[x - t + 1] ELSE slots[x]
    BY <2>1, CopyIs, Zenon
  <2> HIDE DEF first, n
  <2>3. n \in 0 .. Len(p) /\ n <= avail /\ n <= Size - t
    BY <1>1, <1>4, <2>1, <2>2
  <2>4. /\ rest \in Seq(Nat) /\ Len(rest) = Len(p) - n
        /\ \A i \in 1 .. (Len(p) - n) : rest[i] = p[n + i]
    BY <2>3, AfterIs
  <2> HIDE DEF rest
  <2> DEFINE c == Copied(0, avail - n, rest)
  <2>5. avail - n \in Nat /\ avail - n <= Size
    BY <1>1, <2>3
  <2>6. /\ CopyTo(first, 0, avail - n, rest) \in Storage
        /\ c = IF avail - n < Len(rest) THEN avail - n ELSE Len(rest)
        /\ \A x \in Place :
             CopyTo(first, 0, avail - n, rest)[x] = IF x < c THEN rest[x + 1] ELSE first[x]
    BY <2>2, <2>4, <2>5, CopyToStartIs, Zenon
  <2> HIDE DEF c
  <2>7. c = k - n /\ n <= k /\ k \in Nat /\ k <= avail /\ k <= Len(p)
    BY <1>1, <2>3, <2>4, <2>5, <2>6 DEF Least
  <2>8. ASSUME NEW x \in Place
        PROVE  FillFree(p)[x] = IF Distance(t, x) < k THEN p[Distance(t, x) + 1] ELSE slots[x]
    <3>1. x \in Nat /\ x < Size
      BY <1>1 DEF Place
    <3>2. Distance(t, x) = IF t <= x THEN x - t ELSE x - t + Size
      BY DEF Distance
    <3>3. FillFree(p)[x] = IF x < k - n THEN rest[x + 1] ELSE first[x]
      BY <1>2, <1>4, <2>3, <2>6, <2>7, <3>1
    <3>4. n < k => n = Size - t
      BY <1>1, <2>1, <2>2, <2>3, <2>7
    <3>5. CASE x < k - n
      <4>1. x + 1 \in 1 .. (Len(p) - n)
        BY <1>1, <2>3, <2>7, <3>1, <3>5
      <4>2. rest[x + 1] = p[n + (x + 1)]
        BY <2>4, <4>1
      <4>3. n = Size - t /\ x < t
        BY <1>1, <2>1, <2>3, <2>7, <3>1, <3>4, <3>5
      <4>4. Distance(t, x) < k /\ Distance(t, x) + 1 = n + (x + 1)
        BY <1>1, <2>1, <2>7, <3>1, <3>2, <3>5, <4>3
      <4> QED
        BY <3>3, <3>5, <4>2, <4>4
    <3>6. CASE ~(x < k - n)
      <4>1. FillFree(p)[x] = IF t <= x /\ x < t + n THEN p[x - t + 1] ELSE slots[x]
        BY <2>2, <3>3, <3>6
      <4>2. CASE t <= x
        <5>1. x < t + n <=> x - t < k
          BY <1>1, <2>1, <2>2, <2>3, <2>7, <3>1, <3>4, <4>2
        <5> QED
          BY <3>2, <4>1, <4>2, <5>1
      <4>3. CASE ~(t <= x)
        <5>1. ~(x - t + Size < k)
          BY <1>1, <2>1, <2>2, <2>3, <2>7, <3>1, <3>4, <3>6, <4>3
        <5> QED
          BY <3>2, <4>1, <4>3, <5>1
      <4> QED
        BY <4>2, <4>3
    <3> QED
      BY <3>5, <3>6
  <2> QED
    BY <1>2, <1>4, <2>6, <2>8 DEF t
<1> QED
  BY <1>3, <1>4

-----------------------------------------------------------------------------
(* Overwriting: c from place h on, b behind it, both over the end of the storage *)
OneBehindTheOther(buf, h, c, b) ==
  LET cp1 == Copied(h, Size, c)
      with == CopyTo(buf, h, Size, c)
      bp1 == Copied(h + cp1, Size, b) IN
  IF cp1 < Len(c)
    THEN CopyTo(CopyTo(with, 0, Size, After(c, cp1)), Len(c) - cp1, Size, b)
    ELSE CopyTo(CopyTo(with, h + cp1, Size, b), 0, Size, After(b, bp1))

LEMMA OneBehindTheOtherIs ==
  ASSUME NEW buf \in Storage, NEW h \in Place, NEW c \in Seq(Nat), NEW b \in Seq(Nat),
         Len(c) + Len(b) <= Size
  PROVE  /\ OneBehindTheOther(buf, h, c, b) \in Storage
         /\ \A x \in Place : LET d == Distance(h, x) IN
              OneBehindTheOther(buf, h, c, b)[x] =
                IF d < Len(c) THEN c[d + 1]
                ELSE IF d < Len(c) + Len(b) THEN b[d - Len(c) + 1] ELSE buf[x]
<1> DEFINE cp1 == Copied(h, Size, c)
           with == CopyTo(buf, h, Size, c)
           bp1 == Copied(h + cp1, Size, b)
           crest == After(c, cp1)
           brest == After(b, bp1)
           m == Len(c)
           n == Len(b)
<1>1. /\ h \in Nat /\ h < Size /\ h <= Size /\ Size \in Nat /\ Size <= Size
      /\ m \in Nat /\ n \in Nat /\ m + n <= Size
  BY BuffersAssumption DEF Place
<1>i. h \in Nat /\ h <= Size /\ Size \in Nat /\ Size <= Size
  BY <1>1
<1>2. /\ with \in Storage
      /\ cp1 = IF Size - h < m THEN Size - h ELSE m
      /\ \A x \in Place : with[x] = IF h <= x /\ x < h + cp1 THEN c[x - h + 1] ELSE buf[x]
  BY <1>i, CopyIs, Zenon
<1>3. OneBehindTheOther(buf, h, c, b) =
        IF cp1 < m THEN CopyTo(CopyTo(with, 0, Size, crest), m - cp1, Size, b)
        ELSE CopyTo(CopyTo(with, h + cp1, Size, b), 0, Size, brest)
  BY Zenon DEF OneBehindTheOther
<1>4. \A x \in Place : Distance(h, x) = IF h <= x THEN x - h ELSE x - h + Size
  BY DEF Distance
<1> HIDE DEF with, cp1, m, n
<1>5. cp1 \in 0 .. m
  BY <1>1, <1>2
<1>6. CASE cp1 < m
  <2>1. cp1 = Size - h
    BY <1>2, <1>6
  <2>2. /\ crest \in Seq(Nat) /\ Len(crest) = m - cp1
        /\ \A i \in 1 .. (m - cp1) : crest[i] = c[cp1 + i]
    BY <1>5, AfterIs DEF m
  <2> DEFINE turned == CopyTo(with, 0, Size, crest)
             k == Copied(0, Size, crest)
             low == m - cp1
             bp == Copied(low, Size, b)
  <2>3. /\ turned \in Storage
        /\ k = IF Size < Len(crest) THEN Size ELSE Len(crest)
        /\ \A x \in Place : turned[x] = IF x < k THEN crest[x + 1] ELSE with[x]
    BY <1>1, <1>2, <2>2, CopyToStartIs, Zenon
  <2> HIDE DEF turned, k, crest
  <2>4. k = m - cp1 /\ low \in Nat /\ low <= Size
    BY <1>1, <1>5, <2>2, <2>3
  <2> HIDE DEF low
  <2>5. /\ CopyTo(turned, low, Size, b) \in Storage
        /\ bp = IF Size - low < n THEN Size - low ELSE n
        /\ \A x \in Place : CopyTo(turned, low, Size, b)[x] =
             IF low <= x /\ x < low + bp THEN b[x - low + 1] ELSE turned[x]
    BY <1>i, <2>3, <2>4, CopyIs, Zenon DEF n
  <2> HIDE DEF bp
  <2>6. bp = n
    BY <1>1, <1>5, <2>1, <2>4, <2>5 DEF low
  <2>7. OneBehindTheOther(buf, h, c, b) = CopyTo(turned, low, Size, b)
    BY <1>3, <1>6 DEF turned, low
  <2>8. ASSUME NEW x \in Place
        PROVE  OneBehindTheOther(buf, h, c, b)[x] =
                 IF Distance(h, x) < m THEN c[Distance(h, x) + 1]
                 ELSE IF Distance(h, x) < m + n THEN b[Distance(h, x) - m + 1] ELSE buf[x]
    <3>1. x \in Nat /\ x < Size /\ low = m - cp1
      BY <1>1 DEF low, Place
    <3>d. Distance(h, x) = IF h <= x THEN x - h ELSE x - h + Size
      BY <1>4
    <3>2. OneBehindTheOther(buf, h, c, b)[x] =
            IF low <= x /\ x < low + n THEN b[x - low + 1] ELSE turned[x]
      BY <2>5, <2>6, <2>7
    <3>3. CASE h <= x
      <4>1. Distance(h, x) = x - h /\ x - h < m /\ ~(x < low + n) /\ ~(x < k) /\ x < h + cp1
        BY <1>1, <3>d, <1>5, <1>6, <2>1, <2>4, <3>1, <3>3
      <4> QED
        BY <1>2, <2>3, <3>2, <3>3, <4>1
    <3>4. CASE ~(h <= x) /\ x < low
      <4>1. /\ Distance(h, x) = x - h + Size /\ Distance(h, x) < m /\ x < k
            /\ x + 1 \in 1 .. (m - cp1) /\ cp1 + (x + 1) = Distance(h, x) + 1
        BY <1>1, <3>d, <1>5, <1>6, <2>1, <2>4, <3>1, <3>4
      <4>2. turned[x] = c[Distance(h, x) + 1]
        BY <2>2, <2>3, <4>1
      <4>3. ~(low <= x)
        BY <1>1, <1>5, <3>1, <3>4
      <4> QED
        BY <3>2, <4>1, <4>2, <4>3
    <3>5. CASE ~(h <= x) /\ ~(x < low)
      <4>1. /\ low <= x /\ ~(x < k) /\ Distance(h, x) = x - h + Size /\ ~(Distance(h, x) < m)
            /\ Distance(h, x) - m + 1 = x - low + 1
            /\ Distance(h, x) < m + n <=> x < low + n
        BY <1>1, <3>d, <1>5, <1>6, <2>1, <2>4, <3>1, <3>5
      <4>2. turned[x] = buf[x]
        BY <1>2, <2>3, <3>5, <4>1
      <4> QED
        BY <3>2, <4>1, <4>2
    <3> QED
      BY <3>3, <3>4, <3>5
  <2> QED
    BY <2>5, <2>7, <2>8 DEF m, n

<1>7. CASE ~(cp1 < m)
  <2>1. cp1 = m /\ m <= Size - h
    BY <1>1, <1>2, <1>5, <1>7
  <2> DEFINE low == h + cp1
             turned == CopyTo(with, low, Size, b)
             k == Copied(0, Size, brest)
  <2>2. low \in Nat /\ low <= Size
    BY <1>1, <2>1
  <2>3. bp1 = Copied(low, Size, b)
    OBVIOUS
  <2> HIDE DEF low, bp1, brest
  <2>4. /\ turned \in Storage
        /\ bp1 = IF Size - low < n THEN Size - low ELSE n
        /\ \A x \in Place : turned[x] =
             IF low <= x /\ x < low + bp1 THEN b[x - low + 1] ELSE with[x]
    <3> DEFINE bp == Copied(low, Size, b)
    <3>1. /\ turned \in Storage
          /\ bp = IF Size - low < n THEN Size - low ELSE n
          /\ \A x \in Place : turned[x] =
               IF low <= x /\ x < low + bp THEN b[x - low + 1] ELSE with[x]
      BY <1>i, <1>2, <2>2, CopyIs, Zenon DEF n
    <3> HIDE DEF bp, turned
    <3>2. bp = bp1
      BY <2>3 DEF bp
    <3> QED
      BY <3>1, <3>2
  <2>5. bp1 \in 0 .. n /\ bp1 <= Size - low
    BY <1>1, <2>2, <2>4
  <2>6. /\ brest \in Seq(Nat) /\ Len(brest) = n - bp1
        /\ \A i \in 1 .. (n - bp1) : brest[i] = b[bp1 + i]
    BY <2>5, AfterIs DEF n, brest
  <2> HIDE DEF turned
  <2>7. /\ CopyTo(turned, 0, Size, brest) \in Storage
        /\ k = IF Size < Len(brest) THEN Size ELSE Len(brest)
        /\ \A x \in Place : CopyTo(turned, 0, Size, brest)[x] =
             IF x < k THEN brest[x + 1] ELSE turned[x]
    BY <1>1, <2>4, <2>6, CopyToStartIs, Zenon
  <2> HIDE DEF k
  <2>8. k = n - bp1
    BY <1>1, <2>5, <2>6, <2>7
  <2>9. OneBehindTheOther(buf, h, c, b) = CopyTo(turned, 0, Size, brest)
    BY <1>3, <1>7 DEF turned, low
  <2>10. ASSUME NEW x \in Place
         PROVE  OneBehindTheOther(buf, h, c, b)[x] =
                  IF Distance(h, x) < m THEN c[Distance(h, x) + 1]
                  ELSE IF Distance(h, x) < m + n THEN b[Distance(h, x) - m + 1] ELSE buf[x]
    <3>1. x \in Nat /\ x < Size /\ low = h + m
      BY <1>1, <2>1 DEF low, Place
    <3>d. Distance(h, x) = IF h <= x THEN x - h ELSE x - h + Size
      BY <1>4
    <3>2. OneBehindTheOther(buf, h, c, b)[x] = IF x < k THEN brest[x + 1] ELSE turned[x]
      BY <2>7, <2>9
    <3>3. bp1 < n => bp1 = Size - low
      BY <1>1, <2>2, <2>4
    <3>4. CASE x < k
      <4>1. /\ bp1 = Size - low /\ x < h /\ Distance(h, x) = x - h + Size
            /\ x + 1 \in 1 .. (n - bp1) /\ bp1 + (x + 1) = Distance(h, x) - m + 1
            /\ ~(Distance(h, x) < m) /\ Distance(h, x) < m + n
        BY <1>1, <3>d, <2>1, <2>5, <2>8, <3>1, <3>3, <3>4
      <4>2. brest[x + 1] = b[Distance(h, x) - m + 1]
        BY <2>6, <4>1
      <4> QED
        BY <3>2, <3>4, <4>1, <4>2
    <3>5. CASE ~(x < k) /\ h <= x
      <4>1. Distance(h, x) = x - h
        BY <3>d, <3>5
      <4>2. /\ Distance(h, x) < m <=> x < low
            /\ Distance(h, x) - m + 1 = x - low + 1
        BY <1>1, <3>1, <4>1
      <4>3. low <= x => (Distance(h, x) < m + n <=> x < low + bp1)
        BY <1>1, <2>2, <2>5, <3>1, <3>3, <4>1
      <4>4. x < low => with[x] = c[Distance(h, x) + 1]
        BY <1>2, <2>1, <3>1, <3>5, <4>1
      <4>5. ~(x < low) => with[x] = buf[x]
        BY <1>2, <2>1, <3>1, <3>5
      <4>6. x < low <=> ~(low <= x)
        BY <2>2, <3>1
      <4> QED
        BY <2>4, <3>2, <3>5, <4>2, <4>3, <4>4, <4>5, <4>6
    <3>6. CASE ~(x < k) /\ ~(h <= x)
      <4>1. /\ Distance(h, x) = x - h + Size /\ ~(Distance(h, x) < m + n)
            /\ ~(Distance(h, x) < m) /\ ~(low <= x)
        BY <1>1, <3>d, <2>1, <2>5, <2>8, <3>1, <3>3, <3>6
      <4> QED
        BY <1>2, <2>4, <3>2, <3>6, <4>1
    <3> QED
      BY <3>4, <3>5, <3>6
  <2> QED
    BY <2>7, <2>9, <2>10 DEF m, n
<1> QED
  BY <1>6, <1>7

(* What a Write that exceeds the free places leaves in the storage: from head on the
   values after the last whole turn, and behind them, if there was such a turn, the end of
   the turn before. *)
LEMMA OverwriteIs ==
  ASSUME NEW buf \in Storage, head \in Nat, NEW p \in Seq(Nat), NEW left \in 1 .. Len(p)
  PROVE  LET over == Overwrite(buf, p, left)
             cn == over.moved IN
         /\ cn = IF left <= Size THEN left ELSE left % Size
         /\ cn \in 0 .. Size
         /\ over.buf \in Storage
         /\ \A x \in Place : LET d == Distance(head % Size, x) IN
              over.buf[x] =
                IF d < cn THEN p[Len(p) - cn + d + 1]
                ELSE IF left <= Size THEN buf[x] ELSE p[Len(p) - Size + (d - cn) + 1]
<1> DEFINE over == Overwrite(buf, p, left)
           cn == IF left <= Size THEN left ELSE left % Size
           c == After(p, Len(p) - cn)
           b == IF left <= Size THEN <<>> ELSE SubSeq(p, Len(p) - Size + 1, Len(p) - cn)
           h == head % Size
           cp1 == Copied(h, Size, c)
           with == CopyTo(buf, h, Size, c)
           bp1 == Copied(h + cp1, Size, b)
           filled == IF cp1 < cn
                       THEN CopyTo(CopyTo(with, 0, Size, After(c, cp1)), cn - cp1, Size, b)
                       ELSE CopyTo(CopyTo(with, h + cp1, Size, b), 0, Size, After(b, bp1))
<1>o. over = [moved |-> cn, buf |-> filled]
  BY Zenon DEF Overwrite
<1>p. over.moved = cn /\ over.buf = filled
  <2> HIDE DEF cn, filled
  <2> QED
    BY <1>o
<1>h. h \in Place
  BY TurnAround, Zenon
<1>s. Size \in Nat /\ Size > 0 /\ Len(p) \in Nat /\ left \in Nat /\ left >= 1 /\ left <= Len(p)
  BY BuffersAssumption
<1>m. left % Size \in 0 .. (Size - 1)
  BY <1>s, TurnAround, Zenon DEF Place
<1>2. /\ cn \in Nat /\ cn <= Size /\ cn <= left /\ Len(p) - cn \in 0 .. Len(p)
      /\ Size < left => Len(p) - Size + 1 <= Len(p) - cn + 1
  BY <1>s, <1>m
<1> HIDE DEF over, h, cp1, with, bp1, filled
<1>3. /\ c \in Seq(Nat) /\ Len(c) = cn
      /\ \A i \in 1 .. cn : c[i] = p[Len(p) - cn + i]
  <2> DEFINE k == Len(p) - cn
  <2>1. k \in 0 .. Len(p) /\ Len(p) - k = cn
    BY <1>2, <1>s
  <2> HIDE DEF k, cn
  <2>2. /\ c \in Seq(Nat) /\ Len(c) = Len(p) - k
        /\ \A i \in 1 .. (Len(p) - k) : c[i] = p[k + i]
    BY <2>1, AfterIs, Zenon DEF k
  <2> QED
    BY <2>1, <2>2, Zenon DEF k
<1>1. over.buf = OneBehindTheOther(buf, h, c, b)
  <2> HIDE DEF c, b, cn
  <2> QED
    BY <1>p, <1>3, Zenon DEF OneBehindTheOther, filled, cp1, with, bp1
<1> HIDE DEF c, cn
<1>4. /\ b \in Seq(Nat)
      /\ Len(b) = IF left <= Size THEN 0 ELSE Size - cn
      /\ ~(left <= Size) => \A i \in 1 .. (Size - cn) : b[i] = p[Len(p) - Size + i]
  <2>1. CASE left <= Size
    <3>1. b = <<>>
      BY <2>1
    <3> QED
      BY <2>1, <3>1, EmptySeq, Zenon
  <2>2. CASE ~(left <= Size)
    <3> DEFINE lo == Len(p) - Size + 1
               hi == Len(p) - cn
    <3>1. /\ lo \in 1 .. Len(p) /\ hi \in 0 .. Len(p) /\ hi - lo + 1 = Size - cn
          /\ IF lo <= hi THEN hi - lo + 1 = Size - cn ELSE Size - cn = 0
      BY <1>s, <1>2, <2>2
    <3>2. \A i \in 1 .. (Size - cn) : lo + i - 1 = Len(p) - Size + i
      BY <1>s, <1>2
    <3>3. b = SubSeq(p, lo, hi)
      BY <2>2
    <3> HIDE DEF b, lo, hi
    <3>4. lo \in Int /\ hi \in Int /\ \A i \in lo .. hi : p[i] \in Nat
      BY <1>s, <3>1
    <3>5. /\ SubSeq(p, lo, hi) \in Seq(Nat)
          /\ Len(SubSeq(p, lo, hi)) = IF lo <= hi THEN hi - lo + 1 ELSE 0
          /\ \A i \in 1 .. hi - lo + 1 : SubSeq(p, lo, hi)[i] = p[lo + i - 1]
      BY <3>4, SubSeqProperties
    <3> QED
      BY <2>2, <3>1, <3>2, <3>3, <3>5
  <2> QED
    BY <2>1, <2>2
<1> HIDE DEF b
<1>5. Len(c) + Len(b) <= Size /\ (~(left <= Size) => Len(c) + Len(b) = Size)
  BY <1>s, <1>2, <1>3, <1>4
<1>6. /\ over.buf \in Storage
      /\ \A x \in Place :
           over.buf[x] =
             IF Distance(h, x) < Len(c) THEN c[Distance(h, x) + 1]
             ELSE IF Distance(h, x) < Len(c) + Len(b) THEN b[Distance(h, x) - Len(c) + 1]
             ELSE buf[x]
  <2> DEFINE o == OneBehindTheOther(buf, h, c, b)
  <2>1. /\ c \in Seq(Nat) /\ b \in Seq(Nat) /\ Len(c) + Len(b) <= Size
    BY <1>3, <1>4, <1>5
  <2>2. /\ o \in Storage
        /\ \A x \in Place :
             o[x] =
               IF Distance(h, x) < Len(c) THEN c[Distance(h, x) + 1]
               ELSE IF Distance(h, x) < Len(c) + Len(b) THEN b[Distance(h, x) - Len(c) + 1]
               ELSE buf[x]
    BY <1>h, <2>1, OneBehindTheOtherIs, Zenon
  <2> HIDE DEF o
  <2>3. over.buf = o
    BY <1>1 DEF o
  <2> QED
    BY <2>2, <2>3
<1>7. ASSUME NEW x \in Place
      PROVE  over.buf[x] =
               IF Distance(h, x) < cn THEN p[Len(p) - cn + Distance(h, x) + 1]
               ELSE IF left <= Size THEN buf[x] ELSE p[Len(p) - Size + (Distance(h, x) - cn) + 1]
  <2> DEFINE d == Distance(h, x)
  <2>1. d \in Nat /\ d < Size
    BY <1>h, <1>s DEF Distance, Place
  <2> HIDE DEF d
  <2>2. over.buf[x] = IF d < cn THEN c[d + 1]
                      ELSE IF d < cn + Len(b) THEN b[d - cn + 1] ELSE buf[x]
    BY <1>3, <1>6 DEF d
  <2>3. d < cn => c[d + 1] = p[Len(p) - cn + d + 1]
    <3>1. d < cn => d + 1 \in 1 .. cn /\ Len(p) - cn + (d + 1) = Len(p) - cn + d + 1
      BY <1>s, <1>2, <2>1
    <3> QED
      BY <1>3, <3>1
  <2>4. left <= Size => (d < cn + Len(b) <=> d < cn)
    BY <1>2, <1>4, <2>1
  <2>5. ~(left <= Size) /\ ~(d < cn) =>
          d < cn + Len(b) /\ b[d - cn + 1] = p[Len(p) - Size + (d - cn) + 1]
    <3>1. ~(left <= Size) /\ ~(d < cn) =>
            /\ d < cn + Len(b) /\ d - cn + 1 \in 1 .. (Size - cn)
            /\ Len(p) - Size + (d - cn + 1) = Len(p) - Size + (d - cn) + 1
      BY <1>s, <1>2, <1>4, <2>1
    <3> QED
      BY <1>4, <3>1
  <2> QED
    BY <2>2, <2>3, <2>4, <2>5, Zenon DEF d
<1>8. cn \in 0 .. Size
  BY <1>s, <1>2
<1> QED
  BY <1>p, <1>6, <1>7, <1>8, Zenon DEF over, h, cn

-----------------------------------------------------------------------------
(* A part of the storage as a sequence, cut to length *)
LEMMA StoragePart ==
  ASSUME slots \in Storage, NEW lo \in Nat, NEW hi \in Nat, lo <= hi, hi <= Size,
         NEW m \in Nat, m <= hi - lo
  PROVE  /\ SubSeq(Between(lo, hi), 1, m) \in Seq(Nat)
         /\ Len(SubSeq(Between(lo, hi), 1, m)) = m
         /\ \A i \in 1 .. m : SubSeq(Between(lo, hi), 1, m)[i] = slots[lo + i - 1]
<1> DEFINE s == Between(lo, hi)
<1>1. \A i \in 1 .. m : s[i] = slots[lo + i - 1] /\ lo + i - 1 \in Place
  BY BuffersAssumption DEF Between, Place
<1> HIDE DEF s
<1>2. 1 \in Int /\ m \in Int /\ \A i \in 1 .. m : s[i] \in Nat
  BY <1>1 DEF Storage
<1>3. /\ SubSeq(s, 1, m) \in Seq(Nat)
      /\ Len(SubSeq(s, 1, m)) = IF 1 <= m THEN m - 1 + 1 ELSE 0
      /\ \A i \in 1 .. m - 1 + 1 : SubSeq(s, 1, m)[i] = s[1 + i - 1]
  BY <1>2, SubSeqProperties
<1>4. (IF 1 <= m THEN m - 1 + 1 ELSE 0) = m /\ 1 .. (m - 1 + 1) = 1 .. m
      /\ \A i \in 1 .. m : 1 + i - 1 = i
  OBVIOUS
<1> QED
  BY <1>1, <1>3, <1>4 DEF s

(* What Read copies out of the storage: the values from head on, in order *)
LEMMA ReadOutIs ==
  ASSUME slots \in Storage, head \in Nat, Available \in 0 .. Size, NEW n \in Nat
  PROVE  /\ ReadOut(n) \in Seq(Nat)
         /\ Len(ReadOut(n)) = Least(n, Available)
         /\ \A i \in 1 .. Least(n, Available) : ReadOut(n)[i] = slots[(head + (i - 1)) % Size]
<1> DEFINE h == head % Size
           a == Available
           k == Least(n, a)
<1>1. h \in Place
  BY TurnAround, Zenon
<1>2. Size \in Nat /\ Size > 0 /\ a \in Nat /\ a <= Size
  BY BuffersAssumption
<1>3. \A i \in 1 .. a :
        (head + (i - 1)) % Size = IF h + (i - 1) < Size THEN h + (i - 1) ELSE h + (i - 1) - Size
  <2> TAKE i \in 1 .. a
  <2>1. i - 1 \in 0 .. Size
    BY <1>2
  <2> QED
    BY <2>1, PlaceAfter, Zenon
<1>4. ReadOut(n) =
        IF h + a <= Size THEN SubSeq(Between(h, h + a), 1, k)
        ELSE SubSeq(Between(h, Size), 1, Least(n, Size - h)) \o
             SubSeq(Between(0, a - Len(SubSeq(Between(h, Size), 1, Least(n, Size - h)))), 1,
                    k - Len(SubSeq(Between(h, Size), 1, Least(n, Size - h))))
  BY Zenon DEF ReadOut
<1> HIDE DEF h, a
<1>5. k \in Nat /\ k <= a /\ k <= n /\ (k = n \/ k = a)
  BY <1>2 DEF Least
<1>7. CASE h + a <= Size
  <2>1. h \in Nat /\ h + a \in Nat /\ h <= h + a /\ k \in Nat /\ k <= h + a - h
    BY <1>1, <1>2, <1>5, <1>7 DEF Place
  <2>2. /\ SubSeq(Between(h, h + a), 1, k) \in Seq(Nat)
        /\ Len(SubSeq(Between(h, h + a), 1, k)) = k
        /\ \A i \in 1 .. k : SubSeq(Between(h, h + a), 1, k)[i] = slots[h + i - 1]
    <3> DEFINE hi == h + a
    <3>1. hi \in Nat /\ h <= hi /\ hi <= Size /\ k <= hi - h
      BY <1>2, <1>5, <1>7, <2>1
    <3> HIDE DEF hi, k
    <3>2. /\ SubSeq(Between(h, hi), 1, k) \in Seq(Nat)
          /\ Len(SubSeq(Between(h, hi), 1, k)) = k
          /\ \A i \in 1 .. k : SubSeq(Between(h, hi), 1, k)[i] = slots[h + i - 1]
      BY <2>1, <3>1, StoragePart, Zenon
    <3> QED
      BY <3>2, Zenon DEF hi, k
  <2>3. \A i \in 1 .. k : (head + (i - 1)) % Size = h + i - 1
    <3> TAKE i \in 1 .. k
    <3>1. i \in 1 .. a /\ h + (i - 1) < Size /\ h + (i - 1) = h + i - 1
      BY <1>1, <1>2, <1>5, <1>7 DEF Place
    <3> QED
      BY <1>3, <3>1
  <2> QED
    BY <1>4, <1>7, <2>2, <2>3 DEF a
<1>8. CASE ~(h + a <= Size)
  <2> DEFINE u == Least(n, Size - h)
             first == SubSeq(Between(h, Size), 1, u)
             second == SubSeq(Between(0, a - Len(first)), 1, k - Len(first))
  <2>1. /\ u \in Nat /\ u <= Size - h /\ h \in Nat /\ h <= Size
        /\ Size \in Nat /\ Size <= Size
    BY <1>1, <1>2 DEF Place, Least
  <2>2. first \in Seq(Nat) /\ Len(first) = u /\ \A i \in 1 .. u : first[i] = slots[h + i - 1]
    BY <2>1, StoragePart, Zenon
  <2> HIDE DEF first
  <2>3. /\ u <= k /\ (u < k => u = Size - h)
        /\ a - u \in Nat /\ a - u <= Size /\ k - u \in Nat /\ k - u <= a - u
    BY <1>1, <1>2, <1>5, <1>8 DEF Place, Least
  <2>4. /\ second \in Seq(Nat) /\ Len(second) = k - u
        /\ \A i \in 1 .. (k - u) : second[i] = slots[0 + i - 1]
    <3> DEFINE lo == 0
               part == SubSeq(Between(lo, a - u), 1, k - u)
    <3>1. lo \in Nat /\ lo <= a - u /\ k - u <= (a - u) - lo
      BY <2>3
    <3> HIDE DEF lo
    <3>2. /\ part \in Seq(Nat) /\ Len(part) = k - u
          /\ \A i \in 1 .. (k - u) : part[i] = slots[lo + i - 1]
      BY <2>3, <3>1, StoragePart, Zenon
    <3> HIDE DEF part
    <3>3. second = part
      BY <2>2 DEF part, lo
    <3> HIDE DEF second
    <3> QED
      BY <3>2, <3>3 DEF lo
  <2> HIDE DEF second
  <2>5. ReadOut(n) = first \o second
    BY <1>4, <1>8 DEF first, second
  <2>6. /\ first \o second \in Seq(Nat)
        /\ Len(first \o second) = Len(first) + Len(second)
        /\ \A i \in 1 .. Len(first) + Len(second) :
             (first \o second)[i] = IF i <= Len(first) THEN first[i] ELSE second[i - Len(first)]
    BY <2>2, <2>4, ConcatProperties, Zenon
  <2>7. u \in Nat /\ u + (k - u) = k
    BY <1>5, <2>1, <2>3
  <2>8. ASSUME NEW i \in 1 .. k
        PROVE  (first \o second)[i] = slots[(head + (i - 1)) % Size]
    <3>1. i \in 1 .. Len(first) + Len(second) /\ i \in 1 .. a
      BY <1>2, <1>5, <2>2, <2>4, <2>7
    <3>2. CASE i <= u
      <4>1. i \in 1 .. u /\ h + (i - 1) < Size /\ h + (i - 1) = h + i - 1
        BY <1>1, <1>2, <2>1, <3>2 DEF Place
      <4> QED
        BY <1>3, <2>2, <2>6, <3>1, <3>2, <4>1
    <3>3. CASE ~(i <= u)
      <4>1. /\ i - u \in 1 .. (k - u) /\ u = Size - h
            /\ ~(h + (i - 1) < Size) /\ 0 + (i - u) - 1 = h + (i - 1) - Size
        BY <1>1, <1>2, <1>5, <2>1, <2>3, <3>3 DEF Place
      <4>2. second[i - u] = slots[h + (i - 1) - Size]
        BY <2>4, <4>1
      <4> QED
        BY <1>3, <2>2, <2>6, <3>1, <3>3, <4>1, <4>2
    <3> QED
      BY <3>2, <3>3
  <2> QED
    BY <2>2, <2>4, <2>5, <2>6, <2>7, <2>8 DEF a
<1> QED
  BY <1>7, <1>8

-----------------------------------------------------------------------------
(* The order of the values: the invariant *)

Stored == tail - head
Far(x) == Distance(head % Size, x)

StorageTyped ==
  /\ bkind \in {"block", "ring", "growable"}
  /\ slots \in [Place -> 0 .. MaxValues]
  /\ head \in Nat /\ tail \in Nat /\ Stored \in 0 .. Size
  /\ growable \in Seq(Nat)
  /\ written \in 0 .. MaxValues /\ gone \in 0 .. written

(* Each value stored is where its number says: the latest of them was written last. *)
InPlace ==
  /\ Circular => \A x \in Place : Far(x) < Stored => slots[x] = written - Stored + Far(x) + 1
  /\ ~Circular => \A i \in 1 .. Len(growable) : growable[i] = written - Len(growable) + i

NothingLost == Available = IF bkind = "ring" THEN Least(Size, written - gone) ELSE written - gone

GotRises ==
  /\ got \in Seq(Nat)
  /\ \A i \in 1 .. Len(got) : 1 <= got[i] /\ got[i] <= gone
  /\ \A i, j \in 1 .. Len(got) : i < j => got[i] < got[j]

OrderInv == StorageTyped /\ InPlace /\ NothingLost /\ GotRises

(* Seen from a places further on, a place is a nearer, or once around. *)
LEMMA DistanceShifts ==
  ASSUME NEW y \in Nat, NEW a \in 0 .. Size, NEW x \in Place
  PROVE  LET d == Distance(y % Size, x) IN
         /\ d \in Nat /\ d < Size
         /\ Distance((y + a) % Size, x) = IF a <= d THEN d - a ELSE d - a + Size
<1> DEFINE h == y % Size
           t == (y + a) % Size
<1>1. h \in Place /\ t = IF h + a < Size THEN h + a ELSE h + a - Size
  BY PlaceAfter, Zenon
<1> HIDE DEF h, t
<1>2. Size \in Nat /\ Size > 0
  BY BuffersAssumption
<1>3. /\ Distance(h, x) \in Nat /\ Distance(h, x) < Size
      /\ Distance(t, x) = IF a <= Distance(h, x) THEN Distance(h, x) - a
                                                 ELSE Distance(h, x) - a + Size
  BY <1>1, <1>2 DEF Distance, Place
<1> QED
  BY <1>3, Zenon DEF h, t

LEMMA Sizes ==
  ASSUME OrderInv
  PROVE  /\ Size \in Nat /\ Size > 0 /\ MaxValues \in Nat
         /\ written \in Nat /\ gone \in Nat /\ Available \in Nat /\ Len(growable) \in Nat
         /\ slots \in Storage
         /\ Available <= written - gone
         /\ Circular => Available = Stored /\ Available <= Size
         /\ ~Circular => Available = Len(growable)
<1>1. Size \in Nat /\ Size > 0 /\ MaxValues \in Nat
  BY BuffersAssumption
<1>2. slots \in Storage
  <2>1. \A v \in 0 .. MaxValues : v \in Nat
    BY <1>1
  <2> QED
    BY <2>1 DEF OrderInv, StorageTyped, Storage
<1> QED
  BY <1>1, <1>2 DEF OrderInv, StorageTyped, NothingLost, Available, Circular, Stored, Least

(* Removing k values from the front leaves the others in place. *)
LEMMA RemoveOrder ==
  ASSUME OrderInv, NEW k \in 0 .. Available, Remove(k), gone' = written - Available + k,
         UNCHANGED <<bkind, written>>
  PROVE  /\ StorageTyped' /\ InPlace' /\ NothingLost'
         /\ gone <= written - Available
<1>1. /\ k \in Nat /\ k <= Available
      /\ gone' = written - Available + k /\ written' = written /\ Remove(k)
  BY Sizes
<1>2. gone' = written - Available + k /\ gone' \in 0 .. written /\ gone <= written - Available
  BY <1>1, Sizes
<1>3. /\ k \in Nat /\ k <= Available /\ Available \in Nat
      /\ Size \in Nat /\ Size > 0 /\ written \in Nat /\ gone \in Nat
  BY <1>1, Sizes
<1>4. CASE Circular
  <2>1. /\ head' = head + k /\ UNCHANGED <<slots, tail, growable>> /\ Available = Stored
        /\ Stored \in 0 .. Size /\ head \in Nat /\ tail \in Nat
    BY <1>1, <1>4, Sizes DEF Remove, OrderInv, StorageTyped
  <2>2. Stored' = Stored - k /\ Available' = Available - k
    BY <1>1, <1>4, <2>1 DEF Stored, Available, Circular
  <2>3. StorageTyped'
    BY <1>1, <1>3, <1>2, <2>1, <2>2 DEF OrderInv, StorageTyped
  <2>4. ASSUME NEW x \in Place, Far(x)' < Stored'
        PROVE  slots'[x] = written' - Stored' + Far(x)' + 1
    <3>1. k \in 0 .. Size
      BY <1>3, <2>1
    <3>2. /\ Far(x) \in Nat /\ Far(x) < Size
          /\ Far(x)' = IF k <= Far(x) THEN Far(x) - k ELSE Far(x) - k + Size
      BY <2>1, <3>1, DistanceShifts DEF Far
    <3>3. k <= Far(x) /\ Far(x) < Stored /\ Far(x)' = Far(x) - k
      BY <1>3, <2>1, <2>2, <2>4, <3>2
    <3>4. slots[x] = written - Stored + Far(x) + 1
      BY <1>4, <3>3 DEF OrderInv, InPlace
    <3> QED
      BY <1>1, <2>1, <2>2, <3>2, <3>3, <3>4, Sizes
  <2>5. InPlace'
    BY <1>4, <2>4 DEF InPlace, Circular
  <2>6. NothingLost'
    BY <1>1, <1>2, <1>4, <2>1, <2>2, Sizes DEF NothingLost, Least
  <2> QED
    BY <1>2, <2>3, <2>5, <2>6
<1>5. CASE ~Circular
  <2>1. /\ growable' = After(growable, k) /\ UNCHANGED <<slots, tail, head>>
        /\ growable \in Seq(Nat) /\ Available = Len(growable)
    BY <1>1, <1>5, Sizes DEF Remove, OrderInv, StorageTyped
  <2>2. k \in 0 .. Len(growable)
    BY <1>1, <2>1
  <2>3. /\ growable' \in Seq(Nat) /\ Len(growable') = Len(growable) - k
        /\ \A i \in 1 .. (Len(growable) - k) : growable'[i] = growable[k + i]
    BY <2>1, <2>2, AfterIs
  <2>4. Stored' = Stored /\ Available' = Available - k
    BY <1>5, <2>1, <2>3 DEF Stored, Available, Circular
  <2>5. StorageTyped'
    BY <1>1, <1>2, <2>1, <2>3, <2>4 DEF OrderInv, StorageTyped
  <2>6. ASSUME NEW i \in 1 .. Len(growable')
        PROVE  growable'[i] = written' - Len(growable') + i
    <3>1. k + i \in 1 .. Len(growable) /\ i \in 1 .. (Len(growable) - k)
      BY <2>2, <2>3
    <3>2. growable[k + i] = written - Len(growable) + (k + i)
      BY <1>5, <3>1 DEF OrderInv, InPlace
    <3> QED
      BY <1>1, <2>2, <2>3, <3>1, <3>2, Sizes
  <2>7. NothingLost'
    <3>1. bkind # "ring" /\ Available = written - gone
      BY <1>5 DEF OrderInv, NothingLost, Circular
    <3>2. gone' = written - Available + k /\ written' = written /\ Available' = Available - k
      BY <1>1, <1>2, <2>4
    <3>3. Available' = written' - gone'
      BY <1>3, <3>1, <3>2
    <3> QED
      BY <3>1, <3>3 DEF NothingLost
  <2> QED
    BY <1>2, <1>5, <2>5, <2>6, <2>7 DEF InPlace, Circular
<1> QED
  BY <1>2, <1>4, <1>5

(* The values taken from the front of the buffer were the earliest ones there. *)
LEMMA TakeOutOrder ==
  ASSUME OrderInv, NEW values \in Seq(Nat), Len(values) \in 1 .. Available,
         \A i \in 1 .. Len(values) : values[i] = written - Available + i,
         TakeOut(values), UNCHANGED bkind
  PROVE  OrderInv'
<1> DEFINE k == Len(values)
<1>1. /\ k \in Nat /\ k >= 1 /\ k <= Available
      /\ got' = got \o values /\ gone' = values[k] /\ written' = written /\ Remove(k)
  BY Sizes DEF TakeOut
<1>2. gone' = written - Available + k
  BY <1>1, Sizes
<1>k. /\ k \in Nat /\ k >= 1 /\ k <= Available /\ Available \in Nat
      /\ Size \in Nat /\ Size > 0 /\ written \in Nat /\ gone \in Nat
  BY <1>1, Sizes
<1> HIDE DEF k
<1>3. /\ StorageTyped' /\ InPlace' /\ NothingLost'
      /\ gone <= written - Available
  BY <1>1, <1>2, <1>k, RemoveOrder
<1>4. GotRises'
  <2> DEFINE m == Len(got)
  <2>1. /\ got \in Seq(Nat) /\ m \in Nat
        /\ \A i \in 1 .. m : got[i] \in Nat /\ 1 <= got[i] /\ got[i] <= gone
        /\ \A i, j \in 1 .. m : i < j => got[i] < got[j]
    BY DEF OrderInv, GotRises
  <2>2. /\ got' \in Seq(Nat) /\ Len(got') = m + k
        /\ \A i \in 1 .. m + k : got'[i] = IF i <= m THEN got[i] ELSE values[i - m]
    <3>1. /\ got \o values \in Seq(Nat)
          /\ Len(got \o values) = Len(got) + Len(values)
          /\ \A i \in 1 .. Len(got) + Len(values) : (got \o values)[i] =
               IF i <= Len(got) THEN got[i] ELSE values[i - Len(got)]
      BY <2>1, ConcatProperties, Zenon
    <3> QED
      BY <1>1, <3>1, Zenon DEF k
  <2> HIDE DEF m
  <2> DEFINE base == written - Available
  <2>3. \A i \in 1 .. k : values[i] = base + i
    BY DEF k
  <2>4. base \in Nat /\ gone <= base /\ gone' = base + k /\ gone \in Nat
    BY <1>1, <1>2, <1>3, Sizes
  <2> HIDE DEF base
  <2>5. ASSUME NEW i \in 1 .. m + k
        PROVE  /\ i <= m => got'[i] = got[i] /\ i \in 1 .. m
               /\ m < i => got'[i] = base + (i - m)
    <3>1. m < i => i - m \in 1 .. k /\ ~(i <= m)
      BY <1>k, <2>1
    <3> QED
      <4>1. got'[i] = IF i <= m THEN got[i] ELSE values[i - m]
        BY <2>2
      <4>2. i \in Nat /\ i >= 1
        BY <1>k, <2>1
      <4>3. i <= m => i \in 1 .. m
        BY <2>1, <4>2
      <4>4. m < i => values[i - m] = base + (i - m)
        BY <2>3, <3>1
      <4> QED
        BY <3>1, <4>1, <4>3, <4>4
  <2>6. ASSUME NEW i \in 1 .. m + k
        PROVE  1 <= got'[i] /\ got'[i] <= gone'
    <3>1. CASE i <= m
      <4>1. got'[i] = got[i] /\ got[i] \in Nat /\ 1 <= got[i] /\ got[i] <= gone
        BY <2>1, <2>5, <3>1
      <4> QED
        BY <1>k, <2>4, <4>1
    <3>2. CASE m < i
      <4>1. got'[i] = base + (i - m) /\ i - m >= 1 /\ i - m <= k /\ i - m \in Nat
        BY <1>k, <2>1, <2>5, <3>2
      <4> QED
        BY <1>k, <2>4, <4>1
    <3> QED
      BY <2>1, <3>1, <3>2
  <2>7. ASSUME NEW i \in 1 .. m + k, NEW j \in 1 .. m + k, i < j
        PROVE  got'[i] < got'[j]
    <3>1. CASE j <= m
      BY <1>k, <2>1, <2>5, <2>7, <3>1
    <3>2. CASE m < j /\ i <= m
      <4>1. got'[i] = got[i] /\ got[i] \in Nat /\ got[i] <= gone
        BY <2>1, <2>5, <3>2
      <4>2. got'[j] = base + (j - m) /\ j - m >= 1
        BY <1>k, <2>1, <2>5, <3>2
      <4> QED
        BY <1>k, <2>1, <2>4, <4>1, <4>2
    <3>3. CASE m < j /\ m < i
      BY <1>k, <2>1, <2>4, <2>5, <2>7, <3>3
    <3> QED
      BY <1>k, <2>1, <2>7, <3>1, <3>2, <3>3
  <2> QED
    BY <2>2, <2>6, <2>7 DEF GotRises
<1> QED
  BY <1>3, <1>4 DEF OrderInv

(* Filling the free places continues the values behind the last one. *)
LEMMA FilledIs ==
  ASSUME OrderInv, Circular, NEW n \in Nat, written + n <= MaxValues,
         NEW k, k = Least(n, Size - Available)
  PROVE  LET buf == FillFree(Numbers(written, n)) IN
         /\ k \in Nat /\ k <= n /\ Stored + k <= Size
         /\ buf \in [Place -> 0 .. MaxValues]
         /\ \A x \in Place : Far(x) < Stored + k => buf[x] = written - Stored + Far(x) + 1
<1> DEFINE p == Numbers(written, n)
           buf == FillFree(p)
<1>1. /\ Available = Stored /\ Stored \in 0 .. Size /\ Size \in Nat /\ Size > 0
      /\ written \in Nat /\ MaxValues \in Nat /\ slots \in Storage
      /\ head \in Nat /\ tail \in Nat /\ tail = head + Stored
  BY Sizes DEF OrderInv, StorageTyped, Stored
<1>2. p \in Seq(Nat) /\ Len(p) = n /\ \A i \in 1 .. n : p[i] = written + i
  BY <1>1, NumbersAre
<1> HIDE DEF p
<1>3. k \in Nat /\ k <= n /\ k <= Size - Stored
  BY <1>1 DEF Least
<1>4. /\ buf \in Storage
      /\ \A x \in Place :
           buf[x] = IF Distance(tail % Size, x) < k THEN p[Distance(tail % Size, x) + 1] ELSE slots[x]
  <2>1. Available \in 0 .. Size /\ k = Least(Len(p), Size - Available)
    BY <1>1, <1>2
  <2> QED
    BY <1>1, <1>2, <2>1, FillFreeIs, Zenon
<1> HIDE DEF buf
<1>5. ASSUME NEW x \in Place
      PROVE  /\ Far(x) \in Nat /\ Far(x) < Size
             /\ Distance(tail % Size, x) = IF Stored <= Far(x) THEN Far(x) - Stored
                                                               ELSE Far(x) - Stored + Size
  <2>1. Far(x) = Distance(head % Size, x)
    BY DEF Far
  <2> QED
    BY <1>1, <2>1, DistanceShifts
<1>6. ASSUME NEW x \in Place
      PROVE  buf[x] \in 0 .. MaxValues
  <2> DEFINE d == Distance(tail % Size, x)
  <2>1. d \in Nat
    BY <1>1, <1>5
  <2> HIDE DEF d
  <2>2. slots[x] \in 0 .. MaxValues
    BY DEF OrderInv, StorageTyped
  <2>3. d < k => p[d + 1] = written + (d + 1) /\ written + (d + 1) \in 0 .. MaxValues
    <3>1. d < k => d + 1 \in 1 .. n
      BY <1>3, <2>1
    <3> QED
      BY <1>1, <1>2, <2>1, <3>1
  <2> QED
    BY <1>4, <2>2, <2>3 DEF d
<1>7. ASSUME NEW x \in Place, Far(x) < Stored + k
      PROVE  buf[x] = written - Stored + Far(x) + 1
  <2> DEFINE d == Distance(tail % Size, x)
  <2>1. /\ Far(x) \in Nat /\ Far(x) < Size
        /\ d = IF Stored <= Far(x) THEN Far(x) - Stored ELSE Far(x) - Stored + Size
    BY <1>5
  <2>2. buf[x] = IF d < k THEN p[d + 1] ELSE slots[x]
    BY <1>4
  <2> HIDE DEF d
  <2>3. CASE Stored <= Far(x)
    <3>1. d < k /\ d + 1 \in 1 .. n /\ written + (d + 1) = written - Stored + Far(x) + 1
      BY <1>1, <1>3, <1>7, <2>1, <2>3
    <3> QED
      BY <1>2, <2>2, <3>1
  <2>4. CASE ~(Stored <= Far(x))
    <3>1. ~(d < k) /\ Far(x) < Stored
      BY <1>1, <1>3, <2>1, <2>4
    <3> QED
      BY <2>2, <3>1 DEF OrderInv, InPlace
  <2> QED
    BY <2>3, <2>4
<1>8. buf \in [Place -> 0 .. MaxValues]
  BY <1>4, <1>6 DEF Storage
<1>9. Stored + k <= Size
  BY <1>1, <1>3
<1> QED
  BY <1>3, <1>7, <1>8, <1>9, Zenon DEF buf, p

LEMMA FillOrder ==
  ASSUME OrderInv, Circular, NEW n \in Nat, written + n <= MaxValues,
         NEW k, k = Least(n, Size - Available), k > 0,
         slots' = FillFree(Numbers(written, n)), tail' = tail + k, written' = written + k,
         UNCHANGED <<bkind, head, growable, got, gone>>
  PROVE  OrderInv'
<1>1. /\ Available = Stored /\ Stored \in 0 .. Size /\ Size \in Nat /\ Size > 0
      /\ written \in Nat /\ gone \in Nat /\ gone <= written
      /\ head \in Nat /\ tail \in Nat
  BY Sizes DEF OrderInv, StorageTyped
<1>2. /\ k \in Nat /\ k <= n /\ Stored + k <= Size
      /\ slots' \in [Place -> 0 .. MaxValues]
      /\ \A x \in Place : Far(x) < Stored + k => slots'[x] = written - Stored + Far(x) + 1
  BY FilledIs
<1>3. Stored' = Stored + k /\ Available' = Stored' /\ \A x : Far(x)' = Far(x)
  BY <1>1, <1>2 DEF Stored, Available, Circular, Far
<1>4. StorageTyped'
  <2>1. /\ tail' \in Nat /\ Stored' \in 0 .. Size
        /\ written' \in 0 .. MaxValues /\ gone' \in 0 .. written'
    BY <1>1, <1>2, <1>3, BuffersAssumption
  <2> QED
    BY <1>2, <2>1 DEF OrderInv, StorageTyped
<1>5. InPlace'
  <2>1. ASSUME NEW x \in Place, Far(x)' < Stored'
        PROVE  slots'[x] = written' - Stored' + Far(x)' + 1
    <3>1. Far(x) < Stored + k /\ Far(x)' = Far(x) /\ Stored' = Stored + k
      BY <1>3, <2>1
    <3>2. slots'[x] = written - Stored + Far(x) + 1
      BY <1>2, <3>1
    <3>3. written - Stored = written' - Stored'
      BY <1>1, <1>2, <3>1
    <3> QED
      BY <3>1, <3>2, <3>3
  <2> QED
    BY <2>1 DEF InPlace, Circular
<1>6. NothingLost'
  BY <1>1, <1>2, <1>3 DEF OrderInv, NothingLost, Least
<1>7. GotRises'
  BY DEF OrderInv, GotRises
<1> QED
  BY <1>4, <1>5, <1>6, <1>7 DEF OrderInv

(* A value too many takes the place of the oldest one (RingBuffer.Add). *)
LEMMA RingAddOrder ==
  ASSUME OrderInv, RingAdd, written < MaxValues
  PROVE  OrderInv'
<1>1. /\ Available = Stored /\ Stored \in 0 .. Size /\ Size \in Nat /\ Size > 0
      /\ written \in Nat /\ gone \in Nat /\ gone <= written /\ MaxValues \in Nat
      /\ head \in Nat /\ tail \in Nat /\ tail = head + Stored /\ Circular
      /\ slots \in [Place -> 0 .. MaxValues]
  BY Sizes DEF OrderInv, StorageTyped, RingAdd, Circular, Stored
<1>2. /\ slots' = [slots EXCEPT ![tail % Size] = written + 1]
      /\ tail' = tail + 1 /\ written' = written + 1
      /\ head' = IF tail + 1 - head > Size THEN head + 1 ELSE head
      /\ UNCHANGED <<bkind, growable, got, gone>> /\ bkind = "ring"
  BY DEF RingAdd, Wrote
<1>3. tail % Size \in Place
  BY <1>1, TurnAround
<1>4. /\ slots' \in [Place -> 0 .. MaxValues]
      /\ \A x \in Place : slots'[x] = IF x = tail % Size THEN written + 1 ELSE slots[x]
  <2>1. written + 1 \in 0 .. MaxValues
    BY <1>1
  <2> QED
    BY <1>1, <1>2, <1>3, <2>1
<1>5. ASSUME NEW x \in Place
      PROVE  /\ Far(x) \in Nat /\ Far(x) < Size
             /\ x = tail % Size <=> Far(x) = IF Stored = Size THEN 0 ELSE Stored
             /\ slots'[x] = IF Far(x) = (IF Stored = Size THEN 0 ELSE Stored)
                              THEN written + 1 ELSE slots[x]
  <2>1. Far(x) = Distance(head % Size, x)
    BY DEF Far
  <2>2. /\ Far(x) \in Nat /\ Far(x) < Size
        /\ Distance(tail % Size, x) = IF Stored <= Far(x) THEN Far(x) - Stored
                                                          ELSE Far(x) - Stored + Size
    BY <1>1, <2>1, DistanceShifts
  <2>3. x = tail % Size <=> Distance(tail % Size, x) = 0
    BY <1>1, <1>3 DEF Distance, Place
  <2>4. x = tail % Size <=> Far(x) = IF Stored = Size THEN 0 ELSE Stored
    BY <1>1, <2>2, <2>3
  <2> QED
    BY <1>4, <2>2, <2>4
<1>6. CASE Stored < Size
  <2>1. head' = head /\ Stored' = Stored + 1 /\ \A x : Far(x)' = Far(x)
    BY <1>1, <1>2, <1>6 DEF Stored, Far
  <2>2. Available' = Stored + 1
    BY <1>1, <1>2, <2>1 DEF Available, Circular, Stored
  <2>3. StorageTyped'
    BY <1>1, <1>2, <1>4, <1>6, <2>1 DEF OrderInv, StorageTyped
  <2>4. ASSUME NEW x \in Place, Far(x)' < Stored'
        PROVE  slots'[x] = written' - Stored' + Far(x)' + 1
    <3>1. Far(x) < Stored => slots[x] = written - Stored + Far(x) + 1
      BY <1>1 DEF OrderInv, InPlace
    <3>2. Far(x) < Stored + 1 /\ Far(x)' = Far(x)
      BY <2>1, <2>4
    <3>3. slots'[x] = IF Far(x) = Stored THEN written + 1 ELSE slots[x]
      BY <1>5, <1>6, <1>1
    <3> QED
      BY <1>1, <1>2, <1>5, <2>1, <3>1, <3>2, <3>3
  <2>5. NothingLost'
    BY <1>1, <1>2, <1>6, <2>2 DEF OrderInv, NothingLost, Least
  <2>6. GotRises'
    BY <1>2 DEF OrderInv, GotRises
  <2> QED
    BY <1>2, <2>3, <2>4, <2>5, <2>6 DEF OrderInv, InPlace, Circular
<1>7. CASE Stored = Size
  <2>1. head' = head + 1 /\ Stored' = Size
    BY <1>1, <1>2, <1>7 DEF Stored
  <2>2. Available' = Size
    BY <1>1, <1>2, <2>1 DEF Available, Circular, Stored
  <2>3. StorageTyped'
    BY <1>1, <1>2, <1>4, <1>7, <2>1 DEF OrderInv, StorageTyped
  <2>4. ASSUME NEW x \in Place, Far(x)' < Stored'
        PROVE  slots'[x] = written' - Stored' + Far(x)' + 1
    <3>1. slots[x] = written - Size + Far(x) + 1
      BY <1>1, <1>5, <1>7 DEF OrderInv, InPlace
    <3>2. 1 \in 0 .. Size
      BY <1>1
    <3>3. Far(x)' = IF 1 <= Far(x) THEN Far(x) - 1 ELSE Far(x) - 1 + Size
      BY <1>1, <2>1, <3>2, DistanceShifts DEF Far
    <3>4. slots'[x] = IF Far(x) = 0 THEN written + 1 ELSE slots[x]
      BY <1>5, <1>7
    <3> QED
      BY <1>1, <1>2, <1>5, <2>1, <3>1, <3>3, <3>4
  <2>5. NothingLost'
    BY <1>1, <1>2, <1>7, <2>2 DEF OrderInv, NothingLost, Least
  <2>6. GotRises'
    BY <1>2 DEF OrderInv, GotRises
  <2> QED
    BY <1>2, <2>3, <2>4, <2>5, <2>6 DEF OrderInv, InPlace, Circular
<1> QED
  BY <1>1, <1>6, <1>7

(* RingBuffer.Write: also when the slice is longer than the storage, the latest values
   are left, each in its place. *)
LEMMA RingWriteOrder ==
  ASSUME OrderInv, NEW n \in Nat, n > 0, written + n <= MaxValues, RingWrite(n)
  PROVE  OrderInv'
<1> DEFINE p == Numbers(written, n)
           k == Least(n, Size - Available)
           over == Overwrite(FillFree(p), p, n - k)
           cn == over.moved
<1>1. /\ Available = Stored /\ Stored \in 0 .. Size /\ Size \in Nat /\ Size > 0
      /\ written \in Nat /\ gone \in Nat /\ gone <= written /\ MaxValues \in Nat
      /\ head \in Nat /\ tail \in Nat /\ tail = head + Stored /\ Circular /\ bkind = "ring"
      /\ Available = Least(Size, written - gone)
  BY Sizes DEF OrderInv, StorageTyped, RingWrite, Circular, Stored, NothingLost
<1>2. /\ UNCHANGED <<bkind, growable, got, gone>> /\ written' = written + n
      /\ IF k = n THEN slots' = FillFree(p) /\ tail' = tail + n /\ UNCHANGED head
         ELSE slots' = over.buf /\ head' = head + cn /\ tail' = tail + k + cn
  BY Zenon DEF RingWrite, Wrote
<1>3. CASE k = n
  BY <1>1, <1>2, <1>3, FillOrder, Zenon
<1>4. CASE k # n
  <2> DEFINE left == n - k
             buf == FillFree(p)
  <2>1. /\ k \in Nat /\ k <= n /\ Stored + k <= Size
        /\ buf \in [Place -> 0 .. MaxValues]
        /\ \A x \in Place : Far(x) < Stored + k => buf[x] = written - Stored + Far(x) + 1
    BY <1>1, FilledIs, Zenon
  <2>2. p \in Seq(Nat) /\ Len(p) = n /\ \A i \in 1 .. n : p[i] = written + i
    BY <1>1, NumbersAre
  <2>3. Stored + k = Size
    BY <1>1, <1>4 DEF Least
  <2>4. buf \in Storage
    <3>1. \A v \in 0 .. MaxValues : v \in Nat
      BY <1>1
    <3> QED
      BY <2>1, <3>1 DEF Storage
  <2>5. left \in 1 .. Len(p) /\ left \in Nat
    BY <1>4, <2>1, <2>2
  <2> HIDE DEF buf, p, left
  <2>6. /\ cn = IF left <= Size THEN left ELSE left % Size
        /\ cn \in 0 .. Size
        /\ over.buf \in Storage
        /\ \A x \in Place :
             over.buf[x] =
               IF Far(x) < cn THEN p[Len(p) - cn + Far(x) + 1]
               ELSE IF left <= Size THEN buf[x] ELSE p[Len(p) - Size + (Far(x) - cn) + 1]
    <3>1. over = Overwrite(buf, p, left)
      BY Zenon DEF buf, p, left
    <3>2. head \in Nat
      BY <1>1
    <3> HIDE DEF over
    <3>3. LET o == Overwrite(buf, p, left) IN
          /\ o.moved = IF left <= Size THEN left ELSE left % Size
          /\ o.moved \in 0 .. Size
          /\ o.buf \in Storage
          /\ \A x \in Place : LET d == Distance(head % Size, x) IN
               o.buf[x] =
                 IF d < o.moved THEN p[Len(p) - o.moved + d + 1]
                 ELSE IF left <= Size THEN buf[x] ELSE p[Len(p) - Size + (d - o.moved) + 1]
      BY <2>2, <2>4, <2>5, <3>2, OverwriteIs, Zenon
    <3> QED
      BY <3>1, <3>3, Zenon DEF Far
  <2>7. /\ slots' = over.buf /\ head' = head + cn /\ tail' = tail + k + cn
    BY <1>2, <1>4
  <2> HIDE DEF over, cn
  <2>8. /\ cn \in Nat /\ cn <= Size /\ cn <= n /\ (left <= Size => cn = left) /\ (~(left <= Size) => n > Size)
        /\ left = n - k
    <3>1. left = n - k
      BY DEF left
    <3>2. left % Size \in 0 .. (Size - 1)
      BY <2>5, TurnAround DEF Place
    <3>3. cn \in 0 .. Size /\ cn = IF left <= Size THEN left ELSE left % Size
      BY <2>6
    <3>4. k \in Nat /\ left \in Nat
      BY <2>1, <2>5
    <3> HIDE DEF k, left
    <3> DEFINE rem == left % Size
    <3>5. rem \in Nat /\ rem < Size /\ cn = IF left <= Size THEN left ELSE rem
      BY <1>1, <3>2, <3>3
    <3> HIDE DEF rem
    <3> QED
      BY <1>1, <3>1, <3>3, <3>4, <3>5
  <2> HIDE DEF k
  <2>9. head' \in Nat /\ tail' \in Nat /\ Stored' = Size
    BY <1>1, <2>1, <2>3, <2>7, <2>8 DEF Stored
  <2>10. ASSUME NEW x \in Place
         PROVE  slots'[x] = written' - Size + Far(x)' + 1 /\ Far(x)' \in 0 .. (Size - 1)
    <3> DEFINE d == Far(x)
    <3>1. /\ d \in Nat /\ d < Size
          /\ Far(x)' = IF cn <= d THEN d - cn ELSE d - cn + Size
      BY <1>1, <2>6, <2>7, DistanceShifts DEF Far
    <3>2. slots'[x] = IF d < cn THEN p[n - cn + d + 1]
                      ELSE IF left <= Size THEN buf[x] ELSE p[n - Size + (d - cn) + 1]
      BY <2>2, <2>6, <2>7
    <3>3. buf[x] = written - Stored + d + 1
      BY <2>1, <2>3, <3>1
    <3> HIDE DEF d
    <3>4. CASE d < cn
      <4>1. n - cn + d + 1 \in 1 .. n
        BY <2>8, <3>1, <3>4
      <4>2. slots'[x] = written + (n - cn + d + 1)
        BY <2>2, <3>2, <3>4, <4>1
      <4> QED
        BY <1>1, <1>2, <2>8, <3>1, <3>4, <4>2
    <3>5. CASE ~(d < cn) /\ left <= Size
      <4>1. slots'[x] = written - Stored + d + 1 /\ cn = n - k
        BY <2>8, <3>2, <3>3, <3>5
      <4> QED
        <5>1. /\ written \in Nat /\ Stored \in Nat /\ Size \in Nat /\ k \in Nat
              /\ written' = written + n
          BY <1>1, <1>2, <2>1
        <5>2. Far(x)' = d - cn /\ cn <= d
          BY <2>8, <3>1, <3>5
        <5> QED
          BY <2>3, <2>8, <3>1, <4>1, <5>1, <5>2
    <3>6. CASE ~(d < cn) /\ ~(left <= Size)
      <4>1. n - Size + (d - cn) + 1 \in 1 .. n
        BY <1>1, <2>8, <3>1, <3>6
      <4>2. slots'[x] = written + (n - Size + (d - cn) + 1)
        BY <2>2, <3>2, <3>6, <4>1
      <4> QED
        BY <1>1, <1>2, <2>8, <3>1, <3>6, <4>2
    <3> QED
      BY <3>4, <3>5, <3>6
  <2>11. slots' \in [Place -> 0 .. MaxValues]
    <3>1. \A x \in Place : slots'[x] \in 0 .. MaxValues
      <4> TAKE x \in Place
      <4>1. slots'[x] = written' - Size + Far(x)' + 1 /\ Far(x)' \in 0 .. (Size - 1)
        BY <2>10
      <4>2. slots'[x] \in Nat
        BY <2>6, <2>7 DEF Storage
      <4> QED
        BY <1>1, <1>2, <4>1, <4>2
    <3> QED
      BY <2>6, <2>7, <3>1 DEF Storage
  <2>12. StorageTyped'
    <3>1. written' \in 0 .. MaxValues /\ gone' \in 0 .. written' /\ Stored' \in 0 .. Size
      BY <1>1, <1>2, <2>9
    <3> QED
      BY <1>2, <2>9, <2>11, <3>1 DEF OrderInv, StorageTyped
  <2>13. InPlace'
    BY <1>1, <1>2, <2>9, <2>10 DEF InPlace, Circular
  <2>14. NothingLost'
    <3>1. Available' = Size
      BY <1>1, <1>2, <2>9 DEF Available, Circular, Stored
    <3>2. Least(Size, written' - gone') = Size
      BY <1>1, <1>2, <2>1, <2>3, <2>8, <2>5 DEF Least
    <3> QED
      BY <1>1, <1>2, <3>1, <3>2 DEF NothingLost
  <2>15. GotRises'
    BY <1>2 DEF OrderInv, GotRises
  <2> QED
    BY <2>12, <2>13, <2>14, <2>15 DEF OrderInv
<1> QED
  BY <1>3, <1>4

LEMMA GrowOrder ==
  ASSUME OrderInv, NEW n \in Nat, written + n <= MaxValues, GrowWrite(n)
  PROVE  OrderInv'
<1> DEFINE p == Numbers(written, n)
           m == Len(growable)
<1>1. /\ Available = m /\ m \in Nat /\ growable \in Seq(Nat) /\ ~Circular
      /\ written \in Nat /\ gone \in Nat /\ gone <= written /\ MaxValues \in Nat
      /\ Available = written - gone
  BY Sizes DEF OrderInv, StorageTyped, GrowWrite, Circular, NothingLost
<1>2. /\ growable' = growable \o p /\ written' = written + n
      /\ UNCHANGED <<bkind, slots, head, tail, got, gone>>
  BY DEF GrowWrite, Wrote
<1>3. p \in Seq(Nat) /\ Len(p) = n /\ \A i \in 1 .. n : p[i] = written + i
  BY <1>1, NumbersAre
<1> HIDE DEF p, m
<1>4. /\ growable' \in Seq(Nat) /\ Len(growable') = m + n
      /\ \A i \in 1 .. m + n : growable'[i] = IF i <= m THEN growable[i] ELSE p[i - m]
  <2>1. /\ growable \o p \in Seq(Nat)
        /\ Len(growable \o p) = Len(growable) + Len(p)
        /\ \A i \in 1 .. Len(growable) + Len(p) : (growable \o p)[i] =
             IF i <= Len(growable) THEN growable[i] ELSE p[i - Len(growable)]
    BY <1>1, <1>3, ConcatProperties, Zenon
  <2> QED
    BY <1>2, <1>3, <2>1 DEF m
<1>5. ASSUME NEW i \in 1 .. m + n
      PROVE  growable'[i] = written - m + i
  <2>1. CASE i <= m
    <3>1. i \in 1 .. Len(growable)
      BY <1>1, <2>1 DEF m
    <3>2. growable[i] = written - m + i
      BY <1>1, <3>1 DEF OrderInv, InPlace, m
    <3> QED
      BY <1>4, <2>1, <3>2
  <2>2. CASE ~(i <= m)
    <3>1. i - m \in 1 .. n /\ written + (i - m) = written - m + i
      BY <1>1, <2>2
    <3> QED
      BY <1>3, <1>4, <2>2, <3>1
  <2> QED
    BY <2>1, <2>2
<1>6. Available' = m + n /\ ~Circular'
  BY <1>1, <1>2, <1>4 DEF Available, Circular
<1>7. StorageTyped'
  <2>1. written' \in 0 .. MaxValues /\ gone' \in 0 .. written'
    BY <1>1, <1>2
  <2> QED
    BY <1>2, <1>4, <2>1 DEF OrderInv, StorageTyped, Stored
<1>8. InPlace'
  <2>1. written - m = written' - Len(growable')
    <3>1. Len(growable') = m + n /\ written' = written + n
      BY <1>2, <1>4
    <3>2. m \in Nat /\ written \in Nat
      BY <1>1
    <3> QED
      BY <3>1, <3>2
  <2> QED
    BY <1>4, <1>5, <1>6, <2>1 DEF InPlace
<1>9. NothingLost'
  <2>1. Available' = m + n /\ written' = written + n /\ gone' = gone /\ bkind' # "ring"
    BY <1>1, <1>2, <1>6 DEF Circular
  <2>2. m \in Nat /\ written \in Nat /\ gone \in Nat /\ m = written - gone
    BY <1>1
  <2>3. Available' = written' - gone'
    BY <2>1, <2>2
  <2> QED
    BY <2>1, <2>3 DEF NothingLost
<1>10. GotRises'
  BY <1>2 DEF OrderInv, GotRises
<1> QED
  BY <1>7, <1>8, <1>9, <1>10 DEF OrderInv

(* What left the buffer without being read *)
LEMMA GotRisesOn ==
  ASSUME OrderInv, got' = got, gone' \in Nat, gone <= gone'
  PROVE  GotRises'
<1>1. /\ gone \in Nat /\ \A i \in 1 .. Len(got) : got[i] \in Nat
  BY Sizes DEF OrderInv, GotRises
<1> QED
  BY <1>1 DEF OrderInv, GotRises

LEMMA DiscardOrder ==
  ASSUME OrderInv, NEW n \in Nat, Discard(n)
  PROVE  OrderInv'
<1> DEFINE k == Least(n, Available)
<1>1. /\ Remove(k) /\ gone' = written - Available + k
      /\ UNCHANGED <<bkind, written, got>>
  BY DEF Discard
<1>2. k \in 0 .. Available /\ written - Available \in Nat
  BY Sizes DEF Least
<1> HIDE DEF k
<1>3. /\ StorageTyped' /\ InPlace' /\ NothingLost'
      /\ gone <= written - Available
  BY <1>1, <1>2, RemoveOrder, Zenon
<1>4. gone' \in Nat /\ gone <= gone'
  BY <1>1, <1>2, <1>3, Sizes
<1> QED
  BY <1>1, <1>3, <1>4, GotRisesOn DEF OrderInv

LEMMA EmptiedOrder ==
  ASSUME OrderInv, UNCHANGED <<bkind, slots, written, got>>,
         growable' = <<>>, gone' = written, Circular => head' = 0 /\ tail' = 0,
         head' \in Nat, tail' \in Nat, Stored' \in 0 .. Size
  PROVE  OrderInv'
<1>1. /\ Size \in Nat /\ written \in Nat /\ gone \in Nat /\ gone <= written
      /\ written \in 0 .. MaxValues /\ Circular' = Circular
  BY Sizes DEF OrderInv, StorageTyped, Circular
<1>2. growable' \in Seq(Nat) /\ Len(growable') = 0 /\ gone' \in 0 .. written'
  BY <1>1
<1>3. StorageTyped'
  BY <1>1, <1>2 DEF OrderInv, StorageTyped
<1>4. Circular => Stored' = 0
  BY DEF Stored
<1>5. Available' = 0
  BY <1>1, <1>2, <1>4 DEF Available, Stored
<1>6. InPlace'
  <2>1. ASSUME Circular, NEW x \in Place, Far(x)' < 0
        PROVE  FALSE
    <3>1. 0 \in 0 .. Size /\ 0 \in Nat
      BY <1>1
    <3>2. Distance(0 % Size, x) \in Nat
      BY <3>1, DistanceShifts
    <3> QED
      BY <2>1, <3>2 DEF Far
  <2> QED
    BY <1>1, <1>2, <1>4, <2>1 DEF InPlace
<1>7. NothingLost'
  BY <1>1, <1>5 DEF NothingLost, Least
<1>8. GotRises'
  BY <1>1, GotRisesOn
<1> QED
  BY <1>3, <1>6, <1>7, <1>8 DEF OrderInv

LEMMA SameOrder ==
  ASSUME OrderInv, UNCHANGED <<bkind, storage, written, got, gone>>
  PROVE  OrderInv'
  BY DEF OrderInv, StorageTyped, InPlace, NothingLost, GotRises, Far, Stored, Available, Circular,
         storage

LEMMA ResetOrder ==
  ASSUME OrderInv, Reset
  PROVE  OrderInv'
<1>1. Stored' \in 0 .. Size
  BY Sizes DEF Reset, Stored
<1> QED
  BY <1>1, EmptiedOrder DEF Reset

LEMMA CloseErrorOrder ==
  ASSUME OrderInv, CloseWithError
  PROVE  OrderInv'
<1>1. CASE Circular
  BY <1>1, SameOrder DEF CloseWithError, storage
<1>2. CASE ~Circular
  <2>1. head' \in Nat /\ tail' \in Nat /\ Stored' \in 0 .. Size
    BY DEF CloseWithError, OrderInv, StorageTyped, Stored
  <2> QED
    BY <1>2, <2>1, EmptiedOrder DEF CloseWithError
<1> QED
  BY <1>1, <1>2

-----------------------------------------------------------------------------
(* The sleepers *)

Goers == BufReaders \cup BufWriters
Call == [at : {"idle", "wait", "woken"}, n : Nat]

(* A queue of goroutines asleep, none of them twice *)
Queue(s) ==
  /\ s \in Seq(Goers)
  /\ \A i \in 1 .. Len(s) : bcall[s[i]].at = "wait"
  /\ \A i, j \in 1 .. Len(s) : s[i] = s[j] => i = j

SleepInv ==
  /\ bcall \in [Goers -> Call]
  /\ closeWrite \in BOOLEAN /\ writeNotify \in BOOLEAN /\ unsignalled \in BOOLEAN
  /\ Queue(waiters)
  /\ bkind # "block" => waiters = <<>> /\ \A w \in BufWriters : bcall[w].at # "wait"

LEMMA OneWokenIs ==
  ASSUME SleepInv
  PROVE  /\ Queue(OneWoken) /\ Queue(<<>>)
         /\ Len(OneWoken) = IF waiters = <<>> THEN 0 ELSE Len(waiters) - 1
<1>1. Queue(<<>>) /\ Len(<<>>) = 0
  BY DEF Queue
<1>2. waiters \in Seq(Goers)
  BY DEF SleepInv, Queue
<1>3. CASE waiters = <<>>
  BY <1>1, <1>3 DEF OneWoken
<1>4. CASE waiters # <<>>
  <2>1. /\ Tail(waiters) \in Seq(Goers) /\ Len(Tail(waiters)) = Len(waiters) - 1
        /\ \A i \in 1 .. Len(Tail(waiters)) : Tail(waiters)[i] = waiters[i + 1]
    BY <1>2, <1>4, HeadTailProperties
  <2>2. /\ Len(waiters) \in Nat
        /\ \A i \in 1 .. Len(Tail(waiters)) : i + 1 \in 1 .. Len(waiters) /\ i \in Nat
    BY <1>2, <2>1
  <2>3. /\ \A i \in 1 .. Len(waiters) : bcall[waiters[i]].at = "wait"
        /\ \A i, j \in 1 .. Len(waiters) : waiters[i] = waiters[j] => i = j
    BY DEF SleepInv, Queue
  <2> DEFINE s == Tail(waiters)
  <2> HIDE DEF s
  <2>4. \A i \in 1 .. Len(s) : bcall[s[i]].at = "wait"
    BY <2>1, <2>2, <2>3 DEF s
  <2>5. ASSUME NEW i \in 1 .. Len(s), NEW j \in 1 .. Len(s), s[i] = s[j]
        PROVE  i = j
    <3>1. i + 1 = j + 1 /\ i \in Nat /\ j \in Nat
      BY <2>1, <2>2, <2>3, <2>5 DEF s
    <3> QED
      BY <3>1
  <2>6. Queue(s)
    BY <2>1, <2>4, <2>5 DEF Queue, s
  <2> QED
    BY <1>1, <1>4, <2>1, <2>6 DEF OneWoken, s
<1> QED
  BY <1>3, <1>4

(* A goroutine that is awake changes its own call, and may go to sleep. *)
LEMMA CallStep ==
  ASSUME SleepInv, NEW g \in Goers, bcall[g].at # "wait", NEW c \in Call,
         bcall' = [bcall EXCEPT ![g] = c], NEW s, Queue(s),
         waiters' = s \/ (waiters' = Append(s, g) /\ c.at = "wait")
  PROVE  /\ bcall' \in [Goers -> Call] /\ bcall'[g] = c
         /\ \A h \in Goers : h # g => bcall'[h] = bcall[h]
         /\ Queue(waiters)'
<1>1. /\ bcall' \in [Goers -> Call] /\ bcall'[g] = c
      /\ \A h \in Goers : h # g => bcall'[h] = bcall[h]
  BY DEF SleepInv
<1>2. /\ s \in Seq(Goers) /\ Len(s) \in Nat
      /\ \A i \in 1 .. Len(s) : s[i] \in Goers /\ s[i] # g /\ bcall'[s[i]].at = "wait"
      /\ \A i, j \in 1 .. Len(s) : s[i] = s[j] => i = j
  BY <1>1 DEF Queue
<1>3. CASE waiters' = s
  BY <1>1, <1>2, <1>3 DEF Queue
<1>4. CASE waiters' = Append(s, g) /\ c.at = "wait"
  <2> DEFINE m == Len(s)
  <2>1. /\ waiters' \in Seq(Goers) /\ Len(waiters') = m + 1
        /\ \A i \in 1 .. m : waiters'[i] = s[i]
        /\ waiters'[m + 1] = g
    BY <1>2, <1>4
  <2> HIDE DEF m
  <2>2. \A i \in 1 .. m + 1 : i \in 1 .. m \/ i = m + 1
    BY <1>2 DEF m
  <2>3. \A i \in 1 .. m : waiters'[i] # g /\ bcall'[waiters'[i]].at = "wait"
    BY <1>2, <2>1 DEF m
  <2>4. \A i \in 1 .. Len(waiters') : bcall'[waiters'[i]].at = "wait"
    BY <1>1, <1>4, <2>1, <2>2, <2>3
  <2>5. ASSUME NEW i \in 1 .. Len(waiters'), NEW j \in 1 .. Len(waiters'),
               waiters'[i] = waiters'[j]
        PROVE  i = j
    <3>1. (i \in 1 .. m \/ i = m + 1) /\ (j \in 1 .. m \/ j = m + 1)
      BY <2>1, <2>2
    <3>2. CASE i \in 1 .. m /\ j \in 1 .. m
      BY <1>2, <2>1, <2>5, <3>2 DEF m
    <3> QED
      BY <2>1, <2>3, <2>5, <3>1, <3>2
  <2> QED
    BY <1>1, <2>1, <2>4, <2>5 DEF Queue
<1> QED
  BY <1>1, <1>3, <1>4

(* Elements of a queue are asleep. *)
LEMMA Asleep ==
  ASSUME SleepInv, NEW g \in Elements(waiters)
  PROVE  g \in Goers /\ bcall[g].at = "wait"
<1>1. PICK i \in DOMAIN waiters : g = waiters[i]
  BY DEF Elements
<1>2. i \in 1 .. Len(waiters) /\ waiters \in Seq(Goers)
  BY DEF SleepInv, Queue
<1> QED
  BY <1>1, <1>2 DEF SleepInv, Queue

CallUnchanged == UNCHANGED <<bcall, bkind>>

LEMMA QuietCalls ==
  ASSUME SleepInv, CallUnchanged, Queue(waiters'), bkind # "block" => waiters' = waiters,
         closeWrite' \in BOOLEAN, writeNotify' \in BOOLEAN, unsignalled' \in BOOLEAN
  PROVE  SleepInv'
  BY DEF SleepInv, Queue, CallUnchanged

LEMMA WakeSleep ==
  ASSUME SleepInv, NEW g \in Goers, Wake(g)
  PROVE  SleepInv'
<1> DEFINE c == [bcall[g] EXCEPT !.at = "woken"]
<1>1. c \in Call /\ c.at = "woken"
  BY DEF SleepInv, Call
<1>2. bcall' = [bcall EXCEPT ![g] = c] /\ bcall[g].at = "wait"
  BY DEF Wake, SleepInv
<1> HIDE DEF c
<1>3. /\ bcall' \in [Goers -> Call] /\ bcall'[g] = c
      /\ \A h \in Goers : h # g => bcall'[h] = bcall[h]
  BY <1>1, <1>2 DEF SleepInv
<1>4. Queue(waiters)'
  <2>1. CASE bkind = "block"
    <3>1. \A i \in 1 .. Len(waiters) : waiters[i] # g
      BY <2>1 DEF Wake, Woken, Elements, SleepInv, Queue
    <3>2. waiters' = waiters
      BY DEF Wake
    <3> QED
      BY <1>3, <3>1, <3>2 DEF SleepInv, Queue
  <2>2. CASE bkind # "block"
    <3>1. waiters' = <<>> /\ Len(<<>>) = 0
      BY <2>2 DEF SleepInv, Wake
    <3> QED
      BY <3>1 DEF Queue
  <2> QED
    BY <2>1, <2>2
<1> QED
  BY <1>1, <1>3, <1>4 DEF SleepInv, Wake, history, closing, Goers

(* One reader and one writer *)
Alone == (\A r, s \in BufReaders : r = s) /\ (\A v, w \in BufWriters : v = w)

(* Nobody sleeps with work to do *)
Idle(g) == ~closeWrite /\ Available = IF g \in BufReaders THEN 0 ELSE Size
Awake == \A g \in Goers : bcall[g].at = "wait" /\ ~Woken(g) => Idle(g)

LEMMA WakesMeans ==
  ASSUME SleepInv
  PROVE  BufferWakes <=> unsignalled \/ Awake
  BY DEF SleepInv, BufferWakes, Awake, Idle

(* If only the other one can be asleep, one signal wakes it. *)
LEMMA OneSignalWakesAll ==
  ASSUME SleepInv, Alone, NEW g \in Goers, bcall[g].at # "wait"
  PROVE  OneWoken = <<>>
<1>1. /\ waiters \in Seq(Goers) /\ Len(waiters) \in Nat
      /\ \A i \in 1 .. Len(waiters) : waiters[i] \in Goers /\ bcall[waiters[i]].at = "wait"
      /\ \A i, j \in 1 .. Len(waiters) : waiters[i] = waiters[j] => i = j
  BY DEF SleepInv, Queue
<1>2. ASSUME Len(waiters) > 1
      PROVE  FALSE
  <2>1. 1 \in 1 .. Len(waiters) /\ 2 \in 1 .. Len(waiters)
    BY <1>1, <1>2
  <2>2. waiters[1] # waiters[2] /\ waiters[1] # g /\ waiters[2] # g
    BY <1>1, <2>1
  <2>3. waiters[1] \in Goers /\ waiters[2] \in Goers
    BY <1>1, <2>1
  <2> QED
    BY <2>2, <2>3 DEF Alone, Goers
<1>3. OneWoken \in Seq(Goers) /\ Len(OneWoken) = 0
  <2>1. OneWoken \in Seq(Goers)
    BY OneWokenIs DEF Queue
  <2>2. waiters # <<>> => Len(waiters) \in Nat \ {0}
    BY <1>1, EmptySeq
  <2> DEFINE m == Len(waiters)
  <2>3. m \in Nat /\ ~(m > 1) /\ (waiters # <<>> => m \in Nat \ {0})
        /\ Len(OneWoken) = IF waiters = <<>> THEN 0 ELSE m - 1
    BY <1>1, <1>2, <2>2, OneWokenIs
  <2> HIDE DEF m
  <2>4. Len(OneWoken) = 0
    BY <2>3
  <2> QED
    BY <2>1, <2>4
<1> QED
  BY <1>3

WakesKept == Alone /\ BufferWakes => BufferWakes'

(* Signal wakes all but its caller, in each of the three buffers. *)
LEMMA SignalStep ==
  ASSUME SleepInv, Signal, CallUnchanged \/ \E g \in Goers : bcall[g].at # "wait" /\ Return(g),
         UNCHANGED <<bkind, closeWrite>>, unsignalled' \in BOOLEAN,
         bkind = "block" => \E g \in Goers : bcall[g].at # "wait" /\ Return(g)
  PROVE  SleepInv' /\ WakesKept
<1>1. Queue(OneWoken) /\ Queue(waiters)
  BY OneWokenIs DEF SleepInv
<1>2. CASE bkind = "block"
  <2>1. PICK g \in Goers : bcall[g].at # "wait" /\ Return(g)
    BY <1>2
  <2>2. /\ bcall' = [bcall EXCEPT ![g] = BIdle] /\ BIdle \in Call
        /\ waiters' = OneWoken /\ writeNotify' = writeNotify
    BY <1>2, <2>1 DEF Return, Signal, BIdle, Call
  <2>3. bcall' \in [Goers -> Call] /\ Queue(waiters)'
    BY <1>1, <2>1, <2>2, CallStep
  <2>4. SleepInv'
    BY <1>2, <2>2, <2>3 DEF SleepInv
  <2>5. Alone => waiters' = <<>>
    BY <2>1, <2>2, OneSignalWakesAll
  <2>6. Alone => Awake'
    BY <1>2, <2>5 DEF Awake, Woken, Elements
  <2>7. BufferWakes' <=> unsignalled' \/ Awake'
    BY <2>4, WakesMeans, PTL
  <2> QED
    BY <2>4, <2>6, <2>7 DEF WakesKept
<1>3. CASE bkind # "block"
  <2>1. waiters' = waiters /\ writeNotify' = TRUE /\ waiters = <<>>
    BY <1>3 DEF Signal, SleepInv
  <2>2. /\ bcall' \in [Goers -> Call] /\ Queue(waiters)'
        /\ \A w \in BufWriters : bcall'[w].at # "wait"
    <3>1. CASE CallUnchanged
      BY <1>3, <2>1, <3>1 DEF SleepInv, CallUnchanged, Queue
    <3>2. CASE \E g \in Goers : bcall[g].at # "wait" /\ Return(g)
      <4>1. PICK g \in Goers : bcall[g].at # "wait" /\ Return(g)
        BY <3>2
      <4>2. bcall' = [bcall EXCEPT ![g] = BIdle] /\ BIdle \in Call /\ BIdle.at = "idle"
        BY <4>1 DEF Return, BIdle, Call
      <4>3. /\ bcall' \in [Goers -> Call] /\ Queue(waiters)' /\ bcall'[g] = BIdle
            /\ \A h \in Goers : h # g => bcall'[h] = bcall[h]
        BY <1>1, <2>1, <4>1, <4>2, CallStep
      <4> QED
        BY <1>3, <4>2, <4>3 DEF SleepInv, Goers
    <3> QED
      BY <3>1, <3>2
  <2>3. SleepInv'
    BY <1>3, <2>1, <2>2 DEF SleepInv
  <2>4. Awake'
    BY <1>3, <2>1 DEF Awake, Woken
  <2>5. BufferWakes' <=> unsignalled' \/ Awake'
    BY <2>3, WakesMeans, PTL
  <2> QED
    BY <2>3, <2>4, <2>5 DEF WakesKept
<1> QED
  BY <1>2, <1>3

-----------------------------------------------------------------------------
(* Every step *)

BufInv == OrderInv /\ SleepInv

LEMMA WakeStep ==
  ASSUME BufInv, NEW g \in Goers, Wake(g)
  PROVE  BufInv' /\ WakesKept
<1>1. OrderInv'
  BY SameOrder DEF BufInv, Wake, history
<1>2. SleepInv'
  BY WakeSleep DEF BufInv
<1>3. /\ UNCHANGED <<bkind, storage, closeWrite, waiters, unsignalled>>
      /\ bcall[g].at = "wait" /\ Woken(g)
      /\ bcall'[g].at = "woken" /\ \A h \in Goers : h # g => bcall'[h] = bcall[h]
  <2>1. bcall[g] \in Call
    BY DEF BufInv, SleepInv
  <2>2. [bcall[g] EXCEPT !.at = "woken"].at = "woken"
    BY <2>1 DEF Call
  <2> QED
    BY <2>2 DEF Wake, BufInv, SleepInv, closing, history
<1>4. ASSUME Alone, Awake
      PROVE  Awake'
  <2>1. SUFFICES ASSUME NEW h \in Goers, bcall'[h].at = "wait", ~Woken(h)'
                 PROVE  Idle(h)'
    BY DEF Awake
  <2>2. h # g /\ bcall[h].at = "wait"
    BY <1>3, <2>1
  <2>3. bkind = "block"
    BY <1>3, <1>4, <2>2 DEF BufInv, SleepInv, Alone, Goers
  <2>4. ~Woken(h)
    BY <1>3, <2>1, <2>3 DEF Woken
  <2>5. Idle(h)
    BY <1>4, <2>2, <2>4 DEF Awake
  <2> QED
    BY <1>3, <2>5 DEF Idle, Available, Circular, storage
<1>5. (BufferWakes <=> unsignalled \/ Awake) /\ (BufferWakes' <=> unsignalled' \/ Awake')
  BY <1>2, WakesMeans, PTL DEF BufInv
<1> QED
  BY <1>1, <1>2, <1>3, <1>4, <1>5 DEF BufInv, WakesKept

(* A goroutine that comes back from its call without having changed the buffer *)
LEMMA ReturnStep ==
  ASSUME BufInv, NEW g \in Goers, bcall[g].at # "wait", Return(g),
         UNCHANGED <<bkind, storage, closing, signals, history>>
  PROVE  BufInv' /\ WakesKept
<1>1. OrderInv'
  BY SameOrder DEF BufInv, history
<1>2. bcall' = [bcall EXCEPT ![g] = BIdle] /\ BIdle \in Call /\ BIdle.at = "idle"
  BY DEF Return, BIdle, Call
<1>3. /\ bcall' \in [Goers -> Call] /\ Queue(waiters)' /\ bcall'[g] = BIdle
      /\ \A h \in Goers : h # g => bcall'[h] = bcall[h]
  BY <1>2, CallStep DEF BufInv, SleepInv, signals
<1>4. SleepInv'
  BY <1>2, <1>3 DEF BufInv, SleepInv, closing, signals, history, Goers
<1>5. Awake => Awake'
  BY <1>2, <1>3 DEF Awake, Woken, Idle, Available, Circular, storage, closing, signals
<1>6. (BufferWakes <=> unsignalled \/ Awake) /\ (BufferWakes' <=> unsignalled' \/ Awake')
  BY <1>4, WakesMeans, PTL DEF BufInv
<1> QED
  BY <1>1, <1>4, <1>5, <1>6 DEF BufInv, WakesKept, history

(* A goroutine that goes to sleep because there is nothing for it to do *)
LEMMA ParkStep ==
  ASSUME BufInv, NEW g \in Goers, bcall[g].at # "wait", NEW n \in Nat, Park(g, n),
         UNCHANGED <<bkind, storage, closing, history>>, Idle(g),
         g \in BufWriters => bkind = "block"
  PROVE  BufInv' /\ WakesKept
<1>1. OrderInv'
  BY SameOrder DEF BufInv, history
<1> DEFINE c == [at |-> "wait", n |-> n]
<1>2. bcall' = [bcall EXCEPT ![g] = c] /\ c \in Call /\ c.at = "wait"
  BY DEF Park, Call
<1> HIDE DEF c
<1>3. /\ waiters' = IF bkind = "block" THEN Append(waiters, g) ELSE waiters
      /\ writeNotify' = writeNotify
  BY DEF Park
<1>4. /\ bcall' \in [Goers -> Call] /\ Queue(waiters)' /\ bcall'[g] = c
      /\ \A h \in Goers : h # g => bcall'[h] = bcall[h]
  BY <1>2, <1>3, CallStep DEF BufInv, SleepInv
<1>5. SleepInv'
  BY <1>2, <1>3, <1>4 DEF BufInv, SleepInv, closing, history, Goers
<1>6. \A h \in Goers : Idle(h)' <=> Idle(h)
  BY DEF Idle, Available, Circular, storage, closing
<1>7. ASSUME Awake
      PROVE  Awake'
  <2>1. SUFFICES ASSUME NEW h \in Goers, h # g, bcall'[h].at = "wait", ~Woken(h)'
                 PROVE  Idle(h)'
    BY <1>6 DEF Awake
  <2>2. bcall[h].at = "wait"
    BY <1>4, <2>1
  <2>3. ~Woken(h)
    <3>1. CASE bkind = "block"
      <4>1. h \in Elements(waiters')
        BY <2>1, <3>1 DEF Woken
      <4>2. PICK i \in DOMAIN waiters' : waiters'[i] = h
        BY <4>1 DEF Elements
      <4>3. waiters' = Append(waiters, g) /\ waiters \in Seq(Goers)
        BY <1>3, <3>1 DEF BufInv, SleepInv, Queue
      <4>4. i \in DOMAIN waiters /\ waiters[i] = h
        BY <2>1, <4>2, <4>3
      <4> QED
        BY <3>1, <4>4 DEF Woken, Elements
    <3>2. CASE bkind # "block"
      BY <1>3, <2>1, <3>2 DEF Woken, closing
    <3> QED
      BY <3>1, <3>2
  <2> QED
    BY <1>6, <1>7, <2>2, <2>3 DEF Awake
<1>8. (BufferWakes <=> unsignalled \/ Awake) /\ (BufferWakes' <=> unsignalled' \/ Awake')
  BY <1>5, WakesMeans, PTL DEF BufInv
<1> QED
  BY <1>1, <1>5, <1>7, <1>8 DEF BufInv, WakesKept, history

LEMMA EnteringIs ==
  ASSUME SleepInv, NEW g \in Goers, NEW n, Entering(g, n)
  PROVE  bcall[g].at # "wait"
  BY DEF Entering

LEMMA ReadStep ==
  ASSUME BufInv, NEW r \in BufReaders, NEW n \in Nat, n > 0, Read(r, n)
  PROVE  BufInv' /\ WakesKept
<1>1. r \in Goers /\ bcall[r].at # "wait" /\ UNCHANGED <<bkind, closing>>
  BY DEF Read, Entering, Goers
<1>2. CASE Return(r) /\ UNCHANGED <<storage, signals, history>>
  BY <1>1, <1>2, ReturnStep
<1>3. CASE ~closeErr /\ Available = 0 /\ ~closeWrite /\ Park(r, n) /\ UNCHANGED <<storage, history>>
  <2>1. Idle(r) /\ r \notin BufWriters
    BY <1>3, BuffersAssumption DEF Idle
  <2> QED
    BY <1>1, <1>3, <2>1, ParkStep
<1> DEFINE values == IF Circular THEN ReadOut(n) ELSE SubSeq(growable, 1, Least(n, Available))
<1>4. CASE ~closeErr /\ Available > 0 /\ TakeOut(values) /\ Return(r)
  <2> DEFINE k == Least(n, Available)
  <2>1. /\ Available \in Nat /\ written \in Nat /\ k \in 1 .. Available /\ k \in Nat /\ k <= Available
    BY <1>4, Sizes DEF BufInv, Least
  <2>2. /\ values \in Seq(Nat) /\ Len(values) = k
        /\ \A i \in 1 .. k : values[i] = written - Available + i
    <3>1. CASE Circular
      <4>1. /\ Available = Stored /\ Available \in 0 .. Size /\ slots \in Storage /\ head \in Nat
            /\ Size \in Nat
        BY <3>1, Sizes DEF BufInv, OrderInv, StorageTyped
      <4>2. /\ ReadOut(n) \in Seq(Nat) /\ Len(ReadOut(n)) = k
            /\ \A i \in 1 .. k : ReadOut(n)[i] = slots[(head + (i - 1)) % Size]
        BY <4>1, ReadOutIs, Zenon
      <4>3. ASSUME NEW i \in 1 .. k
            PROVE  slots[(head + (i - 1)) % Size] = written - Available + i
        <5> DEFINE x == (head + (i - 1)) % Size
        <5>1. i - 1 \in Place /\ i - 1 < Stored
          BY <2>1, <4>1 DEF Place
        <5>2. x \in Place /\ Far(x) = i - 1
          BY <4>1, <5>1, DistanceOfPlace, Zenon DEF Far
        <5> HIDE DEF x
        <5>3. slots[x] = written - Stored + (i - 1) + 1
          BY <3>1, <5>1, <5>2 DEF BufInv, OrderInv, InPlace
        <5>4. written - Stored + (i - 1) + 1 = written - Available + i
          BY <2>1, <4>1
        <5> QED
          BY <5>3, <5>4 DEF x
      <4> QED
        BY <3>1, <4>2, <4>3
    <3>2. CASE ~Circular
      <4>1. growable \in Seq(Nat) /\ Available = Len(growable) /\ values = SubSeq(growable, 1, k)
        BY <3>2, Sizes DEF BufInv, OrderInv, StorageTyped
      <4>2. 1 \in Int /\ k \in Int /\ \A i \in 1 .. k : growable[i] \in Nat /\ i \in 1 .. Len(growable)
        BY <2>1, <4>1
      <4> HIDE DEF values, k
      <4>3. /\ SubSeq(growable, 1, k) \in Seq(Nat)
            /\ Len(SubSeq(growable, 1, k)) = IF 1 <= k THEN k - 1 + 1 ELSE 0
            /\ \A i \in 1 .. k - 1 + 1 : SubSeq(growable, 1, k)[i] = growable[1 + i - 1]
        BY <4>2, SubSeqProperties
      <4>4. (IF 1 <= k THEN k - 1 + 1 ELSE 0) = k /\ 1 .. k - 1 + 1 = 1 .. k
            /\ \A i \in 1 .. k : 1 + i - 1 = i
        BY <2>1
      <4>5. \A i \in 1 .. k : growable[i] = written - Available + i
        BY <3>2, <4>1, <4>2 DEF BufInv, OrderInv, InPlace
      <4> QED
        BY <4>1, <4>3, <4>4, <4>5
    <3> QED
      BY <3>1, <3>2
  <2> HIDE DEF values, k
  <2>3. OrderInv'
    BY <1>1, <1>4, <2>1, <2>2, TakeOutOrder DEF BufInv
  <2>4. CASE bkind = "block"
    <3>1. Signal /\ unsignalled' = FALSE
      BY <1>4, <2>4 DEF TakeOut
    <3> QED
      BY <1>1, <1>4, <2>3, <3>1, SignalStep DEF BufInv, closing
  <2>5. CASE bkind # "block"
    <3>1. UNCHANGED <<signals, unsignalled>>
      BY <1>4, <2>5 DEF TakeOut
    <3>2. bcall' = [bcall EXCEPT ![r] = BIdle] /\ BIdle \in Call /\ BIdle.at = "idle"
      BY <1>4 DEF Return, BIdle, Call
    <3>3. /\ bcall' \in [Goers -> Call] /\ Queue(waiters)' /\ bcall'[r] = BIdle
          /\ \A h \in Goers : h # r => bcall'[h] = bcall[h]
      BY <1>1, <3>1, <3>2, CallStep DEF BufInv, SleepInv, signals
    <3>4. SleepInv'
      BY <1>1, <3>1, <3>2, <3>3 DEF BufInv, SleepInv, closing, signals, Goers
    <3>5. Alone => Awake'
      BY <2>5, <3>2, <3>3 DEF Alone, Awake, BufInv, SleepInv, Goers
    <3>6. BufferWakes' <=> unsignalled' \/ Awake'
      BY <3>4, WakesMeans, PTL
    <3> QED
      BY <2>3, <3>4, <3>5, <3>6 DEF BufInv, WakesKept
  <2> QED
    BY <2>4, <2>5
<1> QED
  BY <1>2, <1>3, <1>4 DEF Read

(* Discard and Reset: what was unsignalled stays excepted. *)
LEMMA DropStep ==
  ASSUME BufInv, UNCHANGED <<bkind, closing, signals, bcall>>, OrderInv', NEW k \in Nat,
         k <= Available, Available' = Available - k,
         unsignalled' = (unsignalled \/ (k > 0 /\ waiters # <<>>))
  PROVE  BufInv' /\ WakesKept
<1>1. SleepInv'
  BY DEF BufInv, SleepInv, Queue, closing, signals
<1>2. ASSUME Awake, ~unsignalled'
      PROVE  Awake'
  <2>1. SUFFICES ASSUME NEW h \in Goers, bcall[h].at = "wait", ~Woken(h)
                 PROVE  Idle(h)'
    BY DEF Awake, Woken, closing, signals
  <2>2. Idle(h)
    BY <1>2, <2>1 DEF Awake
  <2>3. Size \in Nat /\ Available \in Nat
    BY Sizes DEF BufInv
  <2>4. k = 0
    <3>1. CASE bkind = "block"
      <4>1. h \in Elements(waiters)
        BY <2>1, <3>1 DEF Woken
      <4>2. waiters # <<>>
        BY <4>1 DEF Elements
      <4>3. ~(k > 0)
        BY <1>2, <4>2, Zenon
      <4> QED
        BY <4>3
    <3>2. CASE bkind # "block"
      <4>1. h \in BufReaders
        BY <2>1, <3>2 DEF BufInv, SleepInv, Goers
      <4> QED
        BY <2>2, <2>3, <4>1 DEF Idle
    <3> QED
      BY <3>1, <3>2
  <2>5. Available' = Available
    BY <2>3, <2>4
  <2> QED
    BY <2>2, <2>5 DEF Idle, closing
<1>3. (BufferWakes <=> unsignalled \/ Awake) /\ (BufferWakes' <=> unsignalled' \/ Awake')
  BY <1>1, WakesMeans, PTL DEF BufInv
<1> QED
  BY <1>1, <1>2, <1>3 DEF BufInv, WakesKept

LEMMA DiscardStep ==
  ASSUME BufInv, NEW n \in Nat, Discard(n)
  PROVE  BufInv' /\ WakesKept
<1> DEFINE k == Least(n, Available)
<1>1. OrderInv'
  BY DiscardOrder DEF BufInv
<1>2. /\ UNCHANGED <<bkind, closing, signals, bcall>> /\ Remove(k)
      /\ unsignalled' = (unsignalled \/ (k > 0 /\ waiters # <<>>))
  BY DEF Discard
<1>3. k \in Nat /\ k <= Available /\ Available \in Nat
  BY Sizes DEF BufInv, Least
<1> HIDE DEF k
<1>4. Available' = Available - k
  <2>1. CASE Circular
    <3>1. head' = head + k /\ tail' = tail /\ head \in Nat /\ tail \in Nat
      BY <1>2, <2>1 DEF Remove, BufInv, OrderInv, StorageTyped
    <3> QED
      BY <1>2, <1>3, <2>1, <3>1 DEF Available, Circular
  <2>2. CASE ~Circular
    <3>1. growable' = After(growable, k) /\ growable \in Seq(Nat) /\ Available = Len(growable)
      BY <1>2, <2>2, Sizes DEF Remove, BufInv, OrderInv, StorageTyped
    <3>2. k \in 0 .. Len(growable)
      BY <1>3, <3>1
    <3>3. Len(growable') = Len(growable) - k
      BY <3>1, <3>2, AfterIs
    <3> QED
      BY <1>2, <2>2, <3>1, <3>3 DEF Available, Circular
  <2> QED
    BY <2>1, <2>2
<1> QED
  BY <1>1, <1>2, <1>3, <1>4, DropStep

LEMMA ResetStep ==
  ASSUME BufInv, Reset
  PROVE  BufInv' /\ WakesKept
<1>1. OrderInv'
  BY ResetOrder DEF BufInv
<1>2. Available \in Nat /\ Available' = Available - Available
  <2>1. Available \in Nat
    BY Sizes DEF BufInv
  <2>2. Available' = 0
    BY DEF Reset, Available
  <2> QED
    BY <2>1, <2>2
<1>3. /\ UNCHANGED <<bkind, closing, signals, bcall>>
      /\ unsignalled' = (unsignalled \/ (Available > 0 /\ waiters # <<>>))
  BY DEF Reset
<1>4. Available <= Available
  BY <1>2
<1> QED
  BY <1>1, <1>2, <1>3, <1>4, DropStep

LEMMA BlockWriteStep ==
  ASSUME BufInv, NEW w \in BufWriters, NEW n \in Nat, n > 0, written + n <= MaxValues,
         BlockWrite(w, n)
  PROVE  BufInv' /\ WakesKept
<1>1. /\ w \in Goers /\ bcall[w].at # "wait" /\ w \notin BufReaders
      /\ bkind = "block" /\ Circular /\ UNCHANGED <<bkind, head, growable, closing>>
  BY BuffersAssumption DEF BlockWrite, Entering, Goers, Circular
<1>2. /\ Available \in Nat /\ Size \in Nat /\ Available <= Size /\ Available = Stored
      /\ head \in Nat /\ tail \in Nat
  BY <1>1, Sizes DEF BufInv, OrderInv, StorageTyped
<1> DEFINE k == Least(n, Size - Available)
<1>3. CASE Return(w) /\ UNCHANGED <<slots, tail, signals, history>>
  BY <1>1, <1>3, ReturnStep DEF storage
<1>4. CASE ~closeWrite /\ Available = Size /\ Park(w, n) /\ UNCHANGED <<slots, tail, history>>
  <2>1. Idle(w)
    BY <1>1, <1>4 DEF Idle
  <2> QED
    BY <1>1, <1>4, <2>1, ParkStep DEF storage
<1>5. CASE /\ ~closeWrite /\ Available < Size
           /\ slots' = FillFree(Numbers(written, n)) /\ tail' = tail + k
           /\ Wrote(k)
           /\ IF k = n THEN Signal /\ Return(w)
              ELSE /\ waiters' = Append(OneWoken, w)
                   /\ bcall' = [bcall EXCEPT ![w] = [at |-> "wait", n |-> n - k]]
                   /\ UNCHANGED writeNotify
           /\ unsignalled' = FALSE
  <2>1. k \in Nat /\ k > 0 /\ k <= n /\ (k # n => k = Size - Available)
    BY <1>2, <1>5 DEF Least
  <2>2. OrderInv'
    <3>1. written' = written + k /\ UNCHANGED <<bkind, head, growable, got, gone>>
      BY <1>1, <1>5 DEF Wrote
    <3> QED
      BY <1>1, <1>5, <2>1, <3>1, FillOrder DEF BufInv
  <2> HIDE DEF k
  <2>3. CASE k = n
    <3>1. SleepInv' /\ WakesKept
      BY <1>1, <1>5, <2>3, SignalStep DEF BufInv, closing
    <3> QED
      BY <2>2, <3>1 DEF BufInv
  <2>4. CASE k # n
    <3> DEFINE c == [at |-> "wait", n |-> n - k]
    <3>1. bcall' = [bcall EXCEPT ![w] = c] /\ c \in Call /\ c.at = "wait"
      BY <1>5, <2>1, <2>4 DEF Call
    <3> HIDE DEF c
    <3>2. waiters' = Append(OneWoken, w) /\ writeNotify' = writeNotify /\ Queue(OneWoken)
      BY <1>5, <2>4, OneWokenIs DEF BufInv
    <3>3. /\ bcall' \in [Goers -> Call] /\ Queue(waiters)' /\ bcall'[w] = c
          /\ \A h \in Goers : h # w => bcall'[h] = bcall[h]
      BY <1>1, <3>1, <3>2, CallStep DEF BufInv
    <3>4. SleepInv'
      BY <1>1, <1>5, <3>2, <3>3 DEF BufInv, SleepInv, closing
    <3>5. Available' = Size
      <4>1. tail' = tail + k /\ head' = head /\ Available' = tail' - head' /\ Available = tail - head
        BY <1>1, <1>5 DEF Available, Circular
      <4> QED
        BY <1>2, <2>1, <2>4, <4>1
    <3>6. ASSUME Alone
          PROVE  Awake'
      <4>1. OneWoken = <<>>
        BY <1>1, <3>6, OneSignalWakesAll DEF BufInv
      <4>2. Elements(waiters') = {w}
        BY <3>2, <4>1 DEF Elements
      <4>3. Idle(w)'
        BY <1>1, <1>5, <3>5 DEF Idle, closing
      <4> QED
        BY <1>1, <4>2, <4>3 DEF Awake, Woken
    <3>7. BufferWakes' <=> unsignalled' \/ Awake'
      BY <3>4, WakesMeans, PTL
    <3> QED
      BY <2>2, <3>4, <3>6, <3>7 DEF BufInv, WakesKept
  <2> QED
    BY <2>3, <2>4
<1> QED
  BY <1>3, <1>4, <1>5 DEF BlockWrite

LEMMA RingWriteStep ==
  ASSUME BufInv, NEW n \in Nat, n > 0, written + n <= MaxValues, RingWrite(n)
  PROVE  BufInv' /\ WakesKept
<1>1. OrderInv'
  BY RingWriteOrder DEF BufInv
<1>2. unsignalled' = TRUE /\ UNCHANGED <<bkind, closing, signals, bcall>>
  BY DEF RingWrite
<1>3. SleepInv'
  BY <1>2, QuietCalls DEF BufInv, SleepInv, CallUnchanged, closing, signals
<1> QED
  BY <1>1, <1>2, <1>3 DEF BufInv, WakesKept, BufferWakes

LEMMA RingAddStep ==
  ASSUME BufInv, written < MaxValues, RingAdd
  PROVE  BufInv' /\ WakesKept
<1>1. OrderInv'
  BY RingAddOrder DEF BufInv
<1>2. SleepInv' /\ WakesKept
  BY SignalStep DEF BufInv, RingAdd, CallUnchanged, closing
<1> QED
  BY <1>1, <1>2 DEF BufInv

LEMMA GrowStep ==
  ASSUME BufInv, NEW n \in Nat, written + n <= MaxValues, GrowWrite(n)
  PROVE  BufInv' /\ WakesKept
<1>1. OrderInv'
  BY GrowOrder DEF BufInv
<1>2. SleepInv' /\ WakesKept
  BY SignalStep DEF BufInv, SleepInv, GrowWrite, CallUnchanged, closing
<1> QED
  BY <1>1, <1>2 DEF BufInv

(* Closing wakes everybody. *)
LEMMA ClosedStep ==
  ASSUME BufInv, OrderInv', closeWrite' = TRUE, waiters' = <<>>,
         UNCHANGED <<bkind, writeNotify, bcall, unsignalled>>
  PROVE  BufInv' /\ WakesKept
<1>1. SleepInv'
  <2>1. Queue(waiters')
    BY OneWokenIs DEF BufInv
  <2> QED
    BY <2>1, QuietCalls DEF BufInv, SleepInv, CallUnchanged
<1>2. Awake'
  BY DEF Awake, Woken, Elements
<1>3. BufferWakes' <=> unsignalled' \/ Awake'
  BY <1>1, WakesMeans, PTL
<1> QED
  BY <1>1, <1>2, <1>3 DEF BufInv, WakesKept

LEMMA CloseStep ==
  ASSUME BufInv, CloseWrite \/ CloseWithError
  PROVE  BufInv' /\ WakesKept
<1>1. CASE CloseWrite
  <2>1. OrderInv'
    BY <1>1, SameOrder DEF BufInv, CloseWrite, history
  <2> QED
    BY <1>1, <2>1, ClosedStep DEF CloseWrite, history
<1>2. CASE CloseWithError
  <2>1. OrderInv'
    BY <1>2, CloseErrorOrder DEF BufInv
  <2> QED
    BY <1>2, <2>1, ClosedStep DEF CloseWithError
<1> QED
  BY <1>1, <1>2

LEMMA BufInit ==
  ASSUME NewBuffer
  PROVE  BufInv /\ BufferWakes
<1>1. Size \in Nat \ {0} /\ MaxValues \in Nat /\ bkind \in {"block", "ring", "growable"}
  BY BuffersAssumption DEF NewBuffer
<1>2. StorageTyped
  BY <1>1 DEF NewBuffer, StorageTyped, Place, Stored
<1>3. Available = 0 /\ Stored = 0
  BY DEF NewBuffer, Available, Stored
<1>4. InPlace
  <2>1. ASSUME NEW x \in Place, Far(x) < Stored
        PROVE  FALSE
    <3>1. 0 \in 0 .. Size /\ 0 \in Nat
      BY <1>1
    <3>2. Distance(0 % Size, x) \in Nat
      BY <3>1, DistanceShifts
    <3> QED
      BY <1>3, <2>1, <3>2 DEF Far, NewBuffer
  <2> QED
    BY <2>1 DEF InPlace, NewBuffer
<1>5. NothingLost
  BY <1>1, <1>3 DEF NothingLost, NewBuffer, Least
<1>6. GotRises
  BY DEF GotRises, NewBuffer
<1>7. SleepInv
  <2>1. BIdle \in Call /\ BIdle.at = "idle"
    BY DEF BIdle, Call
  <2>2. bcall \in [Goers -> Call] /\ \A g \in Goers : bcall[g] = BIdle
    BY <2>1 DEF NewBuffer, Goers
  <2>3. Queue(waiters)
    BY DEF NewBuffer, Queue
  <2> QED
    BY <2>1, <2>2, <2>3 DEF SleepInv, NewBuffer, Goers
<1>8. BufferWakes
  BY DEF BufferWakes, NewBuffer, BIdle
<1> QED
  BY <1>2, <1>4, <1>5, <1>6, <1>7, <1>8 DEF BufInv, OrderInv

LEMMA BufStep ==
  ASSUME BufInv, [BufNext]_bufVars
  PROVE  BufInv' /\ WakesKept
<1>1. CASE UNCHANGED bufVars
  <2>1. OrderInv'
    BY <1>1, SameOrder DEF BufInv, bufVars, history
  <2>2. SleepInv'
    BY <1>1, QuietCalls DEF BufInv, SleepInv, bufVars, history, signals, closing, CallUnchanged
  <2>3. WakesKept
    BY <1>1 DEF WakesKept, BufferWakes, Woken, Available, Circular, bufVars, storage, closing,
                signals, history
  <2> QED
    BY <2>1, <2>2, <2>3 DEF BufInv
<1>2. \A n \in 1 .. MaxSlice : n \in Nat /\ n > 0
  BY BuffersAssumption
<1>3. ASSUME NEW g \in Goers, Wake(g)
      PROVE  BufInv' /\ WakesKept
  BY <1>3, WakeStep
<1>4. ASSUME NEW n \in 1 .. MaxSlice, NEW r \in BufReaders, Read(r, n)
      PROVE  BufInv' /\ WakesKept
  BY <1>2, <1>4, ReadStep
<1>5. ASSUME NEW n \in 1 .. MaxSlice, Discard(n)
      PROVE  BufInv' /\ WakesKept
  BY <1>2, <1>5, DiscardStep
<1>6. ASSUME NEW n \in 1 .. MaxSlice, written + n <= MaxValues, RingWrite(n) \/ GrowWrite(n)
      PROVE  BufInv' /\ WakesKept
  BY <1>2, <1>6, RingWriteStep, GrowStep
<1>7. ASSUME NEW n \in 1 .. MaxSlice, written + n <= MaxValues, NEW w \in BufWriters, BlockWrite(w, n)
      PROVE  BufInv' /\ WakesKept
  BY <1>2, <1>7, BlockWriteStep
<1>8. CASE written < MaxValues /\ RingAdd
  BY <1>8, RingAddStep
<1>9. CASE Reset
  BY <1>9, ResetStep
<1>10. CASE CloseWrite \/ CloseWithError
  BY <1>10, CloseStep
<1> QED
  BY <1>1, <1>3, <1>4, <1>5, <1>6, <1>7, <1>8, <1>9, <1>10 DEF BufNext, Goers

LEMMA BufInvariant == BufSpec => []BufInv
<1>1. NewBuffer => BufInv
  BY BufInit
<1>2. BufInv /\ [BufNext]_bufVars => BufInv'
  BY BufStep
<1> QED
  BY <1>1, <1>2, PTL DEF BufSpec

-----------------------------------------------------------------------------
(* What holds of every behaviour *)

(* The buffer of the growable one is not used by the others. *)
Unused == Circular => growable = <<>>

LEMMA UnusedStays == BufSpec => []Unused
<1>1. NewBuffer => Unused
  BY DEF NewBuffer, Unused
<1>2. ASSUME Unused, [BufNext]_bufVars
      PROVE  Unused'
  <2>1. CASE UNCHANGED bufVars
    BY <1>2, <2>1 DEF Unused, Circular, bufVars, storage
  <2>2. ASSUME NEW g \in Goers, Wake(g)
        PROVE  Unused'
    BY <1>2, <2>2 DEF Wake, Unused, Circular, storage
  <2>3. ASSUME NEW n \in 1 .. MaxSlice, NEW r \in BufReaders, Read(r, n)
        PROVE  Unused'
    BY <1>2, <2>3 DEF Read, TakeOut, Remove, Unused, Circular, storage
  <2>4. ASSUME NEW n \in 1 .. MaxSlice, Discard(n)
        PROVE  Unused'
    BY <1>2, <2>4 DEF Discard, Remove, Unused, Circular
  <2>5. ASSUME NEW n \in 1 .. MaxSlice, RingWrite(n) \/ GrowWrite(n)
        PROVE  Unused'
    BY <1>2, <2>5 DEF RingWrite, GrowWrite, Unused, Circular
  <2>6. ASSUME NEW n \in 1 .. MaxSlice, NEW w \in BufWriters, BlockWrite(w, n)
        PROVE  Unused'
    BY <1>2, <2>6 DEF BlockWrite, Unused, Circular
  <2>7. CASE RingAdd \/ Reset \/ CloseWrite \/ CloseWithError
    BY <1>2, <2>7 DEF RingAdd, Reset, CloseWrite, CloseWithError, Unused, Circular, storage
  <2> QED
    BY <1>2, <2>1, <2>2, <2>3, <2>4, <2>5, <2>6, <2>7 DEF BufNext, Goers
<1> QED
  BY <1>1, <1>2, PTL DEF BufSpec

(* The storage and what has been read hold values that were written, and only a goroutine
   inside a call is in the queue of the condition (every method of the three buffers). *)
THEOREM BufferTypeCorrect == BufSpec => []BufTypeOK
<1>1. ASSUME BufInv, Unused
      PROVE  BufTypeOK
  <2>1. head \in Nat /\ tail \in Nat /\ slots \in [0 .. (Size - 1) -> 0 .. MaxValues]
    BY <1>1 DEF BufInv, OrderInv, StorageTyped, Place
  <2>2. \A g \in Elements(waiters) : bcall[g].at = "wait"
    BY <1>1, Asleep DEF BufInv
  <2>3. /\ written \in Nat /\ MaxValues \in Nat /\ written <= MaxValues
        /\ gone \in Nat /\ gone <= written
    BY <1>1, Sizes DEF BufInv, OrderInv, StorageTyped
  <2>4. ASSUME NEW v \in Elements(growable)
        PROVE  v \in 1 .. MaxValues
    <3>1. PICK i \in DOMAIN growable : v = growable[i]
      BY <2>4 DEF Elements
    <3>2. ~Circular
      BY <1>1, <3>1 DEF Unused
    <3> DEFINE m == Len(growable)
    <3>3. i \in 1 .. m /\ growable[i] = written - m + i
      BY <1>1, <3>1, <3>2 DEF BufInv, OrderInv, StorageTyped, InPlace
    <3>4. m \in Nat /\ m <= written - gone
      BY <1>1, <3>2, Sizes DEF BufInv
    <3> HIDE DEF m
    <3>5. written - m + i \in 1 .. MaxValues
      BY <2>3, <3>3, <3>4
    <3> QED
      BY <3>1, <3>3, <3>5
  <2>5. ASSUME NEW v \in Elements(got)
        PROVE  v \in 1 .. MaxValues
    <3>1. PICK i \in DOMAIN got : v = got[i]
      BY <2>5 DEF Elements
    <3>2. got[i] \in Nat /\ 1 <= got[i] /\ got[i] <= gone
      BY <1>1, <3>1 DEF BufInv, OrderInv, GotRises
    <3> QED
      BY <2>3, <3>1, <3>2
  <2> QED
    BY <2>1, <2>2, <2>4, <2>5 DEF BufTypeOK
<1> QED
  BY <1>1, BufInvariant, UnusedStays, PTL

(* Values come out in the order they went in, each once and none lost but to Discard, Reset,
   Close and, in a RingBuffer, to newer values: for storage of any size, wherever head and
   tail are and however long the slices (Read, Write, Add, Discard, Reset). *)
THEOREM ValuesInOrder == BufSpec => []BufferInOrder
<1>1. ASSUME BufInv
      PROVE  BufferInOrder
  <2>1. \A i, j \in DOMAIN got : i < j => got[i] < got[j]
    BY <1>1 DEF BufInv, OrderInv, GotRises
  <2>2. Available = IF bkind = "ring" THEN Least(Size, written - gone) ELSE written - gone
    BY <1>1 DEF BufInv, OrderInv, NothingLost
  <2>3. /\ Available \in Nat /\ written \in Nat /\ gone \in Nat /\ Available <= written - gone
        /\ Size \in Nat
    BY <1>1, Sizes DEF BufInv
  <2>4. Contents = Numbers(written - Available, Available)
    <3>1. CASE Circular
      <4>1. Available = Stored /\ Available <= Size /\ head \in Nat
        BY <1>1, <3>1, Sizes DEF BufInv, OrderInv, StorageTyped
      <4>2. ASSUME NEW i \in 1 .. Available
            PROVE  slots[(head + i - 1) % Size] = written - Available + i
        <5> DEFINE x == (head + (i - 1)) % Size
        <5>1. i - 1 \in Place /\ i - 1 < Stored
          BY <2>3, <4>1 DEF Place
        <5>2. x \in Place /\ Far(x) = i - 1
          BY <4>1, <5>1, DistanceOfPlace, Zenon DEF Far
        <5>3. head + i - 1 = head + (i - 1)
          BY <4>1, <2>3
        <5>4. (head + i - 1) % Size = x
          BY <5>3
        <5> HIDE DEF x
        <5>5. slots[x] = written - Stored + (i - 1) + 1
          BY <1>1, <3>1, <5>1, <5>2 DEF BufInv, OrderInv, InPlace
        <5>6. written - Stored + (i - 1) + 1 = written - Available + i
          BY <2>3, <4>1
        <5> QED
          BY <5>4, <5>5, <5>6
      <4> QED
        BY <3>1, <4>2 DEF Contents, Numbers
    <3>2. CASE ~Circular
      <4>1. growable \in Seq(Nat) /\ Available = Len(growable)
            /\ \A i \in 1 .. Len(growable) : growable[i] = written - Len(growable) + i
        BY <1>1, <3>2, Sizes DEF BufInv, OrderInv, StorageTyped, InPlace
      <4>2. growable = [i \in 1 .. Available |-> growable[i]]
        BY <4>1
      <4> QED
        BY <3>2, <4>1, <4>2 DEF Contents, Numbers
    <3> QED
      BY <3>1, <3>2
  <2> QED
    BY <2>1, <2>2, <2>4 DEF BufferInOrder
<1> QED
  BY <1>1, BufInvariant, PTL

(* With one reader and one writer, as every use in the repository has, nobody sleeps with
   work to do, except after Discard, Reset or RingBuffer.Write, which wake nobody: the one
   signal or token of a call reaches the only goroutine that can be asleep, and closing
   wakes both (cond.Signal, cond.Broadcast and writeNotify of the three buffers). *)
THEOREM NobodySleepsWithWork ==
  (\A r, s \in BufReaders : r = s) /\ (\A v, w \in BufWriters : v = w)
    => (BufSpec => []BufferWakes)
<1>1. NewBuffer => BufferWakes
  BY BufInit
<1>2. BufInv /\ [BufNext]_bufVars => WakesKept
  BY BufStep
<1>3. ASSUME Alone
      PROVE  BufInv /\ BufferWakes /\ [BufNext]_bufVars => BufferWakes'
  BY <1>2, <1>3 DEF WakesKept
<1>4. ASSUME Alone
      PROVE  BufSpec => []BufferWakes
  BY <1>1, <1>3, <1>4, BufInvariant, PTL DEF BufSpec
<1> QED
  BY <1>4 DEF Alone
=============================================================================
