---------------------------- MODULE MixerProofs -----------------------------
(***************************************************************************)
(* Proofs about the audio mixer and the ring buffer of a track, for any    *)
(* number of tracks, readers and writers, any formats and any sizes.       *)
(*                                                                         *)
(* The mixer: one relation says how a track may change under the feet of   *)
(* the reader in whose round it is: flags only rise, an input that is      *)
(* closed only drains, no input is added once the track is closed.  Every  *)
(* call but the reader's own keeps it, so what the reader found when it    *)
(* looked still holds when it drops an input or removes the track.         *)
(*                                                                         *)
(* The ring: what write and read leave in each place of the storage, from  *)
(* which each is the operation of the bounded queue.                       *)
(***************************************************************************)
EXTENDS PcmMixer, TrackRing, SequenceTheorems, TLAPS

-----------------------------------------------------------------------------
(* How tracks change *)

(* What a writer asleep on the ring may rely on *)
Serves(in) == in.closed \/ in.notify \/ in.stored > 0

(* Between two looks at an input: one that is closed only drains *)
InputGoes(a, b) == b.fmt = a.fmt /\ (a.closed => b.closed /\ b.stored <= a.stored)

TrackGoes(a, b) ==
  /\ b \in Track
  /\ b.first = a.first /\ Len(a.inputs) <= Len(b.inputs)
  /\ b.made = a.made /\ (~a.made => Len(b.inputs) = Len(a.inputs))
  /\ a.closeErr => b.closeErr
  /\ a.closeWrite => b.closeWrite
  /\ a.closeErr \/ a.closeWrite => Len(b.inputs) = Len(a.inputs)
  /\ \A i \in 1 .. Len(a.inputs) : InputGoes(a.inputs[i], b.inputs[i])

TrackServes(a, b) == \A i \in 1 .. Len(a.inputs) : Serves(a.inputs[i]) => Serves(b.inputs[i])

(* first is at most one beyond the inputs, and what lies before it is spent *)
TrackShape(tk) ==
  /\ tk.first <= Len(tk.inputs) + 1
  /\ ~tk.made => tk.inputs = <<>>
  /\ \A i \in 1 .. tk.first - 1 :
       tk.inputs[i].fmt = OutFormat => tk.inputs[i].closed /\ tk.inputs[i].stored = 0

LEMMA InputIs ==
  ASSUME NEW in \in Input
  PROVE  /\ in.stored \in Nat /\ in.stored <= RingSize /\ RingSize \in Nat /\ RingSize > 0
         /\ in.left \in Nat /\ in.left <= MaxMade /\ MaxMade \in Nat
         /\ in.closed \in BOOLEAN /\ in.notify \in BOOLEAN /\ in.fmt \in Formats
BY MixerAssumption DEF Input

LEMMA TrackIs ==
  ASSUME NEW tk \in Track
  PROVE  /\ tk.inputs \in Seq(Input) /\ Len(tk.inputs) \in Nat /\ DOMAIN tk.inputs = 1 .. Len(tk.inputs)
         /\ tk.first \in Nat /\ tk.first > 0
         /\ tk.made \in BOOLEAN /\ tk.closeErr \in BOOLEAN /\ tk.closeWrite \in BOOLEAN
         /\ tk.fade \in BOOLEAN /\ tk.fading \in BOOLEAN
         /\ \A i \in 1 .. Len(tk.inputs) : tk.inputs[i] \in Input /\ tk.inputs[i].stored \in Nat
<1>1. tk.inputs \in Seq(Input) /\ tk.first \in Nat \ {0}
  BY DEF Track
<1>2. \A i \in 1 .. Len(tk.inputs) : tk.inputs[i] \in Input /\ tk.inputs[i].stored \in Nat
  BY <1>1, InputIs
<1> QED
  BY <1>1, <1>2 DEF Track

LEMMA TrackSame ==
  ASSUME NEW tk \in Track
  PROVE  TrackGoes(tk, tk) /\ TrackServes(tk, tk)
<1>1. \A i \in 1 .. Len(tk.inputs) : InputGoes(tk.inputs[i], tk.inputs[i])
  BY TrackIs DEF InputGoes
<1> QED
  BY <1>1, TrackIs DEF TrackGoes, TrackServes

(* Spent inputs stay spent, and a new one comes behind them. *)
LEMMA ShapeKept ==
  ASSUME NEW a \in Track, NEW b, TrackShape(a), TrackGoes(a, b)
  PROVE  TrackShape(b)
<1>1. /\ a.inputs \in Seq(Input) /\ b.inputs \in Seq(Input) /\ b.first = a.first /\ a.first \in Nat \ {0}
      /\ Len(a.inputs) \in Nat /\ Len(b.inputs) \in Nat /\ Len(a.inputs) <= Len(b.inputs)
  BY DEF TrackGoes, Track
<1>2. ASSUME ~b.made PROVE b.inputs = <<>>
  <2>1. a.inputs = <<>> /\ Len(b.inputs) = 0
    BY <1>1, <1>2 DEF TrackGoes, TrackShape
  <2> QED
    BY <1>1, <2>1
<1>3. ASSUME NEW i \in 1 .. b.first - 1, b.inputs[i].fmt = OutFormat
      PROVE  b.inputs[i].closed /\ b.inputs[i].stored = 0
  <2>1. i \in 1 .. Len(a.inputs) /\ i \in 1 .. Len(b.inputs) /\ i \in 1 .. a.first - 1
    BY <1>1, <1>3 DEF TrackShape
  <2>2. InputGoes(a.inputs[i], b.inputs[i]) /\ b.inputs[i].stored \in Nat
    BY <1>1, <2>1, InputIs DEF TrackGoes
  <2> QED
    BY <1>3, <2>1, <2>2 DEF TrackShape, InputGoes
<1> QED
  BY <1>1, <1>2, <1>3 DEF TrackShape

-----------------------------------------------------------------------------
(* What the calls make of a track *)

LEMMA InputClosed ==
  ASSUME NEW in \in Input
  PROVE  LET b == [in EXCEPT !.closed = TRUE]
         IN /\ b \in Input /\ InputGoes(in, b) /\ Serves(b)
            /\ b.closed = TRUE /\ b.stored = in.stored /\ b.fmt = in.fmt
<1> DEFINE b == [in EXCEPT !.closed = TRUE]
<1>1. b \in Input /\ b.closed = TRUE /\ b.stored = in.stored /\ b.fmt = in.fmt
  BY DEF Input
<1> HIDE DEF b
<1>2. InputGoes(in, b) /\ Serves(b)
  BY <1>1, InputIs DEF InputGoes, Serves
<1> QED
  BY <1>1, <1>2 DEF b

(* A track some of whose inputs were closed, and whose flags only rose *)
LEMMA ClosedGoes ==
  ASSUME NEW tk \in Track, NEW b \in Track,
         Len(b.inputs) = Len(tk.inputs), b.first = tk.first, b.made = tk.made,
         \A i \in 1 .. Len(tk.inputs) :
           \/ b.inputs[i] = tk.inputs[i]
           \/ b.inputs[i] = [tk.inputs[i] EXCEPT !.closed = TRUE],
         tk.closeErr => b.closeErr, tk.closeWrite => b.closeWrite
  PROVE  TrackGoes(tk, b) /\ TrackServes(tk, b)
<1>1. ASSUME NEW i \in 1 .. Len(tk.inputs)
      PROVE  InputGoes(tk.inputs[i], b.inputs[i]) /\ (Serves(tk.inputs[i]) => Serves(b.inputs[i]))
  <2>1. CASE b.inputs[i] = tk.inputs[i]
    BY <2>1, TrackIs DEF InputGoes
  <2>2. CASE b.inputs[i] = [tk.inputs[i] EXCEPT !.closed = TRUE]
    BY <2>2, TrackIs, InputClosed
  <2> QED
    BY <2>1, <2>2
<1> QED
  BY <1>1, TrackIs DEF TrackGoes, TrackServes

LEMMA LastClosedIs ==
  ASSUME NEW tk \in Track
  PROVE  /\ LastClosed(tk) \in Seq(Input) /\ Len(LastClosed(tk)) = Len(tk.inputs)
         /\ \A i \in 1 .. Len(tk.inputs) :
              \/ LastClosed(tk)[i] = tk.inputs[i]
              \/ LastClosed(tk)[i] = [tk.inputs[i] EXCEPT !.closed = TRUE]
<1>1. CASE ~HasInput(tk)
  BY <1>1, TrackIs DEF LastClosed
<1>2. CASE HasInput(tk)
  <2> DEFINE n == Len(tk.inputs)
             in == [tk.inputs[n] EXCEPT !.closed = TRUE]
  <2>1. n \in 1 .. Len(tk.inputs)
    BY <1>2, TrackIs DEF HasInput
  <2>2. in \in Input
    BY <2>1, TrackIs, InputClosed
  <2>3. LastClosed(tk) = [tk.inputs EXCEPT ![n] = in]
    BY <1>2, <2>1 DEF LastClosed
  <2> HIDE DEF n, in
  <2>4. /\ LastClosed(tk) \in Seq(Input) /\ Len(LastClosed(tk)) = Len(tk.inputs)
        /\ \A i \in 1 .. Len(tk.inputs) : LastClosed(tk)[i] = IF i = n THEN in ELSE tk.inputs[i]
    BY <2>1, <2>2, <2>3, TrackIs, ExceptSeq
  <2> QED
    BY <2>4 DEF in
<1> QED
  BY <1>1, <1>2

LEMMA WriteClosedIs ==
  ASSUME NEW tk \in Track
  PROVE  /\ TrackGoes(tk, WriteClosed(tk)) /\ TrackServes(tk, WriteClosed(tk))
         /\ WriteClosed(tk).made = tk.made /\ WriteClosed(tk).closeWrite
<1> DEFINE b == WriteClosed(tk)
<1>1. /\ b \in Track /\ b.inputs = LastClosed(tk) /\ b.first = tk.first /\ b.made = tk.made
      /\ b.closeErr = tk.closeErr /\ b.closeWrite = TRUE
  BY LastClosedIs DEF WriteClosed, Track
<1> HIDE DEF b
<1>2. TrackGoes(tk, b) /\ TrackServes(tk, b)
  BY <1>1, LastClosedIs, ClosedGoes
<1> QED
  BY <1>1, <1>2 DEF b

LEMMA FailedIs ==
  ASSUME NEW tk \in Track
  PROVE  /\ TrackGoes(tk, Failed(tk)) /\ TrackServes(tk, Failed(tk))
         /\ Failed(tk).made = tk.made /\ Failed(tk).closeErr
<1> DEFINE s == [i \in 1 .. Len(tk.inputs) |->
                   IF i >= tk.first THEN [tk.inputs[i] EXCEPT !.closed = TRUE] ELSE tk.inputs[i]]
           b == Failed(tk)
<1>1. b = [tk EXCEPT !.closeErr = TRUE, !.inputs = s]
  BY TrackIs DEF Failed
<1>2. /\ s \in [1 .. Len(tk.inputs) -> Input]
      /\ \A i \in 1 .. Len(tk.inputs) :
           s[i] = tk.inputs[i] \/ s[i] = [tk.inputs[i] EXCEPT !.closed = TRUE]
  BY TrackIs, InputClosed
<1> HIDE DEF s, b
<1>3. s \in Seq(Input) /\ Len(s) = Len(tk.inputs)
  BY <1>2, TrackIs, SeqDef
<1>4. /\ b \in Track /\ b.inputs = s /\ b.first = tk.first /\ b.made = tk.made
      /\ b.closeErr = TRUE /\ b.closeWrite = tk.closeWrite
  BY <1>1, <1>3 DEF Track
<1> QED
  BY <1>2, <1>3, <1>4, ClosedGoes DEF b

LEMMA CtrlClosedIs ==
  ASSUME NEW tk \in Track
  PROVE  TrackGoes(tk, CtrlClosed(tk)) /\ TrackServes(tk, CtrlClosed(tk))
<1>1. CASE ~tk.fade
  BY <1>1, FailedIs DEF CtrlClosed
<1>2. CASE tk.fade
  <2> DEFINE a == WriteClosed(tk)
             b == CtrlClosed(tk)
  <2>1. b = [a EXCEPT !.fading = TRUE]
    BY <1>2 DEF CtrlClosed
  <2> HIDE DEF b
  <2>2. TrackGoes(tk, a) /\ TrackServes(tk, a)
    BY WriteClosedIs
  <2> HIDE DEF a
  <2>3. a \in Track
    BY <2>2 DEF TrackGoes
  <2>4. /\ b \in Track /\ b.inputs = a.inputs /\ b.first = a.first /\ b.made = a.made
        /\ b.closeErr = a.closeErr /\ b.closeWrite = a.closeWrite
    BY <2>1, <2>3 DEF Track
  <2> QED
    BY <2>2, <2>4 DEF TrackGoes, TrackServes, b
<1> QED
  BY <1>1, <1>2

LEMMA FadeEndsIs ==
  ASSUME NEW tk \in Track
  PROVE  LET b == [Failed(tk) EXCEPT !.fading = FALSE]
         IN TrackGoes(tk, b) /\ TrackServes(tk, b)
<1> DEFINE a == Failed(tk)
           b == [a EXCEPT !.fading = FALSE]
<1>1. TrackGoes(tk, a) /\ TrackServes(tk, a)
  BY FailedIs
<1> HIDE DEF a
<1>2. /\ b \in Track /\ b.inputs = a.inputs /\ b.first = a.first /\ b.made = a.made
      /\ b.closeErr = a.closeErr /\ b.closeWrite = a.closeWrite
  BY <1>1 DEF Track, TrackGoes
<1> HIDE DEF b
<1>3. TrackGoes(tk, b) /\ TrackServes(tk, b)
  BY <1>1, <1>2 DEF TrackGoes, TrackServes
<1> QED
  BY <1>3 DEF a, b

LEMMA FadeSetIs ==
  ASSUME NEW tk \in Track, NEW on \in BOOLEAN
  PROVE  LET b == [tk EXCEPT !.fade = on]
         IN TrackGoes(tk, b) /\ TrackServes(tk, b)
<1> DEFINE b == [tk EXCEPT !.fade = on]
<1>1. /\ b \in Track /\ b.inputs = tk.inputs /\ b.first = tk.first /\ b.made = tk.made
      /\ b.closeErr = tk.closeErr /\ b.closeWrite = tk.closeWrite
  BY DEF Track
<1> HIDE DEF b
<1>2. TrackGoes(tk, b) /\ TrackServes(tk, b)
  BY <1>1, ClosedGoes
<1> QED
  BY <1>2 DEF b

(* One input is replaced by what it became. *)
LEMMA InputReplaced ==
  ASSUME NEW tk \in Track, NEW i \in 1 .. Len(tk.inputs), NEW in \in Input,
         InputGoes(tk.inputs[i], in)
  PROVE  LET b == [tk EXCEPT !.inputs[i] = in]
         IN /\ TrackGoes(tk, b)
            /\ (Serves(tk.inputs[i]) => Serves(in)) => TrackServes(tk, b)
            /\ Len(b.inputs) = Len(tk.inputs)
            /\ \A j \in 1 .. Len(tk.inputs) : b.inputs[j] = IF j = i THEN in ELSE tk.inputs[j]
            /\ b.made = tk.made /\ b.closeErr = tk.closeErr /\ b.closeWrite = tk.closeWrite
            /\ b.first = tk.first
<1> DEFINE s == [tk.inputs EXCEPT ![i] = in]
           b == [tk EXCEPT !.inputs[i] = in]
<1>1. /\ s \in Seq(Input) /\ Len(s) = Len(tk.inputs)
      /\ \A j \in 1 .. Len(tk.inputs) : s[j] = IF j = i THEN in ELSE tk.inputs[j]
  BY TrackIs, ExceptSeq
<1>2. b = [tk EXCEPT !.inputs = s]
  BY DEF Track
<1> HIDE DEF s, b
<1>3. /\ b \in Track /\ b.inputs = s /\ b.first = tk.first /\ b.made = tk.made
      /\ b.closeErr = tk.closeErr /\ b.closeWrite = tk.closeWrite
  BY <1>1, <1>2 DEF Track
<1>4. \A j \in 1 .. Len(tk.inputs) : InputGoes(tk.inputs[j], s[j])
  BY <1>1, TrackIs DEF InputGoes
<1>5. TrackGoes(tk, b)
  BY <1>1, <1>3, <1>4, TrackIs DEF TrackGoes
<1>6. (Serves(tk.inputs[i]) => Serves(in)) => TrackServes(tk, b)
  BY <1>1, <1>3 DEF TrackServes
<1> QED
  BY <1>1, <1>3, <1>5, <1>6 DEF b

-----------------------------------------------------------------------------
(* The invariant *)

(* The head input is resampled: an error of reading it takes the track out of the list *)
ResampledHead(tk) == HasInput(tk) /\ tk.inputs[tk.first].fmt # OutFormat

(* A round's reader stands at a track of the list; what it found there still holds. *)
Placed(q) ==
  LET tk == track[order[q.pos]]
  IN /\ q.at \in {"pull", "drop", "remove"} => q.pos <= Len(order)
     /\ q.at \in {"pull", "drop"} => HasInput(tk)
     /\ q.at = "drop" /\ tk.inputs[tk.first].fmt = OutFormat =>
          tk.inputs[tk.first].closed /\ tk.inputs[tk.first].stored = 0
     /\ q.at = "remove" => tk.closeErr \/ (tk.closeWrite /\ ~HasInput(tk)) \/ ResampledHead(tk)

OneRound == \A r, v \in MixReaders : reader[r].at \in InRound /\ reader[v].at \in InRound => r = v

(* A Write under way holds an input of its track. *)
WritersPlaced ==
  \A w \in TrackWriters : writer[w].at # "idle" =>
    writer[w].input <= Len(track[writer[w].track].inputs)

MixInv ==
  /\ MixerTypeOK
  /\ \A t \in Tracks : TrackShape(track[t])
  /\ \A r \in MixReaders : Placed(reader[r])
  /\ OneRound
  /\ WritersPlaced
  /\ SleepersServed

(* The invariant without the types *)
Kept ==
  /\ \A t \in Tracks : TrackShape(track[t])
  /\ \A r \in MixReaders : Placed(reader[r])
  /\ OneRound
  /\ WritersPlaced
  /\ SleepersServed

(* What a track did between two states *)
TracksGo ==
  /\ track' \in [Tracks -> Track]
  /\ \A t \in Tracks : TrackGoes(track[t], track'[t])

TracksServe == \A t \in Tracks : TrackServes(track[t], track'[t])

LEMMA PlacedKept ==
  ASSUME MixInv, TracksGo, order' = order, NEW r \in MixReaders, reader'[r] = reader[r]
  PROVE  Placed(reader[r])'
<1> DEFINE q == reader[r]
           t == order[q.pos]
           a == track[t]
           b == track'[t]
<1>1. Placed(q) /\ q \in Reader /\ q.pos \in Nat /\ q.pos > 0 /\ order \in Seq(Tracks)
  BY DEF MixInv, MixerTypeOK, Reader
<1>2. CASE q.at \notin {"pull", "drop", "remove"}
  BY <1>2 DEF Placed
<1>3. CASE q.at \in {"pull", "drop", "remove"}
  <2>1. t \in Tracks /\ q.pos <= Len(order)
    BY <1>1, <1>3 DEF Placed
  <2>2. a \in Track /\ b \in Track /\ TrackGoes(a, b)
    BY <2>1 DEF TracksGo, MixInv, MixerTypeOK
  <2>3. /\ q.at \in {"pull", "drop"} => HasInput(a)
        /\ q.at = "drop" /\ a.inputs[a.first].fmt = OutFormat =>
             a.inputs[a.first].closed /\ a.inputs[a.first].stored = 0
        /\ q.at = "remove" => a.closeErr \/ (a.closeWrite /\ ~HasInput(a)) \/ ResampledHead(a)
    BY <1>1 DEF Placed
  <2> HIDE DEF a, b
  <2>4. q.at \in {"pull", "drop"} => HasInput(b)
    BY <2>2, <2>3, TrackIs DEF TrackGoes, HasInput
  <2>5. ASSUME q.at = "drop", b.inputs[b.first].fmt = OutFormat
        PROVE  b.inputs[b.first].closed /\ b.inputs[b.first].stored = 0
    <3>1. a.first \in 1 .. Len(a.inputs) /\ b.first = a.first /\ a.first \in 1 .. Len(b.inputs)
      BY <2>2, <2>3, <2>5, TrackIs DEF TrackGoes, HasInput
    <3>2. InputGoes(a.inputs[a.first], b.inputs[a.first]) /\ b.inputs[a.first].stored \in Nat
      BY <2>2, <3>1, TrackIs DEF TrackGoes
    <3> QED
      BY <2>3, <2>5, <3>1, <3>2 DEF InputGoes
  <2>6. ResampledHead(a) => ResampledHead(b)
    BY <2>2, TrackIs DEF ResampledHead, TrackGoes, InputGoes, HasInput
  <2>7. q.at = "remove" => b.closeErr \/ (b.closeWrite /\ ~HasInput(b)) \/ ResampledHead(b)
    BY <2>2, <2>3, <2>6, TrackIs DEF TrackGoes, HasInput
  <2> QED
    BY <2>1, <2>4, <2>5, <2>7 DEF Placed, a, b
<1> QED
  BY <1>2, <1>3

LEMMA ShapesKept ==
  ASSUME MixInv, TracksGo
  PROVE  \A t \in Tracks : TrackShape(track[t])'
<1> SUFFICES ASSUME NEW t \in Tracks PROVE TrackShape(track'[t])
  BY DEF TrackShape
<1>1. track[t] \in Track /\ TrackShape(track[t]) /\ TrackGoes(track[t], track'[t])
  BY DEF MixInv, MixerTypeOK, TracksGo
<1> QED
  BY <1>1, ShapeKept

(* A Write that was under way before keeps its input; one that is asleep is served. *)
LEMMA WriterIs ==
  ASSUME MixInv, NEW w \in TrackWriters, writer[w].at # "idle"
  PROVE  /\ writer[w].at \in {"write", "wait"} /\ writer[w].track \in Tracks
         /\ writer[w].left \in 1 .. MaxChunk /\ track[writer[w].track] \in Track
         /\ writer[w].input \in 1 .. Len(track[writer[w].track].inputs)
<1>1. writer[w] \in Writer /\ writer[w] \in [at : {"write", "wait"}, track : Tracks, input : Nat \ {0}, left : 1 .. MaxChunk]
  BY DEF MixInv, MixerTypeOK, Writer
<1>2. /\ writer[w].at \in {"write", "wait"} /\ writer[w].track \in Tracks
      /\ writer[w].left \in 1 .. MaxChunk /\ writer[w].input \in Nat \ {0}
  BY <1>1
<1>3. track[writer[w].track] \in Track
  BY <1>2 DEF MixInv, MixerTypeOK
<1>4. writer[w].input <= Len(track[writer[w].track].inputs)
  BY DEF MixInv, WritersPlaced
<1> QED
  BY <1>2, <1>3, <1>4, TrackIs

LEMMA WritersStay ==
  ASSUME MixInv, track' \in [Tracks -> Track], writer' = writer,
         \A t \in Tracks : Len(track[t].inputs) <= Len(track'[t].inputs)
  PROVE  WritersPlaced' /\ (TracksServe => SleepersServed')
<1>1. ASSUME NEW w \in TrackWriters, writer'[w].at # "idle"
      PROVE  writer'[w].input <= Len(track'[writer'[w].track].inputs)
  <2>1. /\ writer[w].track \in Tracks /\ track[writer[w].track] \in Track
        /\ writer[w].input \in 1 .. Len(track[writer[w].track].inputs)
    BY <1>1, WriterIs
  <2>2. /\ track'[writer[w].track] \in Track
        /\ Len(track[writer[w].track].inputs) <= Len(track'[writer[w].track].inputs)
    BY <2>1
  <2> QED
    BY <2>1, <2>2, TrackIs
<1>2. ASSUME TracksServe, NEW w \in TrackWriters, writer'[w].at = "wait"
      PROVE  LET in == track'[writer'[w].track].inputs[writer'[w].input]
             IN \/ in.closed \/ in.notify \/ in.stored > 0
                \/ \E v \in TrackWriters : /\ writer'[v].at = "write"
                                           /\ writer'[v].track = writer'[w].track
                                           /\ writer'[v].input = writer'[w].input
  <2>1. /\ writer[w].track \in Tracks
        /\ writer[w].input \in 1 .. Len(track[writer[w].track].inputs)
    BY <1>2, WriterIs
  <2>2. TrackServes(track[writer[w].track], track'[writer[w].track])
    BY <1>2, <2>1 DEF TracksServe
  <2>3. \/ Serves(track[writer[w].track].inputs[writer[w].input])
        \/ \E v \in TrackWriters : /\ writer[v].at = "write"
                                   /\ writer[v].track = writer[w].track
                                   /\ writer[v].input = writer[w].input
    BY <1>2 DEF MixInv, SleepersServed, Serves
  <2> QED
    BY <2>1, <2>2, <2>3 DEF TrackServes, Serves
<1> QED
  BY <1>1, <1>2 DEF WritersPlaced, SleepersServed

LEMMA WritersKept ==
  ASSUME MixInv, TracksGo, writer' = writer
  PROVE  WritersPlaced' /\ (TracksServe => SleepersServed')
BY WritersStay DEF TracksGo, TrackGoes

(* A step outside the reader *)
LEMMA CallKept ==
  ASSUME MixInv, TracksGo, TracksServe, UNCHANGED <<order, reader, writer>>
  PROVE  Kept'
<1>1. \A r \in MixReaders : Placed(reader[r])'
  BY PlacedKept
<1>2. OneRound'
  BY DEF MixInv, OneRound
<1> QED
  BY <1>1, <1>2, ShapesKept, WritersKept DEF Kept

(* A step of the reader whose round it is *)
LEMMA RoundKept ==
  ASSUME MixInv, TracksGo, TracksServe, NEW r \in MixReaders, reader[r].at \in InRound,
         NEW q \in Reader, reader' = [reader EXCEPT ![r] = q], Placed(q)',
         UNCHANGED writer
  PROVE  Kept'
<1>1. \A v \in MixReaders \ {r} : reader'[v] = reader[v] /\ reader[v].at \notin InRound
  BY DEF MixInv, OneRound, MixerTypeOK
<1>2. reader'[r] = q
  BY DEF MixInv, MixerTypeOK
<1>3. \A v \in MixReaders : Placed(reader[v])'
  BY <1>1, <1>2 DEF Placed, InRound
<1>4. OneRound'
  BY <1>1 DEF OneRound
<1> QED
  BY <1>3, <1>4, ShapesKept, WritersKept DEF Kept

(* A step of a reader that is neither at a track before it nor after it *)
LEMMA OutsideKept ==
  ASSUME MixInv, NEW r \in MixReaders, NEW q \in Reader, reader' = [reader EXCEPT ![r] = q],
         q.at \notin {"pull", "drop", "remove"},
         q.at \in InRound => ~MixerHeld \/ reader[r].at \in InRound,
         UNCHANGED <<order, track, writer>>
  PROVE  Kept'
<1>1. reader'[r] = q /\ \A v \in MixReaders \ {r} : reader'[v] = reader[v]
  BY DEF MixInv, MixerTypeOK
<1>2. TracksGo /\ TracksServe
  BY TrackSame DEF MixInv, MixerTypeOK, TracksGo, TracksServe
<1>3. ASSUME NEW v \in MixReaders PROVE Placed(reader[v])'
  <2>1. CASE v = r
    BY <1>1, <2>1 DEF Placed
  <2>2. CASE v # r
    BY <1>1, <1>2, <2>2, PlacedKept
  <2> QED
    BY <2>1, <2>2
<1>4. OneRound'
  BY <1>1 DEF MixInv, OneRound, MixerHeld
<1> QED
  BY <1>2, <1>3, <1>4, ShapesKept, WritersKept DEF Kept

LEMMA OneTrack ==
  ASSUME MixInv, NEW t \in Tracks, NEW b, TrackGoes(track[t], b), track' = [track EXCEPT ![t] = b]
  PROVE  TracksGo /\ (TrackServes(track[t], b) => TracksServe)
<1>1. track \in [Tracks -> Track] /\ b \in Track
  BY DEF MixInv, MixerTypeOK, TrackGoes
<1>2. track' \in [Tracks -> Track] /\ track'[t] = b /\ \A u \in Tracks \ {t} : track'[u] = track[u]
  BY <1>1
<1> QED
  BY <1>1, <1>2, TrackSame DEF TracksGo, TracksServe

-----------------------------------------------------------------------------
(* The calls *)

LEMMA TrackCallStep ==
  ASSUME MixInv, NEW t \in Tracks,
         \/ TrackCloseWrite(t) \/ TrackClose(t) \/ FadeEnds(t)
         \/ \E on \in BOOLEAN : SetFadeOutDuration(t, on)
  PROVE  MixInv'
<1>1. track \in [Tracks -> Track] /\ track[t] \in Track /\ dataNotify \in BOOLEAN
  BY DEF MixInv, MixerTypeOK
<1>2. PICK b : /\ TrackGoes(track[t], b) /\ TrackServes(track[t], b)
               /\ track' = [track EXCEPT ![t] = b]
  <2>1. CASE TrackCloseWrite(t)
    BY <1>1, <2>1, WriteClosedIs DEF TrackCloseWrite
  <2>2. CASE TrackClose(t)
    BY <1>1, <2>2, CtrlClosedIs DEF TrackClose
  <2>3. CASE FadeEnds(t)
    BY <1>1, <2>3, FadeEndsIs DEF FadeEnds
  <2>4. ASSUME NEW on \in BOOLEAN, SetFadeOutDuration(t, on)
        PROVE  \E b : /\ TrackGoes(track[t], b) /\ TrackServes(track[t], b)
                       /\ track' = [track EXCEPT ![t] = b]
    BY <1>1, <2>4, FadeSetIs DEF SetFadeOutDuration
  <2> QED
    BY <2>1, <2>2, <2>3, <2>4
<1>3. /\ UNCHANGED <<mixer, order, trackNotify, quiet, reader, writer, writes, reported>>
      /\ dataNotify' \in BOOLEAN
  BY <1>1 DEF TrackCloseWrite, TrackClose, FadeEnds, SetFadeOutDuration
<1>4. TracksGo /\ TracksServe
  BY <1>2, OneTrack
<1>5. MixerTypeOK'
  BY <1>3, <1>4 DEF MixInv, MixerTypeOK, TracksGo
<1>6. Kept'
  BY <1>3, <1>4, CallKept
<1> QED
  BY <1>5, <1>6 DEF MixInv, Kept

LEMMA NewInputFailsStep ==
  ASSUME MixInv, NEW t \in Tracks, NEW w \in TrackWriters, NEW f \in Formats,
         NewInputFails(w, t, f)
  PROVE  MixInv'
<1> DEFINE b == [track[t] EXCEPT !.inputs = LastClosed(track[t])]
<1>1. track \in [Tracks -> Track] /\ track[t] \in Track
  BY DEF MixInv, MixerTypeOK
<1>2. track' = [track EXCEPT ![t] = b]
  BY DEF NewInputFails
<1>3. /\ b \in Track /\ b.inputs = LastClosed(track[t]) /\ b.first = track[t].first
      /\ b.made = track[t].made /\ b.closeErr = track[t].closeErr
      /\ b.closeWrite = track[t].closeWrite
  BY <1>1, LastClosedIs DEF Track
<1> HIDE DEF b
<1>9. /\ Len(b.inputs) = Len(track[t].inputs)
      /\ \A i \in 1 .. Len(track[t].inputs) :
           \/ b.inputs[i] = track[t].inputs[i]
           \/ b.inputs[i] = [track[t].inputs[i] EXCEPT !.closed = TRUE]
  BY <1>1, <1>3, LastClosedIs, Zenon
<1>4. TrackGoes(track[t], b) /\ TrackServes(track[t], b)
  BY <1>1, <1>3, <1>9, ClosedGoes
<1>5. TracksGo /\ TracksServe
  BY <1>2, <1>4, OneTrack
<1>6. /\ UNCHANGED <<mixer, order, trackNotify, dataNotify, quiet, reader, writer, reported>>
      /\ writes' \in 0 .. MaxWrites
  BY MixerAssumption DEF NewInputFails, MixInv, MixerTypeOK
<1>7. MixerTypeOK'
  BY <1>5, <1>6 DEF MixInv, MixerTypeOK, TracksGo
<1>8. Kept'
  BY <1>5, <1>6, CallKept
<1> QED
  BY <1>7, <1>8 DEF MixInv, Kept

LEMMA MixerCloseStep ==
  ASSUME MixInv, MixerCloseWrite \/ MixerCloseWithError
  PROVE  MixInv'
<1>1. track \in [Tracks -> Track] /\ dataNotify \in BOOLEAN
      /\ mixer \in [closeErr : BOOLEAN, closeWrite : BOOLEAN]
  BY DEF MixInv, MixerTypeOK
<1>2. ASSUME NEW t \in Tracks
      PROVE  TrackGoes(track[t], track'[t]) /\ TrackServes(track[t], track'[t])
  <2>1. track'[t] \in {track[t], WriteClosed(track[t]), CtrlClosed(track[t])}
    BY <1>1 DEF MixerCloseWrite, MixerCloseWithError
  <2> QED
    BY <1>1, <2>1, TrackSame, WriteClosedIs, CtrlClosedIs
<1>3. track' \in [Tracks -> Track]
  <2>1. \A t \in Tracks : track'[t] \in Track
    BY <1>2 DEF TrackGoes
  <2>2. track' = [t \in Tracks |-> track'[t]]
    BY DEF MixerCloseWrite, MixerCloseWithError
  <2> QED
    BY <2>1, <2>2
<1>4. TracksGo /\ TracksServe
  BY <1>2, <1>3 DEF TracksGo, TracksServe
<1>5. /\ UNCHANGED <<order, trackNotify, quiet, reader, writer, writes, reported>>
      /\ dataNotify' \in BOOLEAN
      /\ mixer' \in [closeErr : BOOLEAN, closeWrite : BOOLEAN]
  <2>1. CASE MixerCloseWrite
    BY <1>1, <2>1 DEF MixerCloseWrite
  <2>2. CASE MixerCloseWithError
    <3>1. dataNotify' \in BOOLEAN
      BY <1>1, <2>2, Zenon DEF MixerCloseWithError
    <3> QED
      BY <2>2, <3>1 DEF MixerCloseWithError
  <2> QED
    BY <2>1, <2>2
<1>6. MixerTypeOK'
  BY <1>3, <1>5 DEF MixInv, MixerTypeOK
<1>7. Kept'
  BY <1>4, <1>5, CallKept
<1> QED
  BY <1>6, <1>7 DEF MixInv, Kept

LEMMA NewInputIs ==
  ASSUME NEW f \in Formats
  PROVE  NewInput(f) \in Input /\ NewInput(f).stored = 0
BY MixerAssumption DEF NewInput, Input

LEMMA CreateStep ==
  ASSUME MixInv, NEW t \in Tracks, CreateTrack(t)
  PROVE  MixInv'
<1> DEFINE s == <<NewInput(FirstFormat)>>
           b == [track[t] EXCEPT !.made = TRUE, !.inputs = s]
<1>1. /\ track \in [Tracks -> Track] /\ track[t] \in Track /\ TrackShape(track[t])
      /\ ~track[t].made /\ order \in Seq(Tracks)
  BY DEF MixInv, MixerTypeOK, CreateTrack
<1>2. track[t].inputs = <<>> /\ track[t].first = 1
  BY <1>1, TrackIs DEF TrackShape
<1>3. s \in Seq(Input) /\ Len(s) = 1
  BY NewInputIs, MixerAssumption
<1>4. track' = [track EXCEPT ![t] = b]
  BY <1>1 DEF CreateTrack
<1> HIDE DEF s
<1>5. /\ b \in Track /\ b.inputs = s /\ b.first = 1 /\ b.made = TRUE
      /\ b.closeErr = track[t].closeErr /\ b.closeWrite = track[t].closeWrite
  BY <1>1, <1>2, <1>3 DEF Track
<1> HIDE DEF b
<1>6. /\ track' \in [Tracks -> Track] /\ track'[t] = b
      /\ \A u \in Tracks \ {t} : track'[u] = track[u]
  BY <1>1, <1>4, <1>5
<1>7. /\ UNCHANGED <<mixer, quiet, reader, writer, writes, reported, dataNotify>>
      /\ order' = <<t>> \o order /\ trackNotify' = TRUE
      /\ \A r \in MixReaders : reader[r].at \notin InRound
  BY DEF CreateTrack, MixerHeld
<1>8. MixerTypeOK'
  <2>1. order' \in Seq(Tracks)
    BY <1>1, <1>7
  <2> QED
    BY <1>6, <1>7, <2>1 DEF MixInv, MixerTypeOK
<1>9. \A u \in Tracks : TrackShape(track'[u])
  <2>1. TrackShape(b)
    BY <1>3, <1>5 DEF TrackShape
  <2> QED
    BY <1>6, <2>1 DEF MixInv
<1>10. \A r \in MixReaders : Placed(reader[r])'
  BY <1>7 DEF Placed, InRound
<1>11. OneRound'
  BY <1>7 DEF MixInv, OneRound
<1>12. ASSUME NEW w \in TrackWriters, writer[w].at # "idle"
       PROVE  track'[writer[w].track] = track[writer[w].track]
  <2>1. writer[w].track # t
    BY <1>2, <1>12, WriterIs
  <2> QED
    BY <1>6, <1>12, <2>1, WriterIs
<1>13. WritersPlaced' /\ SleepersServed'
  BY <1>7, <1>12 DEF MixInv, WritersPlaced, SleepersServed
<1> QED
  BY <1>8, <1>9, <1>10, <1>11, <1>13 DEF MixInv, TrackShape

-----------------------------------------------------------------------------
(* Writes *)

(* A writer moves: it takes up an input, goes on with it or is done. *)
LEMMA WriterMoves ==
  ASSUME MixInv, TracksGo, NEW w \in TrackWriters, NEW c \in Writer,
         writer' = [writer EXCEPT ![w] = c],
         c.at # "idle" => c.input <= Len(track'[c.track].inputs),
         UNCHANGED <<order, reader>>, SleepersServed'
  PROVE  Kept'
<1>1. /\ writer'[w] = c /\ \A v \in TrackWriters \ {w} : writer'[v] = writer[v]
  BY DEF MixInv, MixerTypeOK
<1>2. ASSUME NEW v \in TrackWriters, writer'[v].at # "idle"
      PROVE  writer'[v].input <= Len(track'[writer'[v].track].inputs)
  <2>1. CASE v = w
    BY <1>1, <1>2, <2>1
  <2>2. CASE v # w
    <3>1. /\ writer'[v] = writer[v] /\ writer[v].track \in Tracks
          /\ track[writer[v].track] \in Track
          /\ writer[v].input \in 1 .. Len(track[writer[v].track].inputs)
      BY <1>1, <1>2, <2>2, WriterIs
    <3> DEFINE a == track[writer[v].track]
               b == track'[writer[v].track]
    <3>2. Len(a.inputs) <= Len(b.inputs) /\ b \in Track
      BY <3>1 DEF TracksGo, TrackGoes
    <3>3. a \in Track /\ writer[v].input \in 1 .. Len(a.inputs)
      BY <3>1
    <3> HIDE DEF a, b
    <3>4. writer[v].input <= Len(b.inputs)
      BY <3>2, <3>3, TrackIs
    <3> QED
      BY <3>1, <3>4 DEF b
  <2> QED
    BY <2>1, <2>2
<1>3. \A r \in MixReaders : Placed(reader[r])'
  BY PlacedKept
<1>4. OneRound'
  BY DEF MixInv, OneRound
<1> QED
  BY <1>2, <1>3, <1>4, ShapesKept DEF Kept, WritersPlaced

(* The sleepers of a state in which v is awake, or done with an input that serves *)
Watched(w) ==
  \/ Serves(track[writer[w].track].inputs[writer[w].input])
  \/ \E v \in TrackWriters : /\ writer[v].at = "write"
                             /\ writer[v].track = writer[w].track
                             /\ writer[v].input = writer[w].input

LEMMA SleepersWatched ==
  SleepersServed <=> \A w \in TrackWriters : writer[w].at = "wait" => Watched(w)
BY DEF SleepersServed, Watched, Serves

LEMMA WriteBeginStep ==
  ASSUME MixInv, NEW t \in Tracks, NEW w \in TrackWriters, NEW f \in Formats, NEW n \in 1 .. MaxChunk,
         WriteBegin(w, t, f, n)
  PROVE  MixInv'
<1> DEFINE tk == track[t]
           last == Len(tk.inputs)
           fits == HasInput(tk) /\ tk.inputs[last].fmt = f
           s == IF fits THEN tk.inputs ELSE Append(LastClosed(tk), NewInput(f))
           b == [tk EXCEPT !.inputs = s]
           c == [at |-> "write", track |-> t, input |-> IF fits THEN last ELSE last + 1, left |-> n]
<1>1. /\ track \in [Tracks -> Track] /\ tk \in Track /\ tk.made /\ ~tk.closeErr /\ ~tk.closeWrite
      /\ writer \in [TrackWriters -> Writer] /\ writer[w].at = "idle"
  BY DEF MixInv, MixerTypeOK, WriteBegin
<1>2. track' = [track EXCEPT ![t] = b] /\ writer' = [writer EXCEPT ![w] = c]
  BY <1>1 DEF WriteBegin
<1>3. /\ s \in Seq(Input) /\ Len(s) = IF fits THEN last ELSE last + 1
      /\ \A i \in 1 .. last : s[i] = tk.inputs[i] \/ s[i] = [tk.inputs[i] EXCEPT !.closed = TRUE]
  <2>1. CASE fits
    BY <1>1, <2>1, TrackIs
  <2>2. CASE ~fits
    <3>1. LastClosed(tk) \in Seq(Input) /\ Len(LastClosed(tk)) = last /\ NewInput(f) \in Input
      BY <1>1, LastClosedIs, NewInputIs
    <3>2. s = Append(LastClosed(tk), NewInput(f))
      BY <2>2
    <3> HIDE DEF s, last
    <3>3. /\ s \in Seq(Input) /\ Len(s) = last + 1
          /\ \A i \in 1 .. last : s[i] = LastClosed(tk)[i]
      BY <3>1, <3>2, AppendProperties
    <3> QED
      BY <1>1, <2>2, <3>3, LastClosedIs DEF last
  <2> QED
    BY <2>1, <2>2
<1>4. c \in Writer /\ c.input <= Len(s) /\ c.at = "write" /\ c.track = t
  <2>1. c.input \in Nat \ {0}
    BY <1>1, TrackIs DEF HasInput
  <2> QED
    BY <1>3, <2>1, <1>1, TrackIs DEF Writer
<1> HIDE DEF s, c
<1>5. /\ b \in Track /\ b.inputs = s /\ b.first = tk.first /\ b.made = tk.made
      /\ b.closeErr = tk.closeErr /\ b.closeWrite = tk.closeWrite
  BY <1>1, <1>3 DEF Track
<1> HIDE DEF b
<1>6. \A i \in 1 .. last : InputGoes(tk.inputs[i], s[i]) /\ (Serves(tk.inputs[i]) => Serves(s[i]))
  <2> SUFFICES ASSUME NEW i \in 1 .. last
               PROVE  InputGoes(tk.inputs[i], s[i]) /\ (Serves(tk.inputs[i]) => Serves(s[i]))
    OBVIOUS
  <2>1. CASE s[i] = tk.inputs[i]
    BY <1>1, <2>1, TrackIs DEF InputGoes
  <2>2. CASE s[i] = [tk.inputs[i] EXCEPT !.closed = TRUE]
    BY <1>1, <2>2, TrackIs, InputClosed
  <2> QED
    BY <1>3, <2>1, <2>2
<1>7. TrackGoes(tk, b) /\ TrackServes(tk, b)
  BY <1>1, <1>3, <1>5, <1>6, TrackIs DEF TrackGoes, TrackServes
<1>8. TracksGo /\ TracksServe
  BY <1>2, <1>7, OneTrack
<1>9. UNCHANGED <<mixer, order, trackNotify, dataNotify, quiet, reader, reported>>
      /\ writes' = writes + 1 /\ writes < MaxWrites
  BY DEF WriteBegin
<1>10. MixerTypeOK'
  <2>1. writes' \in 0 .. MaxWrites
    BY <1>9, MixerAssumption DEF MixInv, MixerTypeOK
  <2>2. writer' \in [TrackWriters -> Writer]
    BY <1>1, <1>2, <1>4
  <2> QED
    BY <1>8, <1>9, <2>1, <2>2 DEF MixInv, MixerTypeOK, TracksGo
<1>11. SleepersServed'
  <2> SUFFICES ASSUME NEW v \in TrackWriters, writer'[v].at = "wait" PROVE Watched(v)'
    BY DEF SleepersServed, Watched, Serves
  <2>1. v # w /\ writer'[v] = writer[v] /\ writer[v].at = "wait"
    BY <1>1, <1>2, <1>4
  <2>2. Watched(v) /\ writer[v].track \in Tracks
        /\ writer[v].input \in 1 .. Len(track[writer[v].track].inputs)
    BY <2>1, SleepersWatched, WriterIs DEF MixInv
  <2>3. CASE Serves(track[writer[v].track].inputs[writer[v].input])
    BY <1>8, <2>1, <2>2, <2>3 DEF TracksServe, TrackServes, Watched
  <2>4. ASSUME NEW u \in TrackWriters, writer[u].at = "write",
               writer[u].track = writer[v].track, writer[u].input = writer[v].input
        PROVE  Watched(v)'
    <3>1. writer'[u] = writer[u]
      BY <1>1, <1>2, <2>4
    <3> QED
      BY <2>1, <2>4, <3>1 DEF Watched
  <2> QED
    BY <2>2, <2>3, <2>4 DEF Watched
<1>12. c.input <= Len(track'[c.track].inputs)
  BY <1>1, <1>2, <1>4, <1>5
<1>13. Kept'
  BY <1>2, <1>4, <1>8, <1>9, <1>11, <1>12, WriterMoves
<1> QED
  BY <1>10, <1>13 DEF MixInv, Kept

(* A Write leaves its input in a state that serves, or is awake at it. *)
LEMMA SleepersMove ==
  ASSUME MixInv, NEW w \in TrackWriters, writer[w].at # "idle",
         NEW d, writer' = [writer EXCEPT ![w] = d],
         d.at # "idle" => d.track = writer[w].track /\ d.input = writer[w].input,
         \A t \in Tracks : \A i \in 1 .. Len(track[t].inputs) :
           t # writer[w].track \/ i # writer[w].input =>
             (Serves(track[t].inputs[i]) => Serves(track'[t].inputs[i])),
         Serves(track'[writer[w].track].inputs[writer[w].input]) \/ d.at = "write"
  PROVE  SleepersServed'
<1>1. writer'[w] = d /\ \A v \in TrackWriters \ {w} : writer'[v] = writer[v]
  BY DEF MixInv, MixerTypeOK
<1> SUFFICES ASSUME NEW v \in TrackWriters, writer'[v].at = "wait" PROVE Watched(v)'
  BY DEF SleepersServed, Watched, Serves
<1>2. CASE v = w
  BY <1>1, <1>2 DEF Watched
<1>3. CASE v # w
  <2>1. /\ writer'[v] = writer[v] /\ Watched(v) /\ writer[v].track \in Tracks
        /\ writer[v].input \in 1 .. Len(track[writer[v].track].inputs)
    BY <1>1, <1>3, WriterIs, SleepersWatched DEF MixInv
  <2>2. CASE writer[v].track = writer[w].track /\ writer[v].input = writer[w].input
    BY <1>1, <2>1, <2>2 DEF Watched
  <2>3. CASE ~(writer[v].track = writer[w].track /\ writer[v].input = writer[w].input)
    <3>1. CASE Serves(track[writer[v].track].inputs[writer[v].input])
      BY <2>1, <2>3, <3>1 DEF Watched
    <3>2. ASSUME NEW u \in TrackWriters, writer[u].at = "write",
                 writer[u].track = writer[v].track, writer[u].input = writer[v].input
          PROVE  Watched(v)'
      <4>1. writer'[u] = writer[u]
        BY <1>1, <2>3, <3>2
      <4> QED
        BY <2>1, <3>2, <4>1 DEF Watched
    <3> QED
      BY <2>1, <3>1, <3>2 DEF Watched
  <2> QED
    BY <2>2, <2>3
<1> QED
  BY <1>2, <1>3

LEMMA WriteIs ==
  ASSUME MixInv, NEW w \in TrackWriters, writer[w].at # "idle"
  PROVE  LET c == writer[w]
             in == track[c.track].inputs[c.input]
         IN /\ c.at \in {"write", "wait"} /\ c.track \in Tracks /\ track[c.track] \in Track
            /\ in \in Input /\ c.input \in 1 .. Len(track[c.track].inputs) /\ c.left \in 1 .. MaxChunk
            /\ c.left \in Nat /\ MaxChunk \in Nat
            /\ \A a \in {"write", "wait"}, n \in 1 .. MaxChunk :
                 [c EXCEPT !.at = a, !.left = n] \in Writer
            /\ \A a \in {"write", "wait"} : [c EXCEPT !.at = a] \in Writer
            /\ \A n \in 1 .. MaxChunk : [c EXCEPT !.left = n] \in Writer
<1>1. writer[w] \in [at : {"write", "wait"}, track : Tracks, input : Nat \ {0}, left : 1 .. MaxChunk]
  BY DEF MixInv, MixerTypeOK, Writer
<1>2. /\ \A a \in {"write", "wait"}, n \in 1 .. MaxChunk :
           [writer[w] EXCEPT !.at = a, !.left = n] \in Writer
      /\ \A a \in {"write", "wait"} : [writer[w] EXCEPT !.at = a] \in Writer
      /\ \A n \in 1 .. MaxChunk : [writer[w] EXCEPT !.left = n] \in Writer
  BY <1>1 DEF Writer
<1>3. /\ writer[w].at \in {"write", "wait"} /\ writer[w].track \in Tracks
      /\ track[writer[w].track] \in Track /\ writer[w].left \in 1 .. MaxChunk
      /\ writer[w].input \in 1 .. Len(track[writer[w].track].inputs)
  BY WriterIs
<1>4. track[writer[w].track].inputs[writer[w].input] \in Input
  BY <1>3, TrackIs
<1>5. MaxChunk \in Nat /\ writer[w].left \in Nat
  BY <1>3, MixerAssumption
<1> QED
  BY <1>2, <1>3, <1>4, <1>5

(* A Write that does not touch its input, which is closed or full *)
LEMMA WriteStill ==
  ASSUME MixInv, NEW w \in TrackWriters, WriteFails(w) \/ WriteFull(w)
  PROVE  MixInv'
<1> DEFINE c == writer[w]
           in == track[c.track].inputs[c.input]
           d == IF in.closed THEN [at |-> "idle"] ELSE [c EXCEPT !.at = "wait"]
<1>1. /\ c.at # "idle" /\ writer' = [writer EXCEPT ![w] = d]
      /\ UNCHANGED <<mixer, order, trackNotify, dataNotify, quiet, track, reader, writes, reported>>
      /\ in.closed \/ in.stored = RingSize
  BY DEF WriteFails, WriteFull
<1>2. /\ c.track \in Tracks /\ track[c.track] \in Track /\ in \in Input
      /\ c.input \in 1 .. Len(track[c.track].inputs)
      /\ d \in Writer /\ Serves(in)
      /\ d.at # "idle" => d.track = c.track /\ d.input = c.input
  <2>1. c.track \in Tracks /\ in \in Input /\ [c EXCEPT !.at = "wait"] \in Writer
    BY <1>1, WriteIs
  <2>2. Serves(in)
    BY <1>1, <2>1, InputIs DEF Serves
  <2> QED
    BY <1>1, <2>1, <2>2, WriteIs DEF Writer
<1>3. TracksGo /\ SleepersServed'
  <2>1. TracksGo
    BY <1>1, TrackSame DEF TracksGo, MixInv, MixerTypeOK
  <2> HIDE DEF d
  <2> QED
    BY <1>1, <1>2, <2>1, SleepersMove
<1>4. d.at # "idle" => d.input <= Len(track'[d.track].inputs)
  <2>1. track' = track /\ c.input <= Len(track[c.track].inputs)
    BY <1>1, <1>2, TrackIs
  <2> HIDE DEF d
  <2> QED
    BY <1>2, <2>1
<1> HIDE DEF d
<1>5. Kept'
  BY <1>1, <1>2, <1>3, <1>4, WriterMoves
<1>6. MixerTypeOK'
  BY <1>1, <1>2 DEF MixInv, MixerTypeOK
<1> QED
  BY <1>5, <1>6 DEF MixInv, Kept

(* A Write that changes its input *)
LEMMA WriteTouches ==
  ASSUME MixInv, NEW w \in TrackWriters, writer[w].at # "idle",
         NEW in \in Input, InputGoes(track[writer[w].track].inputs[writer[w].input], in),
         track' = [track EXCEPT ![writer[w].track].inputs[writer[w].input] = in],
         NEW d \in Writer, writer' = [writer EXCEPT ![w] = d],
         d.at # "idle" => d.track = writer[w].track /\ d.input = writer[w].input,
         Serves(in) \/ d.at = "write",
         dataNotify' \in BOOLEAN,
         UNCHANGED <<mixer, order, trackNotify, quiet, reader, writes, reported>>
  PROVE  MixInv'
<1> DEFINE c == writer[w]
           t == c.track
           tk == track[t]
           b == [tk EXCEPT !.inputs[c.input] = in]
<1>1. t \in Tracks /\ tk \in Track /\ c.input \in 1 .. Len(tk.inputs)
  BY WriteIs
<1>2. track' = [track EXCEPT ![t] = b]
  OBVIOUS
<1>3. /\ TrackGoes(tk, b) /\ Len(b.inputs) = Len(tk.inputs)
      /\ \A j \in 1 .. Len(tk.inputs) : b.inputs[j] = IF j = c.input THEN in ELSE tk.inputs[j]
  BY <1>1, InputReplaced
<1> HIDE DEF b
<1>4. /\ track' \in [Tracks -> Track] /\ track'[t] = b /\ b.inputs[c.input] = in
      /\ \A u \in Tracks \ {t} : track'[u] = track[u]
  BY <1>1, <1>2, <1>3 DEF MixInv, MixerTypeOK, TrackGoes
<1>5. TracksGo
  BY <1>1, <1>2, <1>3, OneTrack
<1>6. SleepersServed'
  <2>1. ASSUME NEW u \in Tracks, NEW i \in 1 .. Len(track[u].inputs), u # t \/ i # c.input
        PROVE  track'[u].inputs[i] = track[u].inputs[i]
    BY <1>3, <1>4, <2>1
  <2>2. \A u \in Tracks : \A i \in 1 .. Len(track[u].inputs) :
          u # t \/ i # c.input => (Serves(track[u].inputs[i]) => Serves(track'[u].inputs[i]))
    BY <2>1
  <2>3. Serves(track'[t].inputs[c.input]) \/ d.at = "write"
    BY <1>4
  <2> QED
    BY <2>2, <2>3, SleepersMove
<1>7. d.at # "idle" => d.input <= Len(track'[d.track].inputs)
  BY <1>1, <1>3, <1>4, TrackIs
<1>8. Kept'
  BY <1>5, <1>6, <1>7, WriterMoves
<1>9. MixerTypeOK'
  BY <1>4 DEF MixInv, MixerTypeOK
<1> QED
  BY <1>8, <1>9 DEF MixInv, Kept

LEMMA WriteStoreStep ==
  ASSUME MixInv, NEW w \in TrackWriters, WriteStore(w)
  PROVE  MixInv'
<1> DEFINE c == writer[w]
           in == track[c.track].inputs[c.input]
           n == IF c.left <= Room(in) THEN c.left ELSE Room(in)
           b == [in EXCEPT !.stored = @ + n]
           d == IF n = c.left THEN [at |-> "idle"] ELSE [c EXCEPT !.left = @ - n]
<1>1. c.at = "write" /\ ~in.closed /\ in.stored < RingSize
  BY DEF WriteStore
<1>2. /\ c.track \in Tracks /\ in \in Input /\ c.left \in Nat /\ c.left > 0 /\ c.left <= MaxChunk
      /\ MaxChunk \in Nat /\ c.left \in 1 .. MaxChunk
  <2>1. c.at # "idle"
    BY <1>1
  <2>2. c.track \in Tracks /\ in \in Input /\ c.left \in 1 .. MaxChunk /\ MaxChunk \in Nat
    BY <2>1, WriteIs
  <2> QED
    BY <2>2
<1>3. /\ in.stored \in Nat /\ RingSize \in Nat /\ n \in Nat /\ n > 0
      /\ in.stored + n \in 0 .. RingSize /\ in.stored + n > 0
      /\ n <= c.left
  BY <1>1, <1>2, InputIs DEF Room
<1>4. /\ track' = [track EXCEPT ![c.track].inputs[c.input] = b]
      /\ writer' = [writer EXCEPT ![w] = d]
      /\ UNCHANGED <<mixer, order, trackNotify, quiet, reader, writes, reported>>
      /\ dataNotify' = TRUE
  BY DEF WriteStore
<1> HIDE DEF n
<1>5. b \in Input /\ InputGoes(in, b) /\ Serves(b)
  BY <1>1, <1>2, <1>3 DEF Input, InputGoes, Serves
<1>6. d \in Writer /\ (d.at # "idle" => d.track = c.track /\ d.input = c.input)
  <2>1. CASE n = c.left
    BY <2>1 DEF Writer
  <2>2. CASE n # c.left
    <3>1. c.left - n \in 1 .. MaxChunk
      BY <1>2, <1>3, <2>2
    <3>2. c \in [at : {"write", "wait"}, track : Tracks, input : Nat \ {0}, left : 1 .. MaxChunk]
      BY <1>1 DEF MixInv, MixerTypeOK, Writer
    <3> QED
      BY <2>2, <3>1, <3>2 DEF Writer
  <2> QED
    BY <2>1, <2>2
<1> HIDE DEF b, d
<1> QED
  BY <1>1, <1>4, <1>5, <1>6, WriteTouches

LEMMA WriteWakeStep ==
  ASSUME MixInv, NEW w \in TrackWriters, WriteWake(w)
  PROVE  MixInv'
<1> DEFINE c == writer[w]
           in == track[c.track].inputs[c.input]
           b == [in EXCEPT !.notify = FALSE]
           d == [c EXCEPT !.at = "write"]
<1>1. /\ c.at = "wait"
      /\ track' = [track EXCEPT ![c.track].inputs[c.input] = b]
      /\ writer' = [writer EXCEPT ![w] = d]
      /\ UNCHANGED <<mixer, order, trackNotify, dataNotify, quiet, reader, writes, reported>>
  BY DEF WriteWake
<1>2. in \in Input /\ d \in Writer /\ d.at = "write" /\ d.track = c.track /\ d.input = c.input
  <2>1. c \in [at : {"write", "wait"}, track : Tracks, input : Nat \ {0}, left : 1 .. MaxChunk]
    BY <1>1 DEF MixInv, MixerTypeOK, Writer
  <2> QED
    BY <1>1, <2>1, WriteIs
<1>3. b \in Input /\ InputGoes(in, b)
  <2> HIDE DEF in
  <2>1. b \in Input /\ b.fmt = in.fmt /\ b.closed = in.closed /\ b.stored = in.stored
    BY <1>2 DEF Input
  <2> QED
    BY <1>2, <2>1, InputIs DEF InputGoes
<1>4. dataNotify' \in BOOLEAN
  BY <1>1 DEF MixInv, MixerTypeOK
<1> HIDE DEF b, d
<1> QED
  BY <1>1, <1>2, <1>3, <1>4, WriteTouches

-----------------------------------------------------------------------------
(* Reads *)

LEMMA ReaderIs ==
  ASSUME MixInv, NEW r \in MixReaders
  PROVE  /\ reader[r] \in Reader /\ reader[r].pos \in Nat /\ reader[r].pos > 0
         /\ reader[r].want \in Nat /\ reader[r].want <= FrameLen
         /\ reader[r].got \in BOOLEAN /\ reader[r].again \in BOOLEAN /\ reader[r].read \in BOOLEAN
         /\ reader[r].at \in ReaderAt /\ reader[r].gone \in SUBSET Tracks
         /\ reader[r].out \in {"data", "silence", "none"} /\ FrameLen \in Nat
<1>1. reader[r] \in Reader /\ FrameLen \in Nat
  BY MixerAssumption DEF MixInv, MixerTypeOK
<1> QED
  BY <1>1 DEF Reader

LEMMA OutsideIs ==
  /\ OutsideRead \in Reader
  /\ \A a \in {"retry", "enter", "waitTrack", "waitWrite"} :
       [OutsideRead EXCEPT !.at = a] \in Reader /\ [OutsideRead EXCEPT !.at = a].at = a
  /\ \A out \in {"data", "silence", "none"} :
       Settled(out) \in Reader /\ Settled(out).at \in {"idle", "waitWrite"}
<1>1. 0 \in 0 .. FrameLen
  BY MixerAssumption
<1>2. OutsideRead \in Reader /\ OutsideRead.at = "idle"
  BY <1>1 DEF OutsideRead, Reader, ReaderAt, InRound
<1>3. ASSUME NEW a \in {"retry", "enter", "waitTrack", "waitWrite"}
      PROVE  [OutsideRead EXCEPT !.at = a] \in Reader /\ [OutsideRead EXCEPT !.at = a].at = a
  <2>1. a \in ReaderAt
    BY DEF ReaderAt, InRound
  <2> QED
    BY <1>2, <2>1 DEF Reader
<1>4. ASSUME NEW out \in {"data", "silence", "none"}
      PROVE  Settled(out) \in Reader /\ Settled(out).at \in {"idle", "waitWrite"}
  BY <1>2, <1>3 DEF Settled
<1> QED
  BY <1>2, <1>3, <1>4

LEMMA QuietIs ==
  ASSUME MixInv
  PROVE  /\ Quieter \in 0 .. SilenceGap
         /\ \A out \in {"data", "silence", "none"} : QuietAfter(out) \in 0 .. SilenceGap
<1>1. SilenceGap \in Nat /\ quiet \in 0 .. SilenceGap
  BY MixerAssumption DEF MixInv, MixerTypeOK
<1>2. Quieter \in 0 .. SilenceGap
  BY <1>1 DEF Quieter
<1> QED
  BY <1>1, <1>2 DEF QuietAfter

(* A Read that is at no track, before the step or after it *)
LEMMA OutsideStep ==
  ASSUME MixInv, NEW r \in MixReaders, NEW q \in Reader, reader' = [reader EXCEPT ![r] = q],
         q.at \notin {"pull", "drop", "remove"},
         q.at \in InRound => ~MixerHeld \/ reader[r].at \in InRound,
         UNCHANGED <<order, track, writer, writes>>,
         mixer' \in [closeErr : BOOLEAN, closeWrite : BOOLEAN],
         trackNotify' \in BOOLEAN, dataNotify' \in BOOLEAN,
         quiet' \in 0 .. SilenceGap, reported' \in [Tracks -> Nat]
  PROVE  MixInv'
<1>1. Kept'
  BY OutsideKept
<1>2. MixerTypeOK'
  BY DEF MixInv, MixerTypeOK
<1> QED
  BY <1>1, <1>2 DEF MixInv, Kept

LEMMA ReadCallStep ==
  ASSUME MixInv, NEW r \in MixReaders, ReadCall(r) \/ TrackWakes(r) \/ WriteWakes(r)
  PROVE  MixInv'
<1> DEFINE q == [OutsideRead EXCEPT !.at = "retry"]
<1>1. q \in Reader /\ q.at = "retry"
  BY OutsideIs
<1> HIDE DEF q
<1>2. /\ reader' = [reader EXCEPT ![r] = q]
      /\ UNCHANGED <<mixer, order, quiet, track, writer, writes, reported>>
  BY DEF ReadCall, TrackWakes, WriteWakes, q
<1>3. /\ trackNotify' = trackNotify \/ trackNotify' = FALSE
      /\ dataNotify' = dataNotify \/ dataNotify' = FALSE
  BY Zenon DEF ReadCall, TrackWakes, WriteWakes
<1>5. /\ mixer' \in [closeErr : BOOLEAN, closeWrite : BOOLEAN]
      /\ trackNotify' \in BOOLEAN /\ dataNotify' \in BOOLEAN
      /\ quiet' \in 0 .. SilenceGap /\ reported' \in [Tracks -> Nat]
  BY <1>2, <1>3 DEF MixInv, MixerTypeOK
<1>4. q.at \notin {"pull", "drop", "remove"} /\ q.at \notin InRound
  BY <1>1 DEF InRound
<1> QED
  BY <1>1, <1>2, <1>4, <1>5, OutsideStep

LEMMA HeadTrackStep ==
  ASSUME MixInv, NEW r \in MixReaders, HeadTrack(r)
  PROVE  MixInv'
<1>1. PICK q \in {OutsideRead, [OutsideRead EXCEPT !.at = "enter"], [OutsideRead EXCEPT !.at = "waitTrack"]} :
        reader' = [reader EXCEPT ![r] = q]
  BY DEF HeadTrack
<1>2. q \in Reader /\ q.at \notin {"pull", "drop", "remove"}
  <2>1. CASE q = OutsideRead
    BY <2>1, OutsideIs DEF OutsideRead
  <2>2. CASE q = [OutsideRead EXCEPT !.at = "enter"]
    BY <2>2, OutsideIs
  <2>3. CASE q = [OutsideRead EXCEPT !.at = "waitTrack"]
    BY <2>3, OutsideIs
  <2> QED
    BY <2>1, <2>2, <2>3
<1>3. /\ ~MixerHeld
      /\ UNCHANGED <<order, trackNotify, dataNotify, track, writer, writes, reported>>
  BY DEF HeadTrack
<1>4. mixer' \in {mixer, [mixer EXCEPT !.closeWrite = TRUE]} /\ quiet' \in {quiet, Quieter}
  BY DEF HeadTrack
<1>5. /\ mixer' \in [closeErr : BOOLEAN, closeWrite : BOOLEAN]
      /\ trackNotify' \in BOOLEAN /\ dataNotify' \in BOOLEAN
      /\ reported' \in [Tracks -> Nat]
  BY <1>3, <1>4 DEF MixInv, MixerTypeOK
<1>6. quiet' \in 0 .. SilenceGap
  BY <1>4, QuietIs DEF MixInv, MixerTypeOK
<1> QED
  BY <1>1, <1>2, <1>3, <1>5, <1>6, OutsideStep

LEMMA FinishStep ==
  ASSUME MixInv, NEW r \in MixReaders, FinishRound(r) \/ ReportClosed(r) \/ SettleRead(r)
  PROVE  MixInv'
<1>1. UNCHANGED <<mixer, order, trackNotify, dataNotify, track, writer, writes>>
  BY DEF FinishRound, ReportClosed, SettleRead
<1>2. CASE FinishRound(r)
  <2> DEFINE out == IF reader[r].read THEN "data" ELSE IF order # <<>> THEN "silence" ELSE "none"
             q == IF Calls(reader[r]) THEN [reader[r] EXCEPT !.at = "callback", !.out = out]
                  ELSE Settled(out)
  <2>1. out \in {"data", "silence", "none"}
    OBVIOUS
  <2>2. /\ reader' = [reader EXCEPT ![r] = q] /\ reported' = reported
        /\ quiet' = IF Calls(reader[r]) THEN quiet ELSE QuietAfter(out)
    BY <1>2 DEF FinishRound
  <2> HIDE DEF out
  <2>3. q \in Reader /\ q.at \in {"callback", "idle", "waitWrite"}
    BY <2>1, ReaderIs, OutsideIs DEF Reader, ReaderAt
  <2>4. quiet' \in 0 .. SilenceGap
    BY <2>1, <2>2, QuietIs DEF MixInv, MixerTypeOK
  <2> HIDE DEF q
  <2> QED
    BY <1>1, <2>2, <2>3, <2>4, OutsideStep DEF MixInv, MixerTypeOK, InRound
<1>3. CASE ReportClosed(r)
  <2> DEFINE q == [reader[r] EXCEPT !.at = "settle", !.gone = {}]
  <2>1. /\ reader' = [reader EXCEPT ![r] = q] /\ quiet' = quiet
        /\ reported' = [t \in Tracks |->
             IF t \in reader[r].gone THEN reported[t] + 1 ELSE reported[t]]
    BY <1>3 DEF ReportClosed, MixInv, MixerTypeOK
  <2>2. q \in Reader /\ q.at = "settle"
    BY ReaderIs DEF Reader, ReaderAt
  <2>3. reported' \in [Tracks -> Nat]
    BY <2>1 DEF MixInv, MixerTypeOK
  <2> HIDE DEF q
  <2> QED
    BY <1>1, <2>1, <2>2, <2>3, OutsideStep DEF MixInv, MixerTypeOK, InRound
<1>4. CASE SettleRead(r)
  <2> DEFINE q == Settled(reader[r].out)
  <2>1. /\ reader' = [reader EXCEPT ![r] = q] /\ reported' = reported
        /\ quiet' = QuietAfter(reader[r].out)
    BY <1>4 DEF SettleRead
  <2>2. q \in Reader /\ q.at \in {"idle", "waitWrite"} /\ quiet' \in 0 .. SilenceGap
    BY <2>1, ReaderIs, OutsideIs, QuietIs
  <2> HIDE DEF q
  <2> QED
    BY <1>1, <2>1, <2>2, OutsideStep DEF MixInv, MixerTypeOK, InRound
<1> QED
  BY <1>2, <1>3, <1>4

(* What a Read does when it is done with an input, or comes to one *)
LEMMA PassedIs ==
  ASSUME NEW q \in Reader, NEW data \in BOOLEAN
  PROVE  /\ Passed(q, data) \in Reader /\ Passed(q, data).at = "enter"
         /\ Passed(q, data).gone = q.gone
<1> DEFINE d == (q.read \/ data)
<1>1. q.pos + 1 \in Nat \ {0} /\ q.read \in BOOLEAN
  BY DEF Reader
<1>2. d \in BOOLEAN
  BY <1>1
<1>3. Passed(q, data) = [q EXCEPT !.at = "enter", !.pos = q.pos + 1, !.again = FALSE, !.read = d]
  BY DEF Passed
<1> HIDE DEF d
<1> QED
  BY <1>1, <1>2, <1>3 DEF Reader, ReaderAt, InRound

LEMMA FilledIs ==
  ASSUME NEW q \in Reader
  PROVE  Filled(q) \in Reader /\ Filled(q).at = "enter" /\ Filled(q).gone = q.gone
<1>1. q.again \in BOOLEAN /\ q.got \in BOOLEAN
  BY DEF Reader
<1>2. CASE q.got
  BY <1>2 DEF Filled, Reader, ReaderAt, InRound
<1>3. CASE ~q.got
  BY <1>1, <1>3, PassedIs DEF Filled
<1> QED
  BY <1>2, <1>3

LEMMA EndOfInputIs ==
  ASSUME NEW q \in Reader
  PROVE  /\ EndOfInput(q) \in Reader /\ EndOfInput(q).at \in {"enter", "drop"}
         /\ EndOfInput(q).at = "drop" => EndOfInput(q).pos = q.pos
         /\ EndOfInput(q).gone = q.gone
<1>1. CASE q.got
  BY <1>1, FilledIs DEF EndOfInput
<1>2. CASE ~q.got
  BY <1>2 DEF EndOfInput, Reader, ReaderAt, InRound
<1> QED
  BY <1>1, <1>2

LEMMA AtInputIs ==
  ASSUME NEW q \in Reader, NEW tk \in Track
  PROVE  LET p == AtInput(q, tk)
         IN /\ p \in Reader /\ p.at \in {"enter", "pull", "remove"} /\ p.gone = q.gone
            /\ p.at = "pull" => p.pos = q.pos /\ HasInput(tk)
            /\ p.at = "remove" => p.pos = q.pos /\ tk.closeWrite /\ ~HasInput(tk)
<1> DEFINE p == AtInput(q, tk)
<1>1. CASE HasInput(tk)
  <2> DEFINE n == IF q.again THEN 0 ELSE FrameLen
  <2>1. n \in 0 .. FrameLen
    BY MixerAssumption
  <2>2. p = [q EXCEPT !.at = "pull", !.got = FALSE, !.want = n]
    BY <1>1 DEF AtInput
  <2> HIDE DEF n, p
  <2>3. p \in Reader /\ p.at = "pull" /\ p.pos = q.pos /\ p.gone = q.gone
    BY <2>1, <2>2 DEF Reader, ReaderAt, InRound
  <2> QED
    BY <1>1, <2>3 DEF p
<1>2. CASE ~HasInput(tk) /\ tk.closeWrite /\ ~q.again
  <2>1. p = [q EXCEPT !.at = "remove"]
    BY <1>2 DEF AtInput
  <2> HIDE DEF p
  <2>2. p \in Reader /\ p.at = "remove" /\ p.pos = q.pos /\ p.gone = q.gone
    BY <2>1 DEF Reader, ReaderAt, InRound
  <2> QED
    BY <1>2, <2>2 DEF p
<1>3. CASE ~HasInput(tk) /\ ~(tk.closeWrite /\ ~q.again)
  <2>1. q.again \in BOOLEAN
    BY DEF Reader
  <2>2. p = Passed(q, q.again)
    BY <1>3 DEF AtInput
  <2> HIDE DEF p
  <2>3. p \in Reader /\ p.at = "enter" /\ p.gone = q.gone
    BY <2>1, <2>2, PassedIs
  <2> QED
    BY <2>3 DEF p
<1> QED
  BY <1>1, <1>2, <1>3

(* A step of the reader whose round it is *)
LEMMA RoundStep ==
  ASSUME MixInv, TracksGo, TracksServe, NEW r \in MixReaders, reader[r].at \in InRound,
         NEW q \in Reader, reader' = [reader EXCEPT ![r] = q], Placed(q)',
         UNCHANGED <<mixer, order, trackNotify, dataNotify, quiet, writer, writes, reported>>
  PROVE  MixInv'
<1>1. Kept'
  BY RoundKept
<1>2. MixerTypeOK'
  BY DEF MixInv, MixerTypeOK, TracksGo
<1> QED
  BY <1>1, <1>2 DEF MixInv, Kept

LEMMA EnterStep ==
  ASSUME MixInv, NEW r \in MixReaders, EnterTrack(r)
  PROVE  MixInv'
<1> DEFINE t == order[reader[r].pos]
           tk == track[t]
<1>1. /\ reader[r].at = "enter" /\ reader[r].pos \in 1 .. Len(order)
      /\ UNCHANGED <<mixer, order, trackNotify, dataNotify, quiet, track, writer, writes, reported>>
  BY ReaderIs DEF EnterTrack
<1>2. t \in Tracks /\ tk \in Track /\ reader[r] \in Reader
  BY <1>1 DEF MixInv, MixerTypeOK
<1>3. PICK q : /\ q = IF tk.closeErr THEN [reader[r] EXCEPT !.at = "remove"] ELSE AtInput(reader[r], tk)
               /\ reader' = [reader EXCEPT ![r] = q]
  BY DEF EnterTrack
<1>4. /\ q \in Reader /\ q.at \in {"enter", "pull", "remove"}
      /\ q.at \in {"pull", "remove"} => q.pos = reader[r].pos
      /\ q.at = "pull" => HasInput(tk)
      /\ q.at = "remove" => tk.closeErr \/ (tk.closeWrite /\ ~HasInput(tk))
  <2>1. CASE tk.closeErr
    BY <1>2, <1>3, <2>1 DEF Reader, ReaderAt, InRound
  <2>2. CASE ~tk.closeErr
    BY <1>2, <1>3, <2>2, AtInputIs
  <2> QED
    BY <2>1, <2>2
<1>5. Placed(q)'
  BY <1>1, <1>4 DEF Placed
<1>6. TracksGo /\ TracksServe
  BY <1>1, TrackSame DEF TracksGo, TracksServe, MixInv, MixerTypeOK
<1>7. reader[r].at \in InRound
  BY <1>1 DEF InRound
<1> QED
  BY <1>1, <1>3, <1>4, <1>5, <1>6, <1>7, RoundStep

(* The input a Read looks at *)
LEMMA PulledIs ==
  ASSUME MixInv, NEW r \in MixReaders, reader[r].at \in {"pull", "drop"}
  PROVE  LET t == order[reader[r].pos]
         IN /\ reader[r].pos \in 1 .. Len(order) /\ t \in Tracks /\ track[t] \in Track
            /\ HasInput(track[t]) /\ track[t].first \in 1 .. Len(track[t].inputs)
            /\ track[t].inputs[track[t].first] \in Input
<1> DEFINE t == order[reader[r].pos]
           tk == track[t]
<1>1. Placed(reader[r]) /\ order \in Seq(Tracks)
  BY DEF MixInv, MixerTypeOK
<1>2. reader[r].pos <= Len(order) /\ HasInput(tk)
  BY <1>1 DEF Placed
<1>3. reader[r].pos \in 1 .. Len(order)
  BY <1>1, <1>2, ReaderIs
<1>4. t \in Tracks
  BY <1>1, <1>3
<1>5. tk \in Track
  BY <1>4 DEF MixInv, MixerTypeOK
<1> HIDE DEF tk
<1>6. tk.first \in 1 .. Len(tk.inputs) /\ tk.inputs[tk.first] \in Input
  BY <1>2, <1>5, TrackIs DEF HasInput
<1> QED
  BY <1>2, <1>3, <1>4, <1>5, <1>6 DEF tk

LEMMA InputTouched ==
  ASSUME MixInv, NEW t \in Tracks, NEW i \in 1 .. Len(track[t].inputs), NEW b \in Input,
         InputGoes(track[t].inputs[i], b), Serves(track[t].inputs[i]) => Serves(b),
         track' = [track EXCEPT ![t].inputs[i] = b]
  PROVE  /\ TracksGo /\ TracksServe
         /\ track'[t].first = track[t].first /\ Len(track'[t].inputs) = Len(track[t].inputs)
         /\ track'[t].inputs[i] = b
<1> DEFINE c == [track[t] EXCEPT !.inputs[i] = b]
<1>1. track[t] \in Track
  BY DEF MixInv, MixerTypeOK
<1>2. track' = [track EXCEPT ![t] = c]
  OBVIOUS
<1>3. /\ TrackGoes(track[t], c) /\ TrackServes(track[t], c) /\ Len(c.inputs) = Len(track[t].inputs)
      /\ c.inputs[i] = b /\ c.first = track[t].first
  <2> DEFINE tk == track[t]
  <2>1. tk \in Track /\ i \in 1 .. Len(tk.inputs) /\ InputGoes(tk.inputs[i], b)
        /\ (Serves(tk.inputs[i]) => Serves(b))
    BY <1>1
  <2> HIDE DEF tk
  <2>2. LET d == [tk EXCEPT !.inputs[i] = b]
        IN /\ TrackGoes(tk, d) /\ TrackServes(tk, d) /\ Len(d.inputs) = Len(tk.inputs)
           /\ d.inputs[i] = b /\ d.first = tk.first
    BY <2>1, InputReplaced
  <2> QED
    BY <2>2 DEF tk
<1> HIDE DEF c
<1>4. TracksGo /\ TracksServe
  BY <1>2, <1>3, OneTrack
<1>5. track'[t] = c
  BY <1>1, <1>2, <1>3 DEF MixInv, MixerTypeOK, TrackGoes
<1> QED
  BY <1>3, <1>4, <1>5

(* One look at the head input, which gives some of it or nothing *)
LEMMA PullStep ==
  ASSUME MixInv, NEW r \in MixReaders, reader[r].at = "pull",
         NEW q \in Reader, reader' = [reader EXCEPT ![r] = q],
         q.at \in {"enter", "pull", "drop", "remove"}, q.at # "enter" => q.pos = reader[r].pos,
         NEW t, t = order[reader[r].pos], TracksGo, TracksServe,
         track'[t].first = track[t].first, Len(track'[t].inputs) = Len(track[t].inputs),
         q.at = "drop" /\ track'[t].inputs[track[t].first].fmt = OutFormat =>
           track'[t].inputs[track[t].first].closed /\ track'[t].inputs[track[t].first].stored = 0,
         q.at = "remove" => track'[t].inputs[track[t].first].fmt # OutFormat,
         UNCHANGED <<mixer, order, trackNotify, dataNotify, quiet, writer, writes, reported>>
  PROVE  MixInv'
<1>1. reader[r].pos <= Len(order) /\ HasInput(track[t])
  <2>1. Placed(reader[r])
    BY DEF MixInv
  <2> QED
    BY <2>1, Zenon DEF Placed
<1>2. HasInput(track'[t])
  BY <1>1 DEF HasInput
<1>3. Placed(q)'
  BY <1>1, <1>2 DEF Placed, ResampledHead
<1> QED
  BY <1>3, RoundStep DEF InRound

LEMMA TakenIs ==
  ASSUME NEW in \in Input, NEW n \in 0 .. in.stored, NEW m \in 0 .. MaxMade,
         NEW split \in BOOLEAN
  PROVE  /\ Taken(in, n) \in Input /\ Taken(in, n).fmt = in.fmt
         /\ InputGoes(in, Taken(in, n)) /\ Serves(Taken(in, n))
         /\ LET b == [Taken(in, n) EXCEPT !.left = m, !.split = split]
            IN b \in Input /\ InputGoes(in, b) /\ Serves(b)
<1> DEFINE a == Taken(in, n)
           b == [a EXCEPT !.left = m, !.split = split]
<1>1. in.stored - n \in 0 .. RingSize /\ in.stored - n <= in.stored
  BY InputIs
<1>2. CASE in.closed
  <2>1. a = [in EXCEPT !.stored = in.stored - n]
    BY <1>2 DEF Taken, Input
  <2> HIDE DEF a
  <2>2. a \in Input /\ a.fmt = in.fmt /\ a.closed /\ a.stored = in.stored - n
    BY <1>1, <1>2, <2>1 DEF Input
  <2>3. b \in Input /\ b.fmt = in.fmt /\ b.closed /\ b.stored = in.stored - n
    BY <2>2 DEF Input
  <2> HIDE DEF b
  <2> QED
    BY <1>1, <2>2, <2>3 DEF InputGoes, Serves, a, b
<1>3. CASE ~in.closed
  <2>1. a = [in EXCEPT !.stored = in.stored - n, !.notify = TRUE]
    BY <1>3 DEF Taken
  <2> HIDE DEF a
  <2>2. a \in Input /\ a.fmt = in.fmt /\ a.notify = TRUE
    BY <1>1, <2>1 DEF Input
  <2>3. b \in Input /\ b.fmt = in.fmt /\ b.notify = TRUE
    BY <2>2 DEF Input
  <2> HIDE DEF b
  <2> QED
    BY <1>3, <2>2, <2>3 DEF InputGoes, Serves, a, b
<1> QED
  BY <1>2, <1>3

(* readFull has part of its frame. *)
LEMMA GivenIs ==
  ASSUME NEW q \in Reader, q.at = "pull", NEW n \in 0 .. q.want
  PROVE  LET p == [q EXCEPT !.want = @ - n, !.got = TRUE]
         IN p \in Reader /\ p.at = "pull" /\ p.pos = q.pos /\ p.gone = q.gone
<1>1. q.want \in Nat /\ q.want <= FrameLen /\ FrameLen \in Nat
  BY MixerAssumption DEF Reader
<1>2. q.want - n \in 0 .. FrameLen
  BY <1>1
<1> QED
  BY <1>2 DEF Reader

LEMMA PullDirectStep ==
  ASSUME MixInv, NEW r \in MixReaders, PullDirect(r)
  PROVE  MixInv'
<1>1. reader[r] \in Reader /\ reader[r].at = "pull" /\ reader[r].want \in Nat
  BY ReaderIs DEF PullDirect
<1>2. PICK t : t = order[reader[r].pos]
  OBVIOUS
<1>3. PICK i : i = track[t].first
  OBVIOUS
<1>4. PICK in : in = track[t].inputs[i]
  OBVIOUS
<1>5. /\ t \in Tracks /\ i \in 1 .. Len(track[t].inputs) /\ in \in Input
  BY <1>1, <1>2, <1>3, <1>4, PulledIs
<1>6. UNCHANGED <<mixer, order, trackNotify, dataNotify, quiet, writer, writes, reported>>
  BY DEF PullDirect
<1>7. CASE in.stored = 0
  <2>1. PICK q : q = AtEmpty(reader[r], in) /\ reader' = [reader EXCEPT ![r] = q] /\ track' = track
    BY <1>2, <1>3, <1>4, <1>7 DEF PullDirect
  <2>2. /\ q \in Reader /\ q.at \in {"enter", "drop"} /\ (q.at = "drop" => q.pos = reader[r].pos)
        /\ q.at = "drop" => in.closed
    BY <1>1, <2>1, FilledIs, EndOfInputIs DEF AtEmpty
  <2>3. TracksGo /\ TracksServe
    BY <2>1, TrackSame DEF TracksGo, TracksServe, MixInv, MixerTypeOK
  <2> QED
    BY <1>1, <1>2, <1>3, <1>4, <1>6, <1>7, <2>1, <2>2, <2>3, PullStep
<1>8. CASE in.stored # 0
  <2>1. PICK n : /\ n = IF reader[r].want <= in.stored THEN reader[r].want ELSE in.stored
                 /\ n \in 0 .. in.stored /\ n \in 0 .. reader[r].want
    BY <1>1, <1>5, InputIs
  <2>2. PICK q : /\ q = IF n = 0 THEN Filled(reader[r])
                        ELSE [reader[r] EXCEPT !.want = @ - n, !.got = TRUE]
                 /\ reader' = [reader EXCEPT ![r] = q]
    BY <1>2, <1>3, <1>4, <1>8, <2>1 DEF PullDirect
  <2>3. /\ q \in Reader /\ q.at \in {"enter", "pull"} /\ (q.at = "pull" => q.pos = reader[r].pos)
    <3>1. CASE n = 0
      BY <1>1, <2>2, <3>1, FilledIs
    <3>2. CASE n # 0
      BY <1>1, <2>1, <2>2, <3>2, GivenIs
    <3> QED
      BY <3>1, <3>2
  <2>4. PICK b : b = Taken(in, n) /\ track' = [track EXCEPT ![t].inputs[i] = b]
    BY <1>2, <1>3, <1>4, <1>8, <2>1 DEF PullDirect
  <2>5. b \in Input /\ InputGoes(in, b) /\ Serves(b)
    <3>1. 0 \in 0 .. MaxMade
      BY MixerAssumption
    <3> QED
      BY <1>5, <2>1, <2>4, <3>1, TakenIs
  <2>6. /\ TracksGo /\ TracksServe
        /\ track'[t].first = track[t].first /\ Len(track'[t].inputs) = Len(track[t].inputs)
    BY <1>4, <1>5, <2>4, <2>5, InputTouched
  <2> QED
    BY <1>1, <1>2, <1>6, <2>2, <2>3, <2>6, PullStep
<1> QED
  BY <1>7, <1>8

(* The resampler's leftover goes down, and nothing else. *)
LEMMA LeftIs ==
  ASSUME NEW in \in Input, NEW n \in 0 .. in.left
  PROVE  LET b == [in EXCEPT !.left = @ - n]
         IN b \in Input /\ InputGoes(in, b) /\ (Serves(in) => Serves(b)) /\ b.fmt = in.fmt
<1> DEFINE b == [in EXCEPT !.left = @ - n]
<1>1. in.left - n \in 0 .. MaxMade
  BY InputIs
<1>2. /\ b \in Input /\ b.fmt = in.fmt /\ b.closed = in.closed /\ b.notify = in.notify
      /\ b.stored = in.stored
  BY <1>1 DEF Input
<1> HIDE DEF b
<1>3. InputGoes(in, b) /\ (Serves(in) => Serves(b))
  BY <1>2, InputIs DEF InputGoes, Serves
<1> QED
  BY <1>2, <1>3 DEF b

LEMMA PullResampledStep ==
  ASSUME MixInv, NEW r \in MixReaders, PullResampled(r)
  PROVE  MixInv'
<1>1. /\ reader[r] \in Reader /\ reader[r].at = "pull" /\ reader[r].want \in Nat
      /\ SourceLen \in Nat /\ MaxMade \in Nat
  BY ReaderIs, MixerAssumption DEF PullResampled
<1> DEFINE t == order[reader[r].pos]
           i == track[t].first
           in == track[t].inputs[i]
<1>2. t = order[reader[r].pos]
  OBVIOUS
<1>3. i = track[t].first
  OBVIOUS
<1>4. in = track[t].inputs[i]
  OBVIOUS
<1>5. /\ t \in Tracks /\ i \in 1 .. Len(track[t].inputs) /\ in \in Input
      /\ in.fmt # OutFormat
  <2>1. t \in Tracks /\ i \in 1 .. Len(track[t].inputs) /\ in \in Input
    BY <1>1, PulledIs
  <2> QED
    BY <2>1 DEF PullResampled
<1>6. UNCHANGED <<mixer, order, trackNotify, dataNotify, quiet, writer, writes, reported>>
  BY DEF PullResampled
<1> DEFINE n == IF SourceLen <= in.stored THEN SourceLen ELSE in.stored
           Given(m) == [reader[r] EXCEPT !.want = @ - m, !.got = TRUE]
           Part(m) == IF m <= reader[r].want THEN m ELSE reader[r].want
           error == [reader[r] EXCEPT !.at = "remove"]
<1>7. n \in 0 .. in.stored
  <2> HIDE DEF in
  <2> QED
    BY <1>1, <1>5, InputIs
<1>8. ASSUME NEW m \in Nat
      PROVE  Part(m) \in 0 .. reader[r].want /\ Part(m) \in 0 .. m /\ m - Part(m) \in 0 .. m
  BY <1>1
<1>9. PICK q : /\ reader' = [reader EXCEPT ![r] = q]
               /\ \/ /\ q = Filled(reader[r]) \/ q = EndOfInput(reader[r])
                     /\ track' = track
                  \/ /\ q = Given(Part(in.left))
                     /\ track' = [track EXCEPT ![t].inputs[i] = [in EXCEPT !.left = @ - Part(in.left)]]
                  \/ \E m \in 0 .. MaxMade, s \in BOOLEAN :
                       /\ q = IF m = 0 THEN Filled(reader[r]) ELSE Given(Part(m))
                       /\ track' = [track EXCEPT ![t].inputs[i] =
                            [Taken(in, n) EXCEPT !.left = m - Part(m), !.split = s]]
                  \/ /\ q = error
                     /\ track' = track \/ track' = [track EXCEPT ![t].inputs[i] = Taken(in, n)]
  <2>1. CASE reader[r].want = 0
    <3>1. reader' = [reader EXCEPT ![r] = Filled(reader[r])] /\ track' = track
      BY <2>1 DEF PullResampled
    <3> QED
      BY <3>1
  <2>2. CASE reader[r].want # 0 /\ in.left # 0
    <3>1. /\ reader' = [reader EXCEPT ![r] = Given(Part(in.left))]
          /\ track' = [track EXCEPT ![t].inputs[i].left = @ - Part(in.left)]
      BY <2>2, Zenon DEF PullResampled
    <3>2. [track EXCEPT ![t].inputs[i].left = @ - Part(in.left)]
            = [track EXCEPT ![t].inputs[i] = [in EXCEPT !.left = @ - Part(in.left)]]
      BY <1>4
    <3> HIDE DEF Part, Given
    <3> QED
      BY <3>1, <3>2, Zenon
  <2>3. CASE reader[r].want # 0 /\ ~(in.left > 0) /\ ~(in.stored > 0)
    <3> DEFINE ended == IF in.closed /\ in.split THEN error ELSE EndOfInput(reader[r])
    <3>1. reader' = [reader EXCEPT ![r] = ended] /\ track' = track
      BY <2>3, Zenon DEF PullResampled
    <3>2. ended \in {error, EndOfInput(reader[r])}
      OBVIOUS
    <3> HIDE DEF ended, error
    <3> QED
      BY <3>1, <3>2, Zenon
  <2>4. CASE reader[r].want # 0 /\ ~(in.left > 0) /\ in.stored # 0
    <3>1. \/ \E m \in 0 .. MaxMade, s \in BOOLEAN :
               /\ reader' = [reader EXCEPT ![r] =
                    IF m = 0 THEN Filled(reader[r]) ELSE Given(Part(m))]
               /\ track' = [track EXCEPT ![t].inputs[i] =
                    [Taken(in, n) EXCEPT !.left = m - Part(m), !.split = s]]
          \/ /\ reader' = [reader EXCEPT ![r] = error]
             /\ track' = [track EXCEPT ![t].inputs[i] = Taken(in, n)]
      BY <2>4, Zenon DEF PullResampled
    <3> HIDE DEF n, Part, Given, error
    <3> QED
      BY <3>1, Zenon
  <2>5. in.left \in Nat /\ in.stored \in Nat
    <3> HIDE DEF in
    <3> QED
      BY <1>5, InputIs
  <2>6. (in.left # 0 <=> in.left > 0) /\ (in.stored # 0 <=> in.stored > 0)
    <3> HIDE DEF in
    <3> QED
      BY <2>5
  <2> HIDE DEF n, Part, Given, error, t, i, in
  <2> QED
    BY <2>1, <2>2, <2>3, <2>4, <2>6, Zenon
<1>14. reader' = [reader EXCEPT ![r] = q]
  BY <1>9
<1> HIDE DEF n, Part, t, i, in
<1>10. ASSUME NEW m \in Nat
       PROVE  Given(Part(m)) \in Reader /\ Given(Part(m)).at = "pull" /\ Given(Part(m)).pos = reader[r].pos
  BY <1>1, <1>8, GivenIs
<1>11. CASE (q = Filled(reader[r]) \/ q = EndOfInput(reader[r])) /\ track' = track
  <2>1. q \in Reader /\ q.at \in {"enter", "drop"} /\ (q.at = "drop" => q.pos = reader[r].pos)
    BY <1>1, <1>11, FilledIs, EndOfInputIs
  <2>2. TracksGo /\ TracksServe
    BY <1>11, TrackSame DEF TracksGo, TracksServe, MixInv, MixerTypeOK
  <2>3. track'[t].inputs[track[t].first].fmt # OutFormat
    BY <1>3, <1>4, <1>5, <1>11
  <2> QED
    BY <1>1, <1>2, <1>6, <1>11, <1>14, <2>1, <2>2, <2>3, PullStep
<1>12. CASE /\ q = Given(Part(in.left))
            /\ track' = [track EXCEPT ![t].inputs[i] = [in EXCEPT !.left = @ - Part(in.left)]]
  <2>1. q \in Reader /\ q.at = "pull" /\ q.pos = reader[r].pos
    BY <1>5, <1>10, <1>12, InputIs
  <2>2. PICK b : /\ b = [in EXCEPT !.left = @ - Part(in.left)]
                 /\ track' = [track EXCEPT ![t].inputs[i] = b]
    BY <1>12
  <2>3. b \in Input /\ InputGoes(in, b) /\ (Serves(in) => Serves(b))
    <3>1. Part(in.left) \in 0 .. in.left
      BY <1>5, <1>8, InputIs
    <3> QED
      BY <1>5, <2>2, <3>1, LeftIs
  <2>4. /\ TracksGo /\ TracksServe
        /\ track'[t].first = track[t].first /\ Len(track'[t].inputs) = Len(track[t].inputs)
    BY <1>4, <1>5, <2>2, <2>3, InputTouched
  <2> QED
    BY <1>1, <1>2, <1>6, <1>14, <2>1, <2>4, PullStep
<1>13. ASSUME NEW m \in 0 .. MaxMade, NEW s \in BOOLEAN,
              q = IF m = 0 THEN Filled(reader[r]) ELSE Given(Part(m)),
              track' = [track EXCEPT ![t].inputs[i] =
                         [Taken(in, n) EXCEPT !.left = m - Part(m), !.split = s]]
       PROVE  MixInv'
  <2>1. m \in Nat
    BY <1>1
  <2>2. q \in Reader /\ q.at \in {"enter", "pull"} /\ (q.at = "pull" => q.pos = reader[r].pos)
    <3>1. CASE m = 0
      BY <1>1, <1>13, <3>1, FilledIs
    <3>2. CASE m # 0
      BY <1>10, <1>13, <2>1, <3>2
    <3> QED
      BY <3>1, <3>2
  <2>3. PICK b : /\ b = [Taken(in, n) EXCEPT !.left = m - Part(m), !.split = s]
                 /\ track' = [track EXCEPT ![t].inputs[i] = b]
    BY <1>13
  <2>4. b \in Input /\ InputGoes(in, b) /\ Serves(b)
    <3>1. m - Part(m) \in 0 .. MaxMade
      BY <1>1, <1>8, <2>1
    <3> QED
      BY <1>5, <1>7, <2>3, <3>1, TakenIs
  <2>5. /\ TracksGo /\ TracksServe
        /\ track'[t].first = track[t].first /\ Len(track'[t].inputs) = Len(track[t].inputs)
    BY <1>4, <1>5, <2>3, <2>4, InputTouched
  <2> QED
    BY <1>1, <1>2, <1>6, <1>14, <2>2, <2>5, PullStep
<1>15. CASE /\ q = error
            /\ track' = track \/ track' = [track EXCEPT ![t].inputs[i] = Taken(in, n)]
  <2>1. q \in Reader /\ q.at = "remove" /\ q.pos = reader[r].pos
    BY <1>1, <1>15 DEF Reader, ReaderAt, InRound
  <2>2. PICK b \in {in, Taken(in, n)} : track' = [track EXCEPT ![t].inputs[i] = b]
    <3>1. [track EXCEPT ![t].inputs[i] = in] = track
      BY <1>4, <1>5, TrackIs DEF MixInv, MixerTypeOK, Track
    <3> QED
      BY <1>15, <3>1
  <2>3. b \in Input /\ InputGoes(in, b) /\ (Serves(in) => Serves(b)) /\ b.fmt = in.fmt
    <3>1. CASE b = in
      BY <1>5, <3>1, InputIs DEF InputGoes
    <3>2. CASE b = Taken(in, n)
      <4>1. 0 \in 0 .. MaxMade
        BY <1>1
      <4> QED
        BY <1>5, <1>7, <3>2, <4>1, TakenIs, Zenon
    <3> QED
      BY <2>2, <3>1, <3>2
  <2>4. /\ TracksGo /\ TracksServe
        /\ track'[t].first = track[t].first /\ Len(track'[t].inputs) = Len(track[t].inputs)
        /\ track'[t].inputs[i] = b
    BY <1>4, <1>5, <2>2, <2>3, InputTouched
  <2>5. track'[t].inputs[track[t].first].fmt # OutFormat
    BY <1>3, <1>5, <2>3, <2>4
  <2> QED
    BY <1>1, <1>2, <1>6, <1>14, <2>1, <2>4, <2>5, PullStep
<1> QED
  BY <1>9, <1>11, <1>12, <1>13, <1>15

LEMMA DropStep ==
  ASSUME MixInv, NEW r \in MixReaders, DropInput(r)
  PROVE  MixInv'
<1>1. /\ reader[r].at = "drop" /\ reader[r] \in Reader
      /\ UNCHANGED <<mixer, order, trackNotify, dataNotify, quiet, writer, writes, reported>>
  BY ReaderIs DEF DropInput
<1>2. PICK t : t = order[reader[r].pos]
  OBVIOUS
<1>3. PICK tk : tk = track[t]
  OBVIOUS
<1>4. /\ t \in Tracks /\ tk \in Track /\ HasInput(tk) /\ tk.first \in 1 .. Len(tk.inputs)
      /\ reader[r].pos \in 1 .. Len(order) /\ tk.inputs[tk.first] \in Input
  BY <1>1, <1>2, <1>3, PulledIs
<1>5. /\ tk.inputs[tk.first].fmt = OutFormat => tk.inputs[tk.first].stored = 0
      /\ TrackShape(tk)
  BY <1>1, <1>2, <1>3, <1>4 DEF MixInv, Placed
<1>6. PICK s : s = [tk.inputs EXCEPT ![tk.first] = [@ EXCEPT !.closed = TRUE]]
  OBVIOUS
<1>7. PICK b : /\ b = [tk EXCEPT !.inputs = s, !.first = tk.first + 1]
               /\ track' = [track EXCEPT ![t] = b]
               /\ reader' = [reader EXCEPT ![r] = AtInput(reader[r], b)]
  BY <1>2, <1>3, <1>6 DEF DropInput
<1>8. /\ s \in Seq(Input) /\ Len(s) = Len(tk.inputs)
      /\ s[tk.first] \in Input /\ s[tk.first].closed = TRUE
      /\ s[tk.first].stored = tk.inputs[tk.first].stored /\ s[tk.first].fmt = tk.inputs[tk.first].fmt
      /\ \A i \in 1 .. Len(tk.inputs) : i # tk.first => s[i] = tk.inputs[i]
  <2>1. PICK c : c = [tk.inputs[tk.first] EXCEPT !.closed = TRUE]
    OBVIOUS
  <2>2. /\ c \in Input /\ c.closed = TRUE /\ c.stored = tk.inputs[tk.first].stored
        /\ c.fmt = tk.inputs[tk.first].fmt
    BY <1>4, <2>1, InputClosed
  <2>3. s = [tk.inputs EXCEPT ![tk.first] = c]
    BY <1>6, <2>1
  <2>4. /\ s \in Seq(Input) /\ Len(s) = Len(tk.inputs)
        /\ \A i \in 1 .. Len(tk.inputs) : s[i] = IF i = tk.first THEN c ELSE tk.inputs[i]
    BY <1>4, <2>2, <2>3, TrackIs, ExceptSeq
  <2> QED
    BY <1>4, <2>2, <2>4
<1>9. /\ b \in Track /\ b.inputs = s /\ b.first = tk.first + 1 /\ b.made = tk.made
  <2>1. tk.first + 1 \in Nat \ {0}
    BY <1>4, TrackIs
  <2> QED
    BY <1>4, <1>7, <1>8, <2>1 DEF Track
<1>10. TrackShape(b)
  <2>1. b.first <= Len(b.inputs) + 1
    BY <1>4, <1>8, <1>9, TrackIs
  <2>2. b.made
    <3>1. Len(tk.inputs) # 0
      BY <1>4, TrackIs
    <3>2. tk.inputs # <<>>
      BY <3>1
    <3> QED
      BY <1>5, <1>9, <3>2 DEF TrackShape
  <2>3. ASSUME NEW i \in 1 .. b.first - 1, b.inputs[i].fmt = OutFormat
        PROVE  b.inputs[i].closed /\ b.inputs[i].stored = 0
    <3>1. i \in 1 .. tk.first /\ i \in 1 .. Len(tk.inputs)
      BY <1>4, <1>9, TrackIs
    <3>2. CASE i = tk.first
      BY <1>5, <1>8, <1>9, <2>3, <3>2
    <3>3. CASE i # tk.first
      <4>1. i \in 1 .. tk.first - 1 /\ s[i] = tk.inputs[i]
        BY <1>4, <1>8, <3>1, <3>3, TrackIs
      <4> QED
        BY <1>5, <1>9, <2>3, <4>1 DEF TrackShape
    <3> QED
      BY <3>2, <3>3
  <2> QED
    BY <2>1, <2>2, <2>3 DEF TrackShape
<1>11. /\ track' \in [Tracks -> Track] /\ track'[t] = b
       /\ \A u \in Tracks \ {t} : track'[u] = track[u]
  BY <1>4, <1>7, <1>9 DEF MixInv, MixerTypeOK
<1>12. PICK q : q = AtInput(reader[r], b) /\ reader' = [reader EXCEPT ![r] = q]
  BY <1>7
<1>13. /\ q \in Reader /\ q.at \in {"enter", "pull", "remove"}
       /\ q.at = "pull" => q.pos = reader[r].pos /\ HasInput(b)
       /\ q.at = "remove" => q.pos = reader[r].pos /\ b.closeWrite /\ ~HasInput(b)
  BY <1>1, <1>9, <1>12, AtInputIs
<1>14. /\ reader'[r] = q
       /\ \A v \in MixReaders \ {r} : reader'[v] = reader[v] /\ reader[v].at \notin InRound
  <2>1. reader[r].at \in InRound
    BY <1>1 DEF InRound
  <2> QED
    BY <1>12, <2>1 DEF MixInv, MixerTypeOK, OneRound
<1>15. \A u \in Tracks : TrackShape(track'[u])
  BY <1>10, <1>11 DEF MixInv
<1>16. \A v \in MixReaders : Placed(reader[v])'
  <2>1. Placed(q)'
    BY <1>1, <1>2, <1>4, <1>11, <1>13 DEF Placed
  <2> QED
    BY <1>14, <2>1 DEF Placed, InRound
<1>17. OneRound'
  BY <1>14 DEF OneRound
<1>18. ASSUME NEW u \in Tracks
       PROVE  /\ Len(track[u].inputs) <= Len(track'[u].inputs)
              /\ TrackServes(track[u], track'[u])
  <2>1. CASE u # t
    BY <1>11, <2>1, TrackSame, TrackIs DEF MixInv, MixerTypeOK
  <2>2. CASE u = t
    <3>1. track[u] = tk /\ track'[u] = b /\ b.inputs = s /\ Len(s) = Len(tk.inputs)
      BY <1>3, <1>8, <1>9, <1>11, <2>2
    <3>2. ASSUME NEW i \in 1 .. Len(tk.inputs), Serves(tk.inputs[i])
          PROVE  Serves(s[i])
      BY <1>8, <3>2 DEF Serves
    <3>3. Len(tk.inputs) \in Nat
      BY <1>4, TrackIs
    <3> QED
      BY <3>1, <3>2, <3>3 DEF TrackServes
  <2> QED
    BY <2>1, <2>2
<1>19. WritersPlaced' /\ SleepersServed'
  BY <1>1, <1>11, <1>18, WritersStay DEF TracksServe
<1>20. MixerTypeOK'
  BY <1>1, <1>11, <1>12, <1>13 DEF MixInv, MixerTypeOK
<1> QED
  BY <1>15, <1>16, <1>17, <1>19, <1>20 DEF MixInv, TrackShape

LEMMA RemoveStep ==
  ASSUME MixInv, NEW r \in MixReaders, RemoveTrack(r)
  PROVE  MixInv'
<1>1. /\ reader[r].at = "remove" /\ reader[r] \in Reader /\ order \in Seq(Tracks)
      /\ UNCHANGED <<mixer, trackNotify, quiet, writer, writes, reported>>
  BY ReaderIs DEF RemoveTrack, MixInv, MixerTypeOK
<1>2. PICK p : p = reader[r].pos
  OBVIOUS
<1>3. PICK t : t = order[p]
  OBVIOUS
<1>4. p \in 1 .. Len(order) /\ t \in Tracks
  <2>1. Placed(reader[r])
    BY DEF MixInv
  <2>2. p <= Len(order)
    BY <1>1, <1>2, <2>1, Zenon DEF Placed
  <2>3. p \in 1 .. Len(order)
    BY <1>1, <1>2, <2>2, ReaderIs
  <2> QED
    BY <1>1, <1>3, <2>3
<1>5. track[t] \in Track /\ dataNotify \in BOOLEAN
  BY <1>4 DEF MixInv, MixerTypeOK
<1>6. PICK b : /\ TrackGoes(track[t], b) /\ TrackServes(track[t], b)
               /\ track' = [track EXCEPT ![t] = b]
  BY <1>2, <1>3, <1>5, CtrlClosedIs DEF RemoveTrack
<1>7. TracksGo /\ TracksServe
  BY <1>4, <1>6, OneTrack
<1>8. PICK q : /\ q = [reader[r] EXCEPT !.at = "enter", !.again = FALSE, !.gone = @ \cup {t}]
               /\ reader' = [reader EXCEPT ![r] = q]
  BY <1>2, <1>3 DEF RemoveTrack
<1>9. q \in Reader /\ q.at = "enter"
  BY <1>1, <1>4, <1>8 DEF Reader, ReaderAt, InRound
<1>10. Placed(q)'
  BY <1>9 DEF Placed
<1>11. Kept'
  <2>1. reader[r].at \in InRound
    BY <1>1 DEF InRound
  <2> QED
    BY <1>1, <1>7, <1>8, <1>9, <1>10, <2>1, RoundKept
<1>12. dataNotify' \in BOOLEAN
  BY <1>5, Zenon DEF RemoveTrack
<1>13. order' \in Seq(Tracks)
  <2>1. order' = SubSeq(order, 1, p - 1) \o SubSeq(order, p + 1, Len(order))
    BY <1>2 DEF RemoveTrack
  <2>2. SubSeq(order, 1, p - 1) \in Seq(Tracks) /\ SubSeq(order, p + 1, Len(order)) \in Seq(Tracks)
    BY <1>1, <1>4, SubSeqProperties
  <2> QED
    BY <2>1, <2>2, ConcatProperties
<1>14. MixerTypeOK'
  BY <1>1, <1>7, <1>8, <1>9, <1>12, <1>13 DEF MixInv, MixerTypeOK, TracksGo
<1> QED
  BY <1>11, <1>14 DEF MixInv, Kept

(* What happens to an input makes no track. *)
LEMMA MadeSame ==
  ASSUME MixInv, NEW t, NEW i, NEW b,
         track' = track \/ track' = [track EXCEPT ![t].inputs[i] = b]
  PROVE  \A u \in Tracks : track'[u].made = track[u].made
<1>1. track \in [Tracks -> Track]
  BY DEF MixInv, MixerTypeOK
<1>2. CASE track' = track
  BY <1>2
<1>3. CASE track' = [track EXCEPT ![t].inputs[i] = b]
  <2> DEFINE c == [track[t] EXCEPT !.inputs[i] = b]
  <2>1. track' = [track EXCEPT ![t] = c]
    BY <1>3
  <2>2. t \in Tracks => c.made = track[t].made
    BY <1>1 DEF Track
  <2> HIDE DEF c
  <2> QED
    BY <1>1, <2>1, <2>2
<1> QED
  BY <1>2, <1>3

(* A reader in its round goes on with it, and what it has to report stays. *)
LEMMA RoundMoves ==
  ASSUME MixInv, NEW r \in MixReaders,
         EnterTrack(r) \/ PullDirect(r) \/ PullResampled(r) \/ DropInput(r)
  PROVE  /\ \E q : /\ reader' = [reader EXCEPT ![r] = q] /\ q.gone = reader[r].gone
                   /\ q.at \in {"enter", "pull", "drop", "remove"}
         /\ \A t \in Tracks : track'[t].made = track[t].made
         /\ UNCHANGED <<mixer, order, trackNotify, reported>>
<1>1. reader[r] \in Reader /\ track \in [Tracks -> Track]
  BY ReaderIs DEF MixInv, MixerTypeOK
<1>2. ASSUME NEW tk
      PROVE  /\ AtInput(reader[r], tk).gone = reader[r].gone
             /\ AtInput(reader[r], tk).at \in {"enter", "pull", "drop", "remove"}
  BY <1>1 DEF AtInput, Passed, Reader
<1>3. /\ Filled(reader[r]).gone = reader[r].gone /\ Filled(reader[r]).at = "enter"
      /\ EndOfInput(reader[r]).gone = reader[r].gone /\ EndOfInput(reader[r]).at \in {"enter", "drop"}
  BY <1>1, FilledIs, EndOfInputIs
<1>4. ASSUME NEW n, reader[r].at = "pull"
      PROVE  LET p == [reader[r] EXCEPT !.want = @ - n, !.got = TRUE]
             IN p.gone = reader[r].gone /\ p.at = "pull"
  BY <1>1, <1>4 DEF Reader
<1>5. CASE EnterTrack(r)
  <2>1. reader' = [reader EXCEPT ![r] =
          IF track[order[reader[r].pos]].closeErr THEN [reader[r] EXCEPT !.at = "remove"]
          ELSE AtInput(reader[r], track[order[reader[r].pos]])]
    BY <1>5 DEF EnterTrack
  <2>2. /\ [reader[r] EXCEPT !.at = "remove"].gone = reader[r].gone
        /\ [reader[r] EXCEPT !.at = "remove"].at = "remove"
    BY <1>1 DEF Reader
  <2>3. UNCHANGED <<mixer, order, trackNotify, reported, track>>
    BY <1>5 DEF EnterTrack
  <2> QED
    BY <1>2, <2>1, <2>2, <2>3
<1>6. CASE PullDirect(r)
  <2> DEFINE Given(n) == [reader[r] EXCEPT !.want = @ - n, !.got = TRUE]
             Turns(n) == \/ reader' = [reader EXCEPT ![r] = Filled(reader[r])]
                         \/ reader' = [reader EXCEPT ![r] = EndOfInput(reader[r])]
                         \/ reader' = [reader EXCEPT ![r] = Given(n)]
             in == track[order[reader[r].pos]].inputs[track[order[reader[r].pos]].first]
             m == IF reader[r].want <= in.stored THEN reader[r].want ELSE in.stored
  <2>4. Turns(m)
    BY <1>6 DEF PullDirect, AtEmpty
  <2>1. PICK n : Turns(n)
    <3> HIDE DEF Turns, m
    <3> QED
      BY <2>4
  <2>2. reader[r].at = "pull" /\ UNCHANGED <<mixer, order, trackNotify, reported>>
    BY <1>6 DEF PullDirect
  <2>3. \A t \in Tracks : track'[t].made = track[t].made
    <3> DEFINE t == order[reader[r].pos]
               b == Taken(in, m)
    <3>1. track' = track \/ track' = [track EXCEPT ![t].inputs[track[t].first] = b]
      BY <1>6 DEF PullDirect
    <3> HIDE DEF t, b
    <3> QED
      BY <3>1, MadeSame
  <2> QED
    BY <1>3, <1>4, <2>1, <2>2, <2>3
<1>7. CASE PullResampled(r)
  <2> DEFINE Given(n) == [reader[r] EXCEPT !.want = @ - n, !.got = TRUE]
             Turns(n) == \/ reader' = [reader EXCEPT ![r] = Filled(reader[r])]
                         \/ reader' = [reader EXCEPT ![r] = EndOfInput(reader[r])]
                         \/ reader' = [reader EXCEPT ![r] = Given(n)]
             in == track[order[reader[r].pos]].inputs[track[order[reader[r].pos]].first]
             Part(m) == IF m <= reader[r].want THEN m ELSE reader[r].want
             error == [reader[r] EXCEPT !.at = "remove"]
  <2>4. \/ Turns(Part(in.left)) \/ \E m \in 0 .. MaxMade : Turns(Part(m))
        \/ reader' = [reader EXCEPT ![r] = error]
    BY <1>7 DEF PullResampled
  <2>5. error.gone = reader[r].gone /\ error.at = "remove"
    BY <1>1 DEF Reader
  <2>1. PICK n : Turns(n) \/ reader' = [reader EXCEPT ![r] = error]
    <3> HIDE DEF Turns, Part, error
    <3> QED
      BY <2>4
  <2>2. reader[r].at = "pull" /\ UNCHANGED <<mixer, order, trackNotify, reported>>
    BY <1>7 DEF PullResampled
  <2>3. \A t \in Tracks : track'[t].made = track[t].made
    <3> DEFINE t == order[reader[r].pos]
               l == IF SourceLen <= in.stored THEN SourceLen ELSE in.stored
               Less == [in EXCEPT !.left = @ - Part(in.left)]
               More(k, s) == [Taken(in, l) EXCEPT !.left = k - Part(k), !.split = s]
               Lost == Taken(in, l)
    <3>1. \/ track' = track
          \/ track' = [track EXCEPT ![t].inputs[track[t].first] = Less]
          \/ \E k \in 0 .. MaxMade, s \in BOOLEAN :
               track' = [track EXCEPT ![t].inputs[track[t].first] = More(k, s)]
          \/ track' = [track EXCEPT ![t].inputs[track[t].first] = Lost]
      BY <1>7 DEF PullResampled
    <3> HIDE DEF t, Less, More, Lost
    <3> QED
      BY <3>1, MadeSame
  <2> HIDE DEF error
  <2> QED
    BY <1>3, <1>4, <2>1, <2>2, <2>3, <2>5
<1>8. CASE DropInput(r)
  <2>1. PICK b : reader' = [reader EXCEPT ![r] = AtInput(reader[r], b)]
    BY <1>8 DEF DropInput
  <2>2. UNCHANGED <<mixer, order, trackNotify, reported>>
    BY <1>8 DEF DropInput
  <2>3. \A t \in Tracks : track'[t].made = track[t].made
    BY <1>1, <1>8 DEF DropInput, Track
  <2> QED
    BY <1>2, <2>1, <2>2, <2>3
<1> QED
  BY <1>5, <1>6, <1>7, <1>8

(* A reader that ends its round has its report to make, or settles. *)
LEMMA FinishMoves ==
  ASSUME MixInv, NEW r \in MixReaders, FinishRound(r)
  PROVE  \E q : /\ reader' = [reader EXCEPT ![r] = q]
                /\ \/ q.at = "callback" /\ q.gone = reader[r].gone
                   \/ /\ ~Calls(reader[r]) /\ q.at \in {"idle", "waitWrite"}
                      /\ q.gone = {}
<1>1. reader[r] \in Reader
  BY ReaderIs
<1>2. ASSUME NEW out
      PROVE  /\ [reader[r] EXCEPT !.at = "callback", !.out = out].at = "callback"
             /\ [reader[r] EXCEPT !.at = "callback", !.out = out].gone = reader[r].gone
             /\ Settled(out).at \in {"idle", "waitWrite"} /\ Settled(out).gone = {}
  BY <1>1 DEF Reader, Settled, OutsideRead
<1>3. PICK out : reader' = [reader EXCEPT ![r] =
                   IF Calls(reader[r]) THEN [reader[r] EXCEPT !.at = "callback", !.out = out]
                   ELSE Settled(out)]
  BY DEF FinishRound
<1> QED
  BY <1>2, <1>3

-----------------------------------------------------------------------------
(* The mixer's theorems *)

LEMMA MixInit ==
  ASSUME MixerInit
  PROVE  MixInv
<1>1. MixerTypeOK
  <2>1. OutsideRead \in Reader /\ NoTrackYet \in Track
    BY OutsideIs DEF NoTrackYet, Track
  <2>2. /\ track \in [Tracks -> Track] /\ reader \in [MixReaders -> Reader]
        /\ writer \in [TrackWriters -> Writer] /\ reported \in [Tracks -> Nat]
    BY <2>1 DEF MixerInit, Writer
  <2>3. quiet \in 0 .. SilenceGap /\ writes \in 0 .. MaxWrites
    BY MixerAssumption DEF MixerInit
  <2>4. mixer \in [closeErr : BOOLEAN, closeWrite : BOOLEAN]
    BY DEF MixerInit
  <2>5. trackNotify \in BOOLEAN /\ dataNotify \in BOOLEAN
    BY DEF MixerInit
  <2>6. order \in Seq(Tracks)
    BY DEF MixerInit
  <2> QED
    BY <2>2, <2>3, <2>4, <2>5, <2>6 DEF MixerTypeOK
<1>2. \A t \in Tracks : TrackShape(track[t])
  BY DEF MixerInit, TrackShape, NoTrackYet
<1>3. \A r \in MixReaders : reader[r].at = "idle"
  BY DEF MixerInit, OutsideRead
<1>4. (\A r \in MixReaders : Placed(reader[r])) /\ OneRound
  BY <1>3 DEF Placed, OneRound, InRound
<1>5. WritersPlaced /\ SleepersServed
  BY DEF MixerInit, WritersPlaced, SleepersServed
<1> QED
  BY <1>1, <1>2, <1>4, <1>5 DEF MixInv

LEMMA MixStep ==
  ASSUME MixInv, [MixerNext]_mixerVars
  PROVE  MixInv'
<1>1. ASSUME NEW r \in MixReaders, ReadCall(r) \/ ReadStep(r)
      PROVE  MixInv'
  <2>1. CASE ReadCall(r) \/ TrackWakes(r) \/ WriteWakes(r)
    BY <2>1, ReadCallStep
  <2>2. CASE HeadTrack(r)
    BY <2>2, HeadTrackStep
  <2>3. CASE FinishRound(r) \/ ReportClosed(r) \/ SettleRead(r)
    BY <2>3, FinishStep
  <2>4. CASE EnterTrack(r)
    BY <2>4, EnterStep
  <2>5. CASE PullDirect(r)
    BY <2>5, PullDirectStep
  <2>6. CASE PullResampled(r)
    BY <2>6, PullResampledStep
  <2>7. CASE DropInput(r)
    BY <2>7, DropStep
  <2>8. CASE RemoveTrack(r)
    BY <2>8, RemoveStep
  <2> QED
    BY <1>1, <2>1, <2>2, <2>3, <2>4, <2>5, <2>6, <2>7, <2>8 DEF ReadStep
<1>2. ASSUME NEW w \in TrackWriters, WriteStep(w)
      PROVE  MixInv'
  BY <1>2, WriteStill, WriteStoreStep, WriteWakeStep DEF WriteStep
<1>3. ASSUME NEW t \in Tracks, TrackCall(t)
      PROVE  MixInv'
  BY <1>3, CreateStep, TrackCallStep, WriteBeginStep, NewInputFailsStep DEF TrackCall
<1>4. CASE UNCHANGED mixerVars
  <2>1. UNCHANGED <<mixer, order, trackNotify, dataNotify, quiet, track, reader, writer, writes, reported>>
    BY <1>4 DEF mixerVars
  <2>2. MixerTypeOK'
    BY <2>1 DEF MixInv, MixerTypeOK
  <2>3. TracksGo /\ TracksServe
    BY <2>1, TrackSame DEF TracksGo, TracksServe, MixInv, MixerTypeOK
  <2> QED
    BY <2>1, <2>2, <2>3, CallKept DEF MixInv, Kept
<1> QED
  BY <1>1, <1>2, <1>3, <1>4, MixerCloseStep DEF MixerNext

LEMMA MixAlways == MixerSpec => []MixInv
<1>1. MixerInit => MixInv
  BY MixInit
<1>2. MixInv /\ [MixerNext]_mixerVars => MixInv'
  BY MixStep
<1> QED
  BY <1>1, <1>2, PTL DEF MixerSpec

(* The shared state of the mixer and the locals of every Read and Write keep their types: a ring
   never holds more than its size, Read never asks for more than its frame. *)
THEOREM MixerTypeCorrect == MixerSpec => []MixerTypeOK
<1>1. MixInv => MixerTypeOK
  BY DEF MixInv
<1> QED
  BY <1>1, MixAlways, PTL

(* track.Read drops an input in the output format only when all that was written to it has been
   played, and Mixer.Read removes a track only when it was failed, was closed for writing and
   has no input left, or reading its head, which is resampled, failed: what the reader saw when
   it looked is still so when it closes the input or the track, whatever writers, format
   changes and closes did in between. *)
THEOREM NativeHeadIsPlayed == MixerSpec => []NativeHeadPlayed
<1>1. MixInv => NativeHeadPlayed
  <2> SUFFICES ASSUME MixInv PROVE NativeHeadPlayed
    OBVIOUS
  <2>1. ASSUME NEW t \in Tracks, NEW i \in 1 .. track[t].first - 1,
               track[t].inputs[i].fmt = OutFormat
        PROVE  track[t].inputs[i].stored = 0
    BY <2>1 DEF MixInv, TrackShape
  <2>2. ASSUME NEW r \in MixReaders, reader[r].at = "remove"
        PROVE  LET tk == track[order[reader[r].pos]]
               IN \/ tk.closeErr \/ (tk.closeWrite /\ ~HasInput(tk))
                  \/ HasInput(tk) /\ tk.inputs[tk.first].fmt # OutFormat
    BY <2>2 DEF MixInv, Placed, ResampledHead
  <2> QED
    BY <2>1, <2>2 DEF NativeHeadPlayed
<1> QED
  BY <1>1, MixAlways, PTL

(* trackRingBuf.Write: a writer asleep on a full ring finds a token, a closed ring, data that the
   next Read will take, or another writer of the ring awake - for any number of writers that
   share the one token of a ring. *)
THEOREM SleepersAreServed == MixerSpec => []SleepersServed
<1>1. MixInv => SleepersServed
  BY DEF MixInv
<1> QED
  BY <1>1, MixAlways, PTL

(* headTrackLocked: with one reader the token of a track created between its look at the list
   and its wait is there when it waits. *)
THEOREM CreatedTrackWakes ==
  ASSUME \A r, v \in MixReaders : r = v
  PROVE  MixerSpec => []TrackWakesReader
<1>1. MixerInit => TrackWakesReader
  BY DEF MixerInit, OutsideRead, TrackWakesReader
<1>2. MixInv /\ TrackWakesReader /\ [MixerNext]_mixerVars => TrackWakesReader'
  <2> SUFFICES ASSUME MixInv, TrackWakesReader, [MixerNext]_mixerVars,
                      NEW r \in MixReaders, reader'[r].at = "waitTrack", order' # <<>>
               PROVE  trackNotify' \/ mixer'.closeWrite
    BY DEF TrackWakesReader
  <2>1. reader \in [MixReaders -> Reader] /\ mixer \in [closeErr : BOOLEAN, closeWrite : BOOLEAN]
    BY DEF MixInv, MixerTypeOK
  <2>2. ASSUME UNCHANGED <<reader, order, trackNotify>>, mixer.closeWrite => mixer'.closeWrite
        PROVE  trackNotify' \/ mixer'.closeWrite
    BY <2>2 DEF TrackWakesReader
  <2>3. ASSUME NEW v \in MixReaders, ReadCall(v) \/ ReadStep(v)
        PROVE  trackNotify' \/ mixer'.closeWrite
    <3>1. v = r
      OBVIOUS
    <3>2. CASE HeadTrack(v)
      BY <2>1, <3>1, <3>2 DEF HeadTrack, OutsideRead
    <3>3. CASE ReadCall(v) \/ TrackWakes(v) \/ WriteWakes(v)
      BY <2>1, <3>1, <3>3 DEF ReadCall, TrackWakes, WriteWakes, OutsideRead
    <3>4. CASE EnterTrack(v) \/ PullDirect(v) \/ PullResampled(v) \/ DropInput(v)
      <4>1. PICK q : reader' = [reader EXCEPT ![v] = q] /\ q.at \in {"enter", "pull", "drop", "remove"}
        BY <3>4, RoundMoves
      <4> QED
        BY <2>1, <3>1, <4>1
    <3>5. CASE RemoveTrack(v)
      BY <2>1, <3>1, <3>5 DEF RemoveTrack, Reader
    <3>6. CASE FinishRound(v)
      <4>1. PICK q : reader' = [reader EXCEPT ![v] = q] /\ q.at \in {"callback", "idle", "waitWrite"}
        BY <3>6, FinishMoves
      <4> QED
        BY <2>1, <3>1, <4>1
    <3>7. CASE ReportClosed(v)
      BY <2>1, <3>1, <3>7 DEF ReportClosed, Reader
    <3>8. CASE SettleRead(v)
      BY <2>1, <3>1, <3>8, OutsideIs, ReaderIs DEF SettleRead
    <3> QED
      BY <2>3, <3>2, <3>3, <3>4, <3>5, <3>6, <3>7, <3>8 DEF ReadStep
  <2>4. ASSUME NEW w \in TrackWriters, WriteStep(w)
        PROVE  trackNotify' \/ mixer'.closeWrite
    BY <2>2, <2>4 DEF WriteStep, WriteFails, WriteFull, WriteStore, WriteWake
  <2>5. ASSUME NEW t \in Tracks, TrackCall(t)
        PROVE  trackNotify' \/ mixer'.closeWrite
    BY <2>2, <2>5 DEF TrackCall, CreateTrack, TrackCloseWrite, TrackClose, FadeEnds,
                      SetFadeOutDuration, WriteBegin, NewInputFails
  <2>6. CASE MixerCloseWrite \/ MixerCloseWithError
    BY <2>1, <2>2, <2>6 DEF MixerCloseWrite, MixerCloseWithError
  <2>7. CASE UNCHANGED mixerVars
    BY <2>2, <2>7 DEF mixerVars
  <2> QED
    BY <2>3, <2>4, <2>5, <2>6, <2>7 DEF MixerNext
<1> QED
  BY <1>1, <1>2, MixAlways, PTL DEF MixerSpec

-----------------------------------------------------------------------------
(* Reports *)

(* A track that is not made is nowhere, and a Read outside its round and its callback has
   nothing to report. *)
GoneKept ==
  /\ \A t \in Tracks : ~track[t].made =>
       t \notin Listed /\ reported[t] = 0 /\ \A r \in MixReaders : t \notin reader[r].gone
  /\ \A r \in MixReaders : reader[r].at \notin InRound \cup {"callback"} => reader[r].gone = {}

ReportInv == ReportedOnce /\ GoneKept

(* A step that makes, lists and reports no track, and keeps what every Read has to report *)
LEMMA ReportSame ==
  ASSUME ReportInv, UNCHANGED <<order, reported>>,
         \A t \in Tracks : track'[t].made = track[t].made,
         \A r \in MixReaders : reader'[r].gone = reader[r].gone,
         \A r \in MixReaders : reader'[r].at \notin InRound \cup {"callback"} => reader'[r].gone = {}
  PROVE  ReportInv'
<1>1. Listed' = Listed
  BY DEF Listed
<1>2. ReportedOnce'
  BY <1>1 DEF ReportInv, ReportedOnce
<1>3. GoneKept'
  BY <1>1 DEF ReportInv, GoneKept
<1> QED
  BY <1>2, <1>3 DEF ReportInv

(* The same for one reader that moves *)
LEMMA ReportMoves ==
  ASSUME MixInv, ReportInv, UNCHANGED <<order, reported>>,
         \A t \in Tracks : track'[t].made = track[t].made,
         NEW r \in MixReaders, NEW q, reader' = [reader EXCEPT ![r] = q],
         q.gone = reader[r].gone, q.at \in InRound \cup {"callback"} \/ q.gone = {}
  PROVE  ReportInv'
<1>1. reader'[r] = q /\ \A v \in MixReaders \ {r} : reader'[v] = reader[v]
  BY DEF MixInv, MixerTypeOK
<1>2. ASSUME NEW v \in MixReaders
      PROVE  /\ reader'[v].gone = reader[v].gone
             /\ reader'[v].at \notin InRound \cup {"callback"} => reader'[v].gone = {}
  BY <1>1 DEF ReportInv, GoneKept
<1> QED
  BY <1>2, ReportSame

LEMMA CallsMake ==
  ASSUME MixInv,
         \/ \E t \in Tracks : TrackCloseWrite(t) \/ TrackClose(t) \/ FadeEnds(t)
         \/ \E t \in Tracks, on \in BOOLEAN : SetFadeOutDuration(t, on)
         \/ \E w \in TrackWriters, t \in Tracks, f \in Formats, n \in 1 .. MaxChunk : WriteBegin(w, t, f, n)
         \/ \E w \in TrackWriters, t \in Tracks, f \in Formats : NewInputFails(w, t, f)
         \/ MixerCloseWrite \/ MixerCloseWithError
         \/ \E w \in TrackWriters : WriteStep(w)
  PROVE  /\ \A t \in Tracks : track'[t].made = track[t].made
         /\ UNCHANGED <<order, reader, reported>>
<1>1. track \in [Tracks -> Track]
  BY DEF MixInv, MixerTypeOK
<1>2. ASSUME NEW tk \in Track
      PROVE  /\ WriteClosed(tk).made = tk.made /\ CtrlClosed(tk).made = tk.made
             /\ [Failed(tk) EXCEPT !.fading = FALSE].made = tk.made
  BY WriteClosedIs, CtrlClosedIs, FadeEndsIs DEF TrackGoes
<1>3. ASSUME NEW t \in Tracks, TrackCloseWrite(t) \/ TrackClose(t) \/ FadeEnds(t)
      PROVE  \A u \in Tracks : track'[u].made = track[u].made
  BY <1>1, <1>2, <1>3 DEF TrackCloseWrite, TrackClose, FadeEnds
<1>4. ASSUME NEW t \in Tracks, NEW on \in BOOLEAN, SetFadeOutDuration(t, on)
      PROVE  \A u \in Tracks : track'[u].made = track[u].made
  BY <1>1, <1>4 DEF SetFadeOutDuration, Track
<1>5. ASSUME NEW w \in TrackWriters, NEW t \in Tracks, NEW f \in Formats, NEW n \in 1 .. MaxChunk,
             WriteBegin(w, t, f, n)
      PROVE  \A u \in Tracks : track'[u].made = track[u].made
  <2>1. PICK s : track' = [track EXCEPT ![t].inputs = s]
    BY <1>5 DEF WriteBegin
  <2> QED
    BY <1>1, <2>1 DEF Track
<1>9. ASSUME NEW w \in TrackWriters, NEW t \in Tracks, NEW f \in Formats, NewInputFails(w, t, f)
      PROVE  \A u \in Tracks : track'[u].made = track[u].made
  BY <1>1, <1>9 DEF NewInputFails, Track
<1>6. CASE MixerCloseWrite \/ MixerCloseWithError
  <2>1. \A u \in Tracks : track'[u] \in {track[u], WriteClosed(track[u]), CtrlClosed(track[u])}
    BY <1>6 DEF MixerCloseWrite, MixerCloseWithError
  <2> QED
    BY <1>1, <1>2, <1>6, <2>1 DEF MixerCloseWrite, MixerCloseWithError
<1>7. ASSUME NEW w \in TrackWriters, WriteStep(w)
      PROVE  \A u \in Tracks : track'[u].made = track[u].made
  <2>1. CASE WriteFails(w) \/ WriteFull(w)
    BY <2>1 DEF WriteFails, WriteFull
  <2>2. CASE WriteStore(w) \/ WriteWake(w)
    <3>1. PICK b : track' = [track EXCEPT ![writer[w].track].inputs[writer[w].input] = b]
      BY <2>2 DEF WriteStore, WriteWake
    <3> QED
      BY <3>1, MadeSame
  <2> QED
    BY <1>7, <2>1, <2>2 DEF WriteStep
<1>8. UNCHANGED <<order, reader, reported>>
  BY DEF TrackCloseWrite, TrackClose, FadeEnds, SetFadeOutDuration, WriteBegin, NewInputFails,
         MixerCloseWrite, MixerCloseWithError, WriteStep, WriteFails, WriteFull, WriteStore, WriteWake
<1> QED
  BY <1>3, <1>4, <1>5, <1>6, <1>7, <1>8, <1>9

LEMMA ReportCreate ==
  ASSUME MixInv, ReportInv, NEW t \in Tracks, CreateTrack(t)
  PROVE  ReportInv'
<1>1. /\ order \in Seq(Tracks) /\ track \in [Tracks -> Track] /\ ~track[t].made
      /\ order' = <<t>> \o order /\ UNCHANGED <<reader, reported>>
  BY DEF CreateTrack, MixInv, MixerTypeOK
<1>2. /\ track'[t].made = TRUE /\ \A u \in Tracks \ {t} : track'[u] = track[u]
  BY <1>1 DEF CreateTrack, Track
<1>3. /\ t \notin Listed /\ reported[t] = 0 /\ \A r \in MixReaders : t \notin reader[r].gone
  BY <1>1 DEF ReportInv, GoneKept
<1>4. /\ Len(order') = Len(order) + 1 /\ Len(order) \in Nat
      /\ \A i \in 1 .. Len(order') : order'[i] = IF i = 1 THEN t ELSE order[i - 1]
  BY <1>1
<1>5. ASSUME NEW i \in 1 .. Len(order'), NEW j \in 1 .. Len(order'), order'[i] = order'[j]
      PROVE  i = j
  <2>1. \A k \in 1 .. Len(order) : order[k] # t
    BY <1>3 DEF Listed
  <2>2. CASE i = 1 \/ j = 1
    <3>1. i # 1 => i - 1 \in 1 .. Len(order)
      BY <1>4
    <3>2. j # 1 => j - 1 \in 1 .. Len(order)
      BY <1>4
    <3> QED
      BY <1>4, <1>5, <2>1, <2>2, <3>1, <3>2
  <2>3. CASE i # 1 /\ j # 1
    <3>1. i - 1 \in 1 .. Len(order) /\ j - 1 \in 1 .. Len(order) /\ order[i - 1] = order[j - 1]
      BY <1>4, <1>5, <2>3
    <3>2. i - 1 = j - 1
      BY <3>1 DEF ReportInv, ReportedOnce
    <3> QED
      BY <1>4, <3>2
  <2> QED
    BY <2>2, <2>3
<1>6. \A u \in Tracks : u \in Listed' <=> u = t \/ u \in Listed
  <2> SUFFICES ASSUME NEW u \in Tracks PROVE u \in Listed' <=> u = t \/ u \in Listed
    OBVIOUS
  <2>1. ASSUME u \in Listed' PROVE u = t \/ u \in Listed
    <3>1. PICK i \in 1 .. Len(order') : u = order'[i]
      BY <2>1 DEF Listed
    <3>2. i # 1 => i - 1 \in 1 .. Len(order)
      BY <1>4
    <3> QED
      BY <1>4, <3>1, <3>2 DEF Listed
  <2>2. ASSUME u = t PROVE u \in Listed'
    BY <1>4, <2>2 DEF Listed
  <2>3. ASSUME u \in Listed PROVE u \in Listed'
    <3>1. PICK i \in 1 .. Len(order) : u = order[i]
      BY <2>3 DEF Listed
    <3>2. i + 1 \in 1 .. Len(order') /\ order'[i + 1] = u
      BY <1>4, <3>1
    <3> QED
      BY <3>2 DEF Listed
  <2> QED
    BY <2>1, <2>2, <2>3
<1>7. ASSUME NEW u \in Tracks
      PROVE  /\ reported'[u] <= 1
             /\ u \in Listed' => reported'[u] = 0 /\ \A r \in MixReaders : u \notin reader'[r].gone
             /\ \A r \in MixReaders : u \in reader'[r].gone =>
                  reported'[u] = 0 /\ \A v \in MixReaders \ {r} : u \notin reader'[v].gone
             /\ Reporting /\ track'[u].made /\ u \notin Listed' /\ reported'[u] = 0 =>
                  \E r \in MixReaders : u \in reader'[r].gone
  BY <1>1, <1>2, <1>3, <1>6 DEF ReportInv, ReportedOnce
<1>8. ReportedOnce'
  BY <1>5, <1>7 DEF ReportedOnce
<1>9. GoneKept'
  BY <1>1, <1>2, <1>6 DEF ReportInv, GoneKept
<1> QED
  BY <1>8, <1>9 DEF ReportInv

LEMMA ReportRemove ==
  ASSUME MixInv, ReportInv, NEW r \in MixReaders, RemoveTrack(r)
  PROVE  ReportInv'
<1>1. /\ reader[r].at = "remove" /\ reader[r] \in Reader /\ order \in Seq(Tracks)
      /\ track \in [Tracks -> Track] /\ reported' = reported
  BY ReaderIs DEF RemoveTrack, MixInv, MixerTypeOK
<1>2. PICK p : p = reader[r].pos
  OBVIOUS
<1>3. PICK t : t = order[p]
  OBVIOUS
<1>4. p \in 1 .. Len(order) /\ t \in Tracks /\ Len(order) \in Nat
  <2>1. Placed(reader[r])
    BY DEF MixInv
  <2>2. p <= Len(order)
    BY <1>1, <1>2, <2>1, Zenon DEF Placed
  <2>3. p \in 1 .. Len(order)
    BY <1>1, <1>2, <2>2, ReaderIs
  <2> QED
    BY <1>1, <1>3, <2>3
<1>5. \A u \in Tracks : track'[u].made = track[u].made
  <2>1. track[t] \in Track /\ track' = [track EXCEPT ![t] = CtrlClosed(track[t])]
    BY <1>1, <1>2, <1>3, <1>4 DEF RemoveTrack
  <2>2. CtrlClosed(track[t]).made = track[t].made
    BY <2>1, CtrlClosedIs DEF TrackGoes
  <2> QED
    BY <1>1, <2>1, <2>2
<1>6. /\ reader'[r].gone = reader[r].gone \cup {t} /\ reader'[r].at = "enter"
      /\ \A v \in MixReaders \ {r} : reader'[v] = reader[v]
  <2>1. reader' = [reader EXCEPT ![r] =
          [reader[r] EXCEPT !.at = "enter", !.again = FALSE, !.gone = @ \cup {t}]]
    BY <1>2, <1>3 DEF RemoveTrack
  <2> QED
    BY <1>1, <2>1 DEF MixInv, MixerTypeOK, Reader
<1>7. /\ Len(order') = Len(order) - 1
      /\ \A i \in 1 .. Len(order') : order'[i] = IF i < p THEN order[i] ELSE order[i + 1]
  <2> DEFINE a == SubSeq(order, 1, p - 1)
             b == SubSeq(order, p + 1, Len(order))
  <2>1. order' = a \o b
    BY <1>2 DEF RemoveTrack
  <2>2. /\ a \in Seq(Tracks) /\ Len(a) = p - 1 /\ \A i \in 1 .. p - 1 : a[i] = order[i]
        /\ b \in Seq(Tracks) /\ Len(b) = Len(order) - p
        /\ \A i \in 1 .. Len(order) - p : b[i] = order[p + i]
    BY <1>1, <1>4, SubSeqProperties
  <2> HIDE DEF a, b
  <2>3. Len(order') = Len(order) - 1
    BY <1>4, <2>1, <2>2, ConcatProperties
  <2>4. ASSUME NEW i \in 1 .. Len(order')
        PROVE  order'[i] = IF i < p THEN order[i] ELSE order[i + 1]
    <3>1. order'[i] = IF i <= Len(a) THEN a[i] ELSE b[i - Len(a)]
      BY <1>4, <2>1, <2>2, <2>3, ConcatProperties
    <3>2. CASE i < p
      BY <1>4, <2>2, <3>1, <3>2
    <3>3. CASE ~(i < p)
      <4>1. i - (p - 1) \in 1 .. Len(order) - p /\ p + (i - (p - 1)) = i + 1
        BY <1>4, <2>3, <3>3
      <4> QED
        BY <1>4, <2>2, <3>1, <3>3, <4>1
    <3> QED
      BY <3>2, <3>3
  <2> QED
    BY <2>3, <2>4
<1>8. \A i, j \in 1 .. Len(order) : order[i] = order[j] => i = j
  BY DEF ReportInv, ReportedOnce
<1>9. ASSUME NEW i \in 1 .. Len(order'), NEW j \in 1 .. Len(order'), order'[i] = order'[j]
      PROVE  i = j
  <2> DEFINE F(k) == IF k < p THEN k ELSE k + 1
  <2>1. \A k \in 1 .. Len(order') : F(k) \in 1 .. Len(order) /\ order'[k] = order[F(k)]
    BY <1>4, <1>7
  <2>2. F(i) = F(j)
    <3> HIDE DEF F
    <3> QED
      BY <1>8, <1>9, <2>1
  <2> QED
    BY <1>4, <1>7, <2>2
<1>10. \A u \in Tracks : u \in Listed' <=> u # t /\ u \in Listed
  <2> SUFFICES ASSUME NEW u \in Tracks PROVE u \in Listed' <=> u # t /\ u \in Listed
    OBVIOUS
  <2>1. ASSUME u \in Listed' PROVE u # t /\ u \in Listed
    <3>1. PICK i \in 1 .. Len(order') : u = order'[i]
      BY <2>1 DEF Listed
    <3>2. PICK k \in 1 .. Len(order) : k # p /\ u = order[k]
      BY <1>4, <1>7, <3>1
    <3> QED
      BY <1>3, <1>4, <1>8, <3>2 DEF Listed
  <2>2. ASSUME u # t, u \in Listed PROVE u \in Listed'
    <3>1. PICK k \in 1 .. Len(order) : u = order[k]
      BY <2>2 DEF Listed
    <3>2. k # p
      BY <1>3, <2>2, <3>1
    <3>3. CASE k < p
      <4>1. k \in 1 .. Len(order') /\ order'[k] = u
        BY <1>4, <1>7, <3>1, <3>3
      <4> QED
        BY <4>1 DEF Listed
    <3>4. CASE k > p
      <4>1. k - 1 \in 1 .. Len(order') /\ order'[k - 1] = u
        BY <1>4, <1>7, <3>1, <3>4
      <4> QED
        BY <4>1 DEF Listed
    <3> QED
      BY <1>4, <3>2, <3>3, <3>4
  <2> QED
    BY <2>1, <2>2
<1>11. t \in Listed /\ reported[t] = 0 /\ \A v \in MixReaders : t \notin reader[v].gone
  <2>1. t \in Listed
    BY <1>3, <1>4 DEF Listed
  <2> QED
    BY <1>4, <2>1 DEF ReportInv, ReportedOnce
<1>12. ASSUME NEW u \in Tracks, NEW v \in MixReaders
       PROVE  u \in reader'[v].gone <=> u \in reader[v].gone \/ (v = r /\ u = t)
  BY <1>6
<1>13. ASSUME NEW u \in Tracks
       PROVE  /\ reported'[u] <= 1
              /\ u \in Listed' => reported'[u] = 0 /\ \A v \in MixReaders : u \notin reader'[v].gone
              /\ \A v \in MixReaders : u \in reader'[v].gone =>
                   reported'[u] = 0 /\ \A w \in MixReaders \ {v} : u \notin reader'[w].gone
              /\ Reporting /\ track'[u].made /\ u \notin Listed' /\ reported'[u] = 0 =>
                   \E v \in MixReaders : u \in reader'[v].gone
  <2>1. CASE u = t
    BY <1>1, <1>10, <1>11, <1>12, <2>1
  <2>2. CASE u # t
    BY <1>1, <1>5, <1>10, <1>12, <2>2 DEF ReportInv, ReportedOnce
  <2> QED
    BY <2>1, <2>2
<1>14. ReportedOnce'
  BY <1>9, <1>13 DEF ReportedOnce
<1>15. GoneKept'
  <2>1. ASSUME NEW u \in Tracks, ~track'[u].made
        PROVE  u \notin Listed' /\ reported'[u] = 0 /\ \A v \in MixReaders : u \notin reader'[v].gone
    <3>1. u \notin Listed /\ reported[u] = 0 /\ \A v \in MixReaders : u \notin reader[v].gone
      BY <1>5, <2>1 DEF ReportInv, GoneKept
    <3> QED
      BY <1>1, <1>10, <1>11, <1>12, <3>1
  <2>2. ASSUME NEW v \in MixReaders, reader'[v].at \notin InRound \cup {"callback"}
        PROVE  reader'[v].gone = {}
    BY <1>6, <2>2 DEF ReportInv, GoneKept, InRound
  <2> QED
    BY <2>1, <2>2 DEF GoneKept
<1> QED
  BY <1>14, <1>15 DEF ReportInv

(* A round ends: its report is kept, or there is none to make. *)
LEMMA ReportFinish ==
  ASSUME MixInv, ReportInv, NEW r \in MixReaders, FinishRound(r)
  PROVE  ReportInv'
<1>1. PICK q : /\ reader' = [reader EXCEPT ![r] = q]
               /\ \/ q.at = "callback" /\ q.gone = reader[r].gone
                  \/ ~Calls(reader[r]) /\ q.at \in {"idle", "waitWrite"} /\ q.gone = {}
  BY FinishMoves
<1>2. UNCHANGED <<order, reported, track>>
  BY DEF FinishRound
<1>3. CASE q.gone = reader[r].gone
  BY <1>1, <1>2, <1>3, ReportMoves
<1>4. CASE ~Reporting /\ q.gone = {}
  <2>1. reader'[r] = q /\ \A v \in MixReaders \ {r} : reader'[v] = reader[v]
    BY <1>1 DEF MixInv, MixerTypeOK
  <2>2. \A v \in MixReaders : reader'[v].gone = reader[v].gone \/ reader'[v].gone = {}
    BY <1>4, <2>1
  <2>3. Listed' = Listed
    BY <1>2 DEF Listed
  <2>4. ReportedOnce'
    BY <1>2, <1>4, <2>2, <2>3 DEF ReportInv, ReportedOnce
  <2>5. GoneKept'
    BY <1>2, <1>4, <2>1, <2>2, <2>3 DEF ReportInv, GoneKept
  <2> QED
    BY <2>4, <2>5 DEF ReportInv
<1> QED
  BY <1>1, <1>3, <1>4 DEF Calls

LEMMA ReportMade ==
  ASSUME MixInv, ReportInv, NEW r \in MixReaders, ReportClosed(r)
  PROVE  ReportInv'
<1>1. /\ reader[r].at = "callback" /\ reader[r] \in Reader /\ UNCHANGED <<order, track>>
      /\ \A t \in Tracks : reported'[t] = IF t \in reader[r].gone THEN reported[t] + 1 ELSE reported[t]
  BY ReaderIs DEF ReportClosed
<1>2. /\ reader'[r].gone = {} /\ reader'[r].at = "settle"
      /\ \A v \in MixReaders \ {r} : reader'[v] = reader[v]
  BY <1>1 DEF ReportClosed, MixInv, MixerTypeOK, Reader
<1>3. Listed' = Listed
  BY <1>1 DEF Listed
<1>4. \A t \in Tracks : reported[t] \in Nat
  BY DEF MixInv, MixerTypeOK
<1>5. ASSUME NEW u \in Tracks, NEW v \in MixReaders
      PROVE  u \in reader'[v].gone <=> u \in reader[v].gone /\ v # r
  BY <1>2
<1>6. ASSUME NEW u \in Tracks
      PROVE  /\ reported'[u] <= 1
             /\ u \in Listed' => reported'[u] = 0 /\ \A v \in MixReaders : u \notin reader'[v].gone
             /\ \A v \in MixReaders : u \in reader'[v].gone =>
                  reported'[u] = 0 /\ \A w \in MixReaders \ {v} : u \notin reader'[w].gone
             /\ Reporting /\ track'[u].made /\ u \notin Listed' /\ reported'[u] = 0 =>
                  \E v \in MixReaders : u \in reader'[v].gone
  <2>1. CASE u \in reader[r].gone
    <3>1. /\ reported[u] = 0 /\ u \notin Listed
          /\ \A v \in MixReaders : u \in reader[v].gone => v = r
      BY <2>1 DEF ReportInv, ReportedOnce
    <3>2. reported'[u] = 1
      BY <1>1, <2>1, <3>1
    <3> QED
      BY <1>3, <1>5, <3>1, <3>2
  <2>2. CASE u \notin reader[r].gone
    <3>1. reported'[u] = reported[u]
      BY <1>1, <2>2
    <3>2. \A v \in MixReaders : u \in reader'[v].gone <=> u \in reader[v].gone
      BY <1>5, <2>2
    <3> QED
      BY <1>1, <1>3, <3>1, <3>2 DEF ReportInv, ReportedOnce
  <2> QED
    BY <2>1, <2>2
<1>7. ReportedOnce'
  <2>1. \A i, j \in 1 .. Len(order') : order'[i] = order'[j] => i = j
    BY <1>1 DEF ReportInv, ReportedOnce
  <2> QED
    BY <1>6, <2>1 DEF ReportedOnce
<1>8. GoneKept'
  <2>1. ASSUME NEW u \in Tracks, ~track'[u].made
        PROVE  u \notin Listed' /\ reported'[u] = 0 /\ \A v \in MixReaders : u \notin reader'[v].gone
    <3>1. u \notin Listed /\ reported[u] = 0 /\ \A v \in MixReaders : u \notin reader[v].gone
      BY <1>1, <2>1 DEF ReportInv, GoneKept
    <3> QED
      BY <1>1, <1>3, <1>5, <3>1
  <2>2. ASSUME NEW v \in MixReaders, reader'[v].at \notin InRound \cup {"callback"}
        PROVE  reader'[v].gone = {}
    BY <1>2, <2>2 DEF ReportInv, GoneKept
  <2> QED
    BY <2>1, <2>2 DEF GoneKept
<1> QED
  BY <1>7, <1>8 DEF ReportInv

LEMMA ReportStep ==
  ASSUME MixInv, ReportInv, [MixerNext]_mixerVars
  PROVE  ReportInv'
<1>1. ASSUME NEW r \in MixReaders, ReadCall(r) \/ ReadStep(r)
      PROVE  ReportInv'
  <2>1. reader[r] \in Reader
    BY ReaderIs
  <2>2. CASE ReadCall(r) \/ HeadTrack(r) \/ TrackWakes(r) \/ WriteWakes(r) \/ SettleRead(r)
    <3>1. reader[r].gone = {}
      BY <2>2 DEF ReadCall, HeadTrack, TrackWakes, WriteWakes, SettleRead, ReportInv, GoneKept, InRound
    <3>2. UNCHANGED <<order, reported, track>>
      BY <2>2 DEF ReadCall, HeadTrack, TrackWakes, WriteWakes, SettleRead
    <3>3. PICK q \in {OutsideRead, [OutsideRead EXCEPT !.at = "retry"], [OutsideRead EXCEPT !.at = "enter"],
                      [OutsideRead EXCEPT !.at = "waitTrack"], [OutsideRead EXCEPT !.at = "waitWrite"]} :
            reader' = [reader EXCEPT ![r] = q]
      BY <2>2 DEF ReadCall, HeadTrack, TrackWakes, WriteWakes, SettleRead, Settled
    <3>4. q.gone = {}
      BY <3>3 DEF OutsideRead
    <3> QED
      BY <3>1, <3>2, <3>3, <3>4, ReportMoves
  <2>3. CASE EnterTrack(r) \/ PullDirect(r) \/ PullResampled(r) \/ DropInput(r)
    <3>1. PICK q : /\ reader' = [reader EXCEPT ![r] = q] /\ q.gone = reader[r].gone
                   /\ q.at \in {"enter", "pull", "drop", "remove"}
      BY <2>3, RoundMoves
    <3>2. /\ \A t \in Tracks : track'[t].made = track[t].made
          /\ UNCHANGED <<order, reported>>
      BY <2>3, RoundMoves
    <3>3. q.at \in InRound
      BY <3>1 DEF InRound
    <3> QED
      BY <3>1, <3>2, <3>3, ReportMoves
  <2> QED
    BY <1>1, <2>2, <2>3, ReportRemove, ReportFinish, ReportMade DEF ReadStep
<1>2. CASE \E t \in Tracks : CreateTrack(t)
  BY <1>2, ReportCreate
<1>3. CASE /\ \A t \in Tracks : track'[t].made = track[t].made
           /\ UNCHANGED <<order, reader, reported>>
  BY <1>3, ReportSame DEF ReportInv, GoneKept
<1>4. CASE UNCHANGED mixerVars
  BY <1>3, <1>4 DEF mixerVars
<1>5. ASSUME NEW t \in Tracks, TrackCall(t)
      PROVE  ReportInv'
  BY <1>2, <1>3, <1>5, CallsMake DEF TrackCall
<1> QED
  BY <1>1, <1>3, <1>4, <1>5, CallsMake DEF MixerNext

(* headTrackLocked and readFull: a track is in the list once until one Read takes it out, and
   that Read reports it once, whatever callbacks without the lock and other Reads do. *)
THEOREM EachReportedOnce == MixerSpec => []ReportedOnce
<1>1. MixerInit => ReportInv
  <2> SUFFICES ASSUME MixerInit PROVE ReportInv
    OBVIOUS
  <2>1. /\ Listed = {} /\ order = <<>> /\ \A t \in Tracks : reported[t] = 0 /\ ~track[t].made
        /\ \A r \in MixReaders : reader[r].gone = {}
    BY DEF MixerInit, Listed, NoTrackYet, OutsideRead
  <2> QED
    BY <2>1 DEF ReportInv, ReportedOnce, GoneKept
<1>2. MixInv /\ ReportInv /\ [MixerNext]_mixerVars => ReportInv'
  BY ReportStep
<1>3. ReportInv => ReportedOnce
  BY DEF ReportInv
<1> QED
  BY <1>1, <1>2, <1>3, MixAlways, PTL DEF MixerSpec

-----------------------------------------------------------------------------
(* The ring buffer of a track *)

LEMMA RingIs ==
  ASSUME RingTypeOK
  PROVE  /\ rb \in [0 .. RingLen - 1 -> 0 .. MaxPut]
         /\ rhead \in Nat /\ rtail \in Nat /\ rput \in Nat /\ RingLen \in Nat /\ MaxPut \in Nat
         /\ RingLen > 0 /\ rhead < RingLen /\ rhead <= rtail /\ rtail <= rhead + RingLen
         /\ rput <= MaxPut
BY TrackRingAssumption DEF RingTypeOK

LEMMA CopyIs ==
  ASSUME NEW s, NEW lo, NEW hi, NEW p, NEW from
  PROVE  CopyInto(s, lo, hi, p, from)
           = [i \in DOMAIN s |-> CopyInto(s, lo, hi, p, from)[i]]
BY DEF CopyInto

(* Where the copies of write put the values: k of them fit, in the places behind the tail. *)
LEMMA PutStores ==
  ASSUME RingTypeOK, NEW n \in Nat, n <= MaxPut - rput, rtail - rhead # RingLen,
         StoreWithin([i \in 1 .. n |-> rput + i])
  PROVE  LET k == Lower(n, RingLen - (rtail - rhead))
         IN /\ k \in Nat /\ rtail' = rtail + k /\ rput' = rput + k
            /\ rb' = [j \in 0 .. RingLen - 1 |-> rb'[j]]
            /\ \A j \in 0 .. RingLen - 1 :
                 rb'[j] = IF rtail <= j /\ j < rtail + k THEN rput + (j - rtail) + 1
                          ELSE IF rtail <= j + RingLen /\ j + RingLen < rtail + k
                          THEN rput + (j + RingLen - rtail) + 1
                          ELSE rb[j]
<1> DEFINE p == [i \in 1 .. n |-> rput + i]
           k == Lower(n, RingLen - (rtail - rhead))
           n1 == IF rtail < RingLen THEN Lower(RingLen - rtail, n) ELSE 0
           buf == IF rtail < RingLen THEN CopyInto(rb, rtail, RingLen, p, 0) ELSE rb
           over == rtail + n1 - RingLen
           m == Wrapped(over, n - n1)
<1>1. Len(p) = n /\ \A i \in 1 .. n : p[i] = rput + i
  OBVIOUS
<1>2. /\ rb' = IF over >= 0 THEN CopyInto(buf, over, rhead, p, n1) ELSE buf
      /\ rtail' = rtail + n1 + m /\ rput' = rput + n1 + m
  BY <1>1 DEF StoreWithin
<1> HIDE DEF p
<1>3. /\ rhead \in Nat /\ rtail \in Nat /\ rput \in Nat /\ RingLen \in Nat
      /\ RingLen > 0 /\ rhead < RingLen /\ rhead <= rtail /\ rtail < rhead + RingLen
      /\ DOMAIN rb = 0 .. RingLen - 1
  BY RingIs
<1>4. ASSUME rtail >= RingLen
      PROVE  /\ n1 = 0 /\ m = k /\ k \in Nat /\ k <= n /\ rtail + k <= rhead + RingLen
             /\ rb' = CopyInto(rb, rtail - RingLen, rhead, p, 0)
             /\ k = Lower(rhead - (rtail - RingLen), n)
  BY <1>2, <1>3, <1>4 DEF Lower, Wrapped
<1>5. ASSUME rtail < RingLen, rtail + n < RingLen
      PROVE  /\ n1 = n /\ m = 0 /\ k = n /\ rb' = CopyInto(rb, rtail, RingLen, p, 0)
  BY <1>2, <1>3, <1>5 DEF Lower, Wrapped
<1>6. ASSUME rtail < RingLen, rtail + n >= RingLen
      PROVE  /\ n1 = RingLen - rtail /\ m = Lower(rhead, n - n1) /\ k = n1 + m /\ m \in Nat /\ k <= n
             /\ m <= rhead
             /\ rb' = CopyInto(CopyInto(rb, rtail, RingLen, p, 0), 0, rhead, p, n1)
  BY <1>2, <1>3, <1>6 DEF Lower, Wrapped
<1> DEFINE Stored == /\ k \in Nat /\ rtail' = rtail + k /\ rput' = rput + k
                     /\ rb' = [j \in 0 .. RingLen - 1 |-> rb'[j]]
                     /\ \A j \in 0 .. RingLen - 1 :
                          rb'[j] = IF rtail <= j /\ j < rtail + k THEN rput + (j - rtail) + 1
                                   ELSE IF rtail <= j + RingLen /\ j + RingLen < rtail + k
                                   THEN rput + (j + RingLen - rtail) + 1
                                   ELSE rb[j]
<1> HIDE DEF n1, m, k
<1>7. ASSUME rtail >= RingLen PROVE Stored
  <2>1. Lower(rhead - (rtail - RingLen), Len(p) - 0) = k
    BY <1>1, <1>4, <1>7
  <2>2. /\ DOMAIN rb' = 0 .. RingLen - 1
        /\ \A j \in 0 .. RingLen - 1 :
             rb'[j] = IF rtail - RingLen <= j /\ j < rtail - RingLen + k
                      THEN p[0 + j - (rtail - RingLen) + 1] ELSE rb[j]
    BY <1>3, <1>4, <1>7, <2>1 DEF CopyInto
  <2>3. \A j \in 0 .. RingLen - 1 : rtail - RingLen <= j /\ j < rtail - RingLen + k =>
          p[0 + j - (rtail - RingLen) + 1] = rput + (j + RingLen - rtail) + 1
    BY <1>1, <1>3, <1>4, <1>7
  <2>4. rb' = [j \in 0 .. RingLen - 1 |-> rb'[j]]
    <3>1. PICK lo, hi : rb' = CopyInto(rb, lo, hi, p, 0)
      BY <1>4, <1>7
    <3> QED
      BY <1>3, <3>1, CopyIs
  <2>11. k \in Nat /\ rtail' = rtail + k /\ rput' = rput + k
    BY <1>2, <1>3, <1>4, <1>7
  <2>12. ASSUME NEW j \in 0 .. RingLen - 1
         PROVE  rb'[j] = IF rtail <= j /\ j < rtail + k THEN rput + (j - rtail) + 1
                      ELSE IF rtail <= j + RingLen /\ j + RingLen < rtail + k
                      THEN rput + (j + RingLen - rtail) + 1
                      ELSE rb[j]
    <3>1. /\ ~(rtail <= j)
          /\ rtail - RingLen <= j <=> rtail <= j + RingLen
          /\ j < rtail - RingLen + k <=> j + RingLen < rtail + k
      BY <1>3, <1>7, <2>11
    <3> QED
      BY <2>2, <2>3, <3>1
  <2> QED
    BY <2>4, <2>11, <2>12
<1>8. ASSUME rtail < RingLen, rtail + n < RingLen PROVE Stored
  <2>1. Lower(RingLen - rtail, Len(p) - 0) = n
    BY <1>1, <1>3, <1>8 DEF Lower
  <2>2. /\ DOMAIN rb' = 0 .. RingLen - 1
        /\ \A j \in 0 .. RingLen - 1 :
             rb'[j] = IF rtail <= j /\ j < rtail + n THEN p[0 + j - rtail + 1] ELSE rb[j]
    BY <1>3, <1>5, <1>8, <2>1 DEF CopyInto
  <2>3. \A j \in 0 .. RingLen - 1 : rtail <= j /\ j < rtail + n =>
          p[0 + j - rtail + 1] = rput + (j - rtail) + 1
    BY <1>1, <1>3, <1>8
  <2>11. k \in Nat /\ rtail' = rtail + k /\ rput' = rput + k
    BY <1>2, <1>3, <1>5, <1>8
  <2>12. ASSUME NEW j \in 0 .. RingLen - 1
         PROVE  rb'[j] = IF rtail <= j /\ j < rtail + k THEN rput + (j - rtail) + 1
                      ELSE IF rtail <= j + RingLen /\ j + RingLen < rtail + k
                      THEN rput + (j + RingLen - rtail) + 1
                      ELSE rb[j]
    BY <1>3, <1>5, <1>8, <2>2, <2>3
  <2>13. rb' = [j \in 0 .. RingLen - 1 |-> rb'[j]]
    BY <1>3, <1>5, <1>8, CopyIs
  <2> QED
    BY <2>11, <2>12, <2>13
<1>9. ASSUME rtail < RingLen, rtail + n >= RingLen PROVE Stored
  <2> DEFINE s == CopyInto(rb, rtail, RingLen, p, 0)
  <2>1. Lower(RingLen - rtail, Len(p) - 0) = n1 /\ n1 <= n /\ n1 \in Nat
    BY <1>1, <1>3, <1>6, <1>9 DEF Lower
  <2>2. /\ DOMAIN s = 0 .. RingLen - 1
        /\ \A j \in 0 .. RingLen - 1 : s[j] = IF rtail <= j THEN rput + (j - rtail) + 1 ELSE rb[j]
    BY <1>1, <1>3, <1>6, <1>9, <2>1 DEF CopyInto
  <2> HIDE DEF s
  <2>3. rb' = CopyInto(s, 0, rhead, p, n1) /\ Lower(rhead - 0, Len(p) - n1) = m
    BY <1>1, <1>3, <1>6, <1>9, <2>1 DEF s
  <2>4. /\ DOMAIN rb' = 0 .. RingLen - 1
        /\ \A j \in 0 .. RingLen - 1 :
             rb'[j] = IF 0 <= j /\ j < 0 + m THEN p[n1 + j - 0 + 1] ELSE s[j]
    BY <1>3, <2>2, <2>3 DEF CopyInto
  <2>5. \A j \in 0 .. RingLen - 1 : j < m => p[n1 + j - 0 + 1] = rput + n1 + j + 1
    BY <1>1, <1>3, <1>6, <1>9, <2>1
  <2>6. n1 = RingLen - rtail /\ k = n1 + m /\ m \in Nat /\ m <= rhead
    BY <1>6, <1>9
  <2>7. rtail' = rtail + n1 + m /\ rput' = rput + n1 + m
    BY <1>2
  <2>11. k \in Nat /\ rtail' = rtail + k /\ rput' = rput + k
    BY <1>3, <2>1, <2>6, <2>7
  <2>12. ASSUME NEW j \in 0 .. RingLen - 1
         PROVE  rb'[j] = IF rtail <= j /\ j < rtail + k THEN rput + (j - rtail) + 1
                      ELSE IF rtail <= j + RingLen /\ j + RingLen < rtail + k
                      THEN rput + (j + RingLen - rtail) + 1
                      ELSE rb[j]
    <3>1. /\ rtail + k = RingLen + m /\ n1 = RingLen - rtail /\ m <= rtail /\ m <= RingLen
          /\ m \in Nat /\ k \in Nat
      BY <1>3, <2>1, <2>6
    <3>2. CASE j < m
      <4>1. rb'[j] = rput + n1 + j + 1
        <5>1. p[n1 + j - 0 + 1] = rput + n1 + j + 1
          BY <2>5, <3>2
        <5>2. 0 <= j /\ j < 0 + m
          BY <1>3, <2>6, <3>2
        <5>3. rb'[j] = p[n1 + j - 0 + 1]
          BY <2>4, <5>2
        <5> QED
          BY <5>1, <5>3
      <4> QED
        <5>1. /\ ~(rtail <= j) /\ rtail <= j + RingLen /\ j + RingLen < rtail + k
              /\ rput + (j + RingLen - rtail) + 1 = rput + n1 + j + 1
          BY <1>3, <1>9, <3>1, <3>2
        <5> QED
          BY <4>1, <5>1
    <3>3. CASE ~(j < m)
      <4>1. rb'[j] = IF rtail <= j THEN rput + (j - rtail) + 1 ELSE rb[j]
        <5>1. rb'[j] = s[j]
          BY <1>3, <2>4, <2>6, <3>3
        <5> QED
          BY <2>2, <5>1
      <4> QED
        BY <1>3, <1>9, <3>1, <3>3, <4>1
    <3> QED
      BY <3>2, <3>3
  <2>13. rb' = [j \in 0 .. RingLen - 1 |-> rb'[j]]
    <3>1. PICK lo, hi : rb' = CopyInto(s, lo, hi, p, n1) /\ DOMAIN s = 0 .. RingLen - 1
      BY <2>2, <2>3
    <3> QED
      BY <3>1 DEF CopyInto
  <2> QED
    BY <2>11, <2>12, <2>13
<1>10. Stored
  BY <1>3, <1>7, <1>8, <1>9
<1> QED
  BY <1>10 DEF k

LEMMA FunIsSeq ==
  ASSUME NEW S, NEW n \in Nat, NEW f \in [1 .. n -> S]
  PROVE  f \in Seq(S) /\ Len(f) = n
BY SeqDef

(* The queue that a ring stands for *)
LEMMA QueueIs ==
  ASSUME NEW b \in [0 .. RingLen - 1 -> 0 .. MaxPut], NEW h \in Nat, NEW t \in Nat,
         h < RingLen, h <= t, t <= h + RingLen
  PROVE  LET q == [i \in 1 .. t - h |-> b[Place(h + i - 1)]]
         IN /\ q \in Seq(0 .. MaxPut) /\ Len(q) = t - h
            /\ \A i \in 1 .. t - h : q[i] = b[Place(h + i - 1)] /\ q[i] \in 0 .. MaxPut
<1> DEFINE q == [i \in 1 .. t - h |-> b[Place(h + i - 1)]]
<1>1. \A i \in 1 .. t - h : Place(h + i - 1) \in 0 .. RingLen - 1
  BY TrackRingAssumption DEF Place
<1>2. q \in [1 .. t - h -> 0 .. MaxPut]
  BY <1>1
<1>5. t - h \in Nat
  OBVIOUS
<1>3. \A i \in 1 .. t - h : q[i] = b[Place(h + i - 1)] /\ q[i] \in 0 .. MaxPut
  BY <1>1
<1> HIDE DEF q
<1>4. q \in Seq(0 .. MaxPut) /\ Len(q) = t - h
  BY <1>2, <1>5, FunIsSeq
<1> QED
  BY <1>3, <1>4 DEF q

LEMMA QueuedIs ==
  ASSUME RingTypeOK
  PROVE  /\ Queued \in Seq(0 .. MaxPut) /\ Len(Queued) = rtail - rhead
         /\ \A i \in 1 .. rtail - rhead :
              Queued[i] = rb[Place(rhead + i - 1)] /\ Queued[i] \in 0 .. MaxPut
BY QueueIs, RingIs DEF Queued

LEMMA QueuedNext ==
  ASSUME RingTypeOK'
  PROVE  /\ Queued' \in Seq(0 .. MaxPut) /\ Len(Queued') = rtail' - rhead'
         /\ \A i \in 1 .. rtail' - rhead' :
              Queued'[i] = rb'[Place(rhead' + i - 1)] /\ Queued'[i] \in 0 .. MaxPut
<1>1. /\ rb' \in [0 .. RingLen - 1 -> 0 .. MaxPut] /\ rhead' \in Nat /\ rtail' \in Nat
      /\ rhead' < RingLen /\ rhead' <= rtail' /\ rtail' <= rhead' + RingLen
  BY TrackRingAssumption DEF RingTypeOK
<1> QED
  BY <1>1, QueueIs DEF Queued

LEMMA PutTypes ==
  ASSUME RingTypeOK, NEW n \in 1 .. MaxSamples, RingPut(n)
  PROVE  RingTypeOK'
<1>1. n \in Nat /\ n > 0 /\ n <= MaxPut - rput /\ UNCHANGED <<rhead, rheard>>
  BY TrackRingAssumption DEF RingPut
<1>2. CASE rtail - rhead = RingLen
  BY <1>1, <1>2 DEF RingPut, RingTypeOK
<1>3. CASE rtail - rhead # RingLen
  <2> DEFINE k == Lower(n, RingLen - (rtail - rhead))
  <2>1. /\ k \in Nat /\ rtail' = rtail + k /\ rput' = rput + k
        /\ rb' = [j \in 0 .. RingLen - 1 |-> rb'[j]]
        /\ \A j \in 0 .. RingLen - 1 :
             rb'[j] = IF rtail <= j /\ j < rtail + k THEN rput + (j - rtail) + 1
                      ELSE IF rtail <= j + RingLen /\ j + RingLen < rtail + k
                      THEN rput + (j + RingLen - rtail) + 1
                      ELSE rb[j]
    BY <1>1, <1>3, PutStores DEF RingPut
  <2>2. k \in Nat /\ k <= n /\ k <= RingLen - (rtail - rhead)
    BY <1>1, <2>1, RingIs DEF Lower
  <2> HIDE DEF k
  <2>3. ASSUME NEW j \in 0 .. RingLen - 1 PROVE rb'[j] \in 0 .. MaxPut
    <3>1. rb[j] \in 0 .. MaxPut
      BY RingIs
    <3>2. rput \in Nat /\ rtail \in Nat /\ MaxPut \in Nat /\ RingLen \in Nat
      BY RingIs
    <3>3. CASE rtail <= j /\ j < rtail + k
      <4>1. rb'[j] = rput + (j - rtail) + 1
        BY <2>1, <3>3
      <4> QED
        BY <1>1, <2>2, <3>2, <3>3, <4>1
    <3>4. CASE ~(rtail <= j /\ j < rtail + k) /\ rtail <= j + RingLen /\ j + RingLen < rtail + k
      <4>1. rb'[j] = rput + (j + RingLen - rtail) + 1
        BY <2>1, <3>4
      <4> QED
        BY <1>1, <2>2, <3>2, <3>4, <4>1
    <3>5. CASE /\ ~(rtail <= j /\ j < rtail + k)
               /\ ~(rtail <= j + RingLen /\ j + RingLen < rtail + k)
      BY <2>1, <3>1, <3>5
    <3> QED
      BY <3>3, <3>4, <3>5
  <2>4. rb' \in [0 .. RingLen - 1 -> 0 .. MaxPut]
    BY <2>1, <2>3
  <2>5. rtail' \in rhead .. rhead + RingLen /\ rput' \in 0 .. MaxPut
    BY <1>1, <2>1, <2>2, RingIs
  <2> QED
    BY <1>1, <2>4, <2>5 DEF RingTypeOK
<1> QED
  BY <1>2, <1>3

LEMMA SliceIs ==
  ASSUME RingTypeOK, NEW lo \in Nat, NEW n \in Nat, lo + n <= RingLen
  PROVE  /\ Slice(lo, n) \in Seq(0 .. MaxPut) /\ Len(Slice(lo, n)) = n
         /\ \A i \in 1 .. n : Slice(lo, n)[i] = rb[lo + i - 1]
<1>1. \A i \in 1 .. n : rb[lo + i - 1] \in 0 .. MaxPut
  BY RingIs
<1>2. Slice(lo, n) \in [1 .. n -> 0 .. MaxPut] /\ \A i \in 1 .. n : Slice(lo, n)[i] = rb[lo + i - 1]
  BY <1>1 DEF Slice
<1> QED
  BY <1>2, FunIsSeq

(* What read takes, and where the indices are then *)
LEMMA TakeIs ==
  ASSUME RingTypeOK, NEW p \in Nat, RingTake(p), NEW k, k = Lower(p, rtail - rhead)
  PROVE  /\ k \in Nat /\ k <= rtail - rhead
         /\ \/ rhead' = rhead + k /\ rtail' = rtail
            \/ rhead' = rhead + k - RingLen /\ rtail' = rtail - RingLen
         /\ rhead' \in Nat /\ rhead' < RingLen /\ rhead' <= rtail' /\ rtail' <= rhead' + RingLen
         /\ rtail' \in Nat /\ UNCHANGED <<rb, rput>>
         /\ rheard' \in Seq(0 .. MaxPut) /\ Len(rheard') = k
         /\ \A i \in 1 .. k : rheard'[i] = rb[Place(rhead + i - 1)]
<1> DEFINE n == IF rtail >= RingLen THEN Lower(RingLen - rhead, p) ELSE 0
           turn == rtail >= RingLen /\ rhead + n = RingLen
           h == IF turn THEN 0 ELSE rhead + n
           t == IF turn THEN rtail - RingLen ELSE rtail
           m == IF t < RingLen THEN Lower(t - h, p - n) ELSE 0
<1>1. /\ rhead \in Nat /\ rtail \in Nat /\ RingLen \in Nat
      /\ RingLen > 0 /\ rhead < RingLen /\ rhead <= rtail /\ rtail <= rhead + RingLen
  BY RingIs
<1>2. /\ rheard' = Slice(rhead, n) \o Slice(h, m) /\ rhead' = h + m /\ rtail' = t
      /\ UNCHANGED <<rb, rput>>
  BY DEF RingTake
<1>3. /\ n \in Nat /\ m \in Nat /\ h \in Nat /\ rhead + n <= RingLen /\ h + m <= RingLen
      /\ k \in Nat /\ k = n + m /\ k <= rtail - rhead
  BY <1>1 DEF Lower
<1>4. \/ turn /\ h = 0 /\ t = rtail - RingLen /\ rhead + n = RingLen /\ m <= t /\ t <= rhead
      \/ ~turn /\ h = rhead + n /\ t = rtail /\ m = 0 /\ rhead + n < RingLen
      \/ ~turn /\ h = rhead /\ n = 0 /\ t = rtail /\ rtail < RingLen /\ rhead + m <= rtail
  BY <1>1 DEF Lower
<1> HIDE DEF n, turn, h, t, m
<1>5. /\ Slice(rhead, n) \in Seq(0 .. MaxPut) /\ Len(Slice(rhead, n)) = n
      /\ Slice(h, m) \in Seq(0 .. MaxPut) /\ Len(Slice(h, m)) = m
      /\ \A i \in 1 .. n : Slice(rhead, n)[i] = rb[rhead + i - 1]
      /\ \A i \in 1 .. m : Slice(h, m)[i] = rb[h + i - 1]
  BY <1>1, <1>3, SliceIs
<1>6. rheard' \in Seq(0 .. MaxPut) /\ Len(rheard') = k
  BY <1>2, <1>3, <1>5, ConcatProperties
<1>7. ASSUME NEW i \in 1 .. k PROVE rheard'[i] = rb[Place(rhead + i - 1)]
  <2> DEFINE a == Slice(rhead, n)
             b == Slice(h, m)
  <2>1. rheard'[i] = IF i <= n THEN a[i] ELSE b[i - n]
    <3>1. /\ rheard' = a \o b /\ a \in Seq(0 .. MaxPut) /\ b \in Seq(0 .. MaxPut)
          /\ Len(a) = n /\ Len(b) = m /\ i \in 1 .. Len(a) + Len(b)
      BY <1>2, <1>3, <1>5
    <3> HIDE DEF a, b
    <3> QED
      BY <3>1, ConcatProperties
  <2>2. CASE i <= n
    <3>1. Place(rhead + i - 1) = rhead + i - 1
      BY <1>1, <1>3, <2>2 DEF Place
    <3> QED
      BY <1>3, <1>5, <2>1, <2>2, <3>1
  <2>3. CASE ~(i <= n)
    <3>1. i - n \in 1 .. m
      BY <1>3, <2>3
    <3>2. Place(rhead + i - 1) = h + (i - n) - 1
      BY <1>1, <1>3, <1>4, <2>3 DEF Place
    <3> QED
      BY <1>5, <2>1, <2>3, <3>1, <3>2
  <2> QED
    BY <2>2, <2>3
<1>8. /\ \/ rhead' = rhead + k /\ rtail' = rtail
         \/ rhead' = rhead + k - RingLen /\ rtail' = rtail - RingLen
      /\ rhead' \in Nat /\ rhead' < RingLen /\ rhead' <= rtail' /\ rtail' <= rhead' + RingLen
      /\ rtail' \in Nat
  <2>0. rhead' = h + m /\ rtail' = t
    BY <1>2
  <2>1. CASE turn /\ h = 0 /\ t = rtail - RingLen /\ rhead + n = RingLen /\ m <= t /\ t <= rhead
    BY <1>1, <1>3, <2>0, <2>1
  <2>2. CASE ~turn /\ h = rhead + n /\ t = rtail /\ m = 0 /\ rhead + n < RingLen
    BY <1>1, <1>3, <2>0, <2>2
  <2>3. CASE /\ ~turn /\ h = rhead /\ n = 0 /\ t = rtail /\ rtail < RingLen
             /\ rhead + m <= rtail
    BY <1>1, <1>3, <2>0, <2>3
  <2> QED
    BY <1>4, <2>1, <2>2, <2>3
<1>9. UNCHANGED <<rb, rput>>
  BY <1>2
<1>10. k \in Nat /\ k <= rtail - rhead
  BY <1>3
<1> QED
  BY <1>6, <1>7, <1>8, <1>9, <1>10

LEMMA InTurn ==
  ASSUME NEW h \in Nat, NEW t \in Nat, NEW l \in Nat, h < l, h <= t, t <= h + l
  PROVE  h \in 0 .. l - 1 /\ t \in h .. h + l
OBVIOUS

LEMMA TakeTypes ==
  ASSUME RingTypeOK, NEW n \in 1 .. MaxSamples, RingTake(n)
  PROVE  RingTypeOK'
<1>1. n \in Nat
  BY TrackRingAssumption
<1>2. /\ rhead' \in Nat /\ rhead' < RingLen /\ rhead' <= rtail' /\ rtail' <= rhead' + RingLen
      /\ rtail' \in Nat /\ UNCHANGED <<rb, rput>> /\ rheard' \in Seq(0 .. MaxPut)
  <2>1. PICK k : k = Lower(n, rtail - rhead)
    OBVIOUS
  <2> QED
    BY <1>1, <2>1, TakeIs
<1>3. rb' \in [0 .. RingLen - 1 -> 0 .. MaxPut] /\ rput' \in 0 .. MaxPut
  BY <1>2 DEF RingTypeOK
<1>4. rhead' \in 0 .. RingLen - 1 /\ rtail' \in rhead' .. rhead' + RingLen
  <2>1. RingLen \in Nat /\ rhead' \in Nat /\ rtail' \in Nat
    BY <1>2, TrackRingAssumption
  <2>2. rhead' < RingLen /\ rhead' <= rtail' /\ rtail' <= rhead' + RingLen
    BY <1>2
  <2> QED
    BY <2>1, <2>2, InTurn
<1> QED
  BY <1>2, <1>3, <1>4 DEF RingTypeOK

LEMMA PlaceIs ==
  ASSUME RingTypeOK, NEW i \in Nat, i < 2 * RingLen
  PROVE  /\ Place(i) \in 0 .. RingLen - 1
         /\ (i < RingLen => Place(i) = i) /\ (i >= RingLen => Place(i) = i - RingLen)
<1>1. RingLen \in Nat /\ RingLen > 0
  BY RingIs
<1>2. CASE i < RingLen
  BY <1>1, <1>2 DEF Place
<1>3. CASE ~(i < RingLen)
  BY <1>1, <1>3 DEF Place
<1> QED
  BY <1>2, <1>3

(* The values that a write takes, and the places they go to *)
LEMMA PutChanges ==
  ASSUME RingTypeOK, NEW n \in 1 .. MaxSamples, RingPut(n),
         NEW k, k = Lower(n, RingLen - (rtail - rhead))
  PROVE  /\ k \in Nat /\ rtail' = rtail + k /\ rput' = rput + k /\ rput + k <= MaxPut
         /\ rtail + k <= rhead + RingLen /\ UNCHANGED <<rhead, rheard>>
         /\ \A j \in 0 .. RingLen - 1 :
              rb'[j] = IF rtail <= j /\ j < rtail + k THEN rput + (j - rtail) + 1
                       ELSE IF rtail <= j + RingLen /\ j + RingLen < rtail + k
                       THEN rput + (j + RingLen - rtail) + 1
                       ELSE rb[j]
<1>1. n \in Nat /\ n > 0 /\ n <= MaxPut - rput /\ UNCHANGED <<rhead, rheard>>
  BY TrackRingAssumption DEF RingPut
<1>2. /\ rhead \in Nat /\ rtail \in Nat /\ rput \in Nat /\ RingLen \in Nat /\ MaxPut \in Nat
      /\ RingLen > 0 /\ rhead < RingLen /\ rhead <= rtail /\ rtail <= rhead + RingLen
  BY RingIs
<1>3. k \in Nat /\ k <= n /\ rtail + k <= rhead + RingLen /\ rput + k <= MaxPut
  BY <1>1, <1>2 DEF Lower
<1>4. CASE rtail - rhead = RingLen
  <2>1. k = 0
    BY <1>1, <1>2, <1>4 DEF Lower
  <2>2. UNCHANGED <<rb, rtail, rput>>
    BY <1>4 DEF RingPut
  <2> QED
    BY <1>1, <1>2, <1>3, <2>1, <2>2
<1>5. CASE rtail - rhead # RingLen
  <2>1. StoreWithin([i \in 1 .. n |-> rput + i])
    BY <1>5 DEF RingPut
  <2> QED
    BY <1>1, <1>3, <1>5, <2>1, PutStores
<1> QED
  BY <1>4, <1>5

(* A write of the ring is a Put of the queue it stands for (write). *)
LEMMA PutRefines ==
  ASSUME RingTypeOK, NEW n \in 1 .. MaxSamples, RingPut(n)
  PROVE  Fifo!Put(n)
<1>1. PICK k : k = Lower(n, RingLen - (rtail - rhead))
  OBVIOUS
<1>2. /\ k \in Nat /\ rtail' = rtail + k /\ rput' = rput + k /\ rput + k <= MaxPut
      /\ rtail + k <= rhead + RingLen /\ rhead' = rhead /\ rheard' = rheard
  BY <1>1, PutChanges
<1>3. \A j \in 0 .. RingLen - 1 :
        rb'[j] = IF rtail <= j /\ j < rtail + k THEN rput + (j - rtail) + 1
                 ELSE IF rtail <= j + RingLen /\ j + RingLen < rtail + k
                 THEN rput + (j + RingLen - rtail) + 1
                 ELSE rb[j]
  BY <1>1, PutChanges
<1>4. /\ rhead \in Nat /\ rtail \in Nat /\ rput \in Nat /\ RingLen \in Nat /\ MaxPut \in Nat
      /\ RingLen > 0 /\ rhead < RingLen /\ rhead <= rtail /\ rtail <= rhead + RingLen
  BY RingIs
<1> DEFINE u == Fifo!Upward(rput, k)
<1>5. u \in Seq(0 .. MaxPut) /\ Len(u) = k /\ \A d \in 1 .. k : u[d] = rput + d
  <2>1. u \in [1 .. k -> 0 .. MaxPut] /\ \A d \in 1 .. k : u[d] = rput + d
    BY <1>2, <1>4 DEF Fifo!Upward
  <2> HIDE DEF u
  <2> QED
    BY <1>2, <2>1, FunIsSeq
<1>6. /\ Queued \in Seq(0 .. MaxPut) /\ Len(Queued) = rtail - rhead
      /\ \A i \in 1 .. rtail - rhead : Queued[i] = rb[Place(rhead + i - 1)]
  BY QueuedIs
<1>7. /\ Queued' \in Seq(0 .. MaxPut) /\ Len(Queued') = rtail - rhead + k
      /\ \A i \in 1 .. rtail - rhead + k : Queued'[i] = rb'[Place(rhead + i - 1)]
  <2>1. rtail' - rhead' = rtail - rhead + k
    BY <1>2, <1>4
  <2> QED
    BY <1>2, <2>1, PutTypes, QueuedNext
<1>8. Fifo!Lesser(n, RingLen - Len(Queued)) = k
  BY <1>1, <1>6 DEF Fifo!Lesser, Lower
<1>9. ASSUME NEW i \in 1 .. rtail - rhead + k
      PROVE  Queued'[i] = IF i <= rtail - rhead THEN Queued[i] ELSE u[i - (rtail - rhead)]
  <2> DEFINE x == rhead + i - 1
  <2>1. /\ i \in Nat /\ x \in Nat /\ x < rhead + RingLen /\ x < rtail + k /\ x < 2 * RingLen
        /\ i <= rtail - rhead <=> x < rtail
        /\ x >= rhead
    BY <1>2, <1>4
  <2>2. /\ Place(x) \in 0 .. RingLen - 1
        /\ (x < RingLen => Place(x) = x) /\ (x >= RingLen => Place(x) = x - RingLen)
    BY <2>1, PlaceIs
  <2>3. Queued'[i] = rb'[Place(x)]
    BY <1>7
  <2> HIDE DEF x
  <2>4. CASE x < rtail
    <3>1. /\ ~(rtail <= Place(x) /\ Place(x) < rtail + k)
          /\ ~(rtail <= Place(x) + RingLen /\ Place(x) + RingLen < rtail + k)
      BY <1>2, <1>4, <2>1, <2>2, <2>4
    <3>2. rb'[Place(x)] = rb[Place(x)]
      BY <1>3, <2>2, <3>1
    <3>3. i \in 1 .. rtail - rhead
      BY <1>4, <2>1, <2>4
    <3>4. Queued[i] = rb[Place(x)]
      BY <1>6, <3>3 DEF x
    <3> QED
      BY <2>1, <2>3, <2>4, <3>2, <3>4
  <2>5. CASE ~(x < rtail)
    <3> DEFINE d == i - (rtail - rhead)
    <3>1. d \in 1 .. k /\ d = x - rtail + 1
      BY <1>2, <1>4, <2>1, <2>5 DEF x
    <3>2. rb'[Place(x)] = rput + d
      <4>1. CASE x < RingLen
        <5>1. Place(x) = x /\ rtail <= Place(x) /\ Place(x) < rtail + k
          BY <1>2, <1>4, <2>1, <2>2, <2>5, <4>1
        <5>2. rb'[Place(x)] = rput + (Place(x) - rtail) + 1
          BY <1>3, <2>2, <5>1
        <5> QED
          BY <1>2, <1>4, <2>1, <3>1, <5>1, <5>2
      <4>2. CASE ~(x < RingLen)
        <5>1. /\ Place(x) = x - RingLen /\ ~(rtail <= Place(x))
              /\ rtail <= Place(x) + RingLen /\ Place(x) + RingLen < rtail + k
          BY <1>2, <1>4, <2>1, <2>2, <2>5, <4>2
        <5>2. rb'[Place(x)] = rput + (Place(x) + RingLen - rtail) + 1
          BY <1>3, <2>2, <5>1
        <5> QED
          BY <1>2, <1>4, <2>1, <3>1, <5>1, <5>2
      <4> QED
        BY <4>1, <4>2
    <3>3. u[d] = rput + d
      BY <1>5, <3>1
    <3> QED
      BY <2>1, <2>3, <2>5, <3>2, <3>3
  <2> QED
    BY <2>4, <2>5
<1> HIDE DEF u
<1>10. Queued' = Queued \o u
  <2> DEFINE q == Queued
             r == Queued'
  <2>1. /\ q \in Seq(0 .. MaxPut) /\ r \in Seq(0 .. MaxPut) /\ u \in Seq(0 .. MaxPut)
        /\ Len(q) = rtail - rhead /\ Len(u) = k /\ Len(r) = Len(q) + Len(u)
    BY <1>5, <1>6, <1>7
  <2>2. \A i \in 1 .. Len(q) + Len(u) : r[i] = IF i <= Len(q) THEN q[i] ELSE u[i - Len(q)]
    BY <1>9, <2>1
  <2> HIDE DEF q, r
  <2>3. r = q \o u
    <3>1. /\ q \o u \in Seq(0 .. MaxPut) /\ Len(q \o u) = Len(q) + Len(u)
          /\ \A i \in 1 .. Len(q) + Len(u) :
               (q \o u)[i] = IF i <= Len(q) THEN q[i] ELSE u[i - Len(q)]
      BY <2>1, ConcatProperties
    <3> QED
      BY <2>1, <2>2, <3>1, SeqEqual
  <2> QED
    BY <2>3 DEF q, r
<1> QED
  BY <1>2, <1>8, <1>10 DEF Fifo!Put, u

(* The place of the i-th value, counted from the head before or after a read of k *)
LEMMA SamePlace ==
  ASSUME NEW h \in Nat, NEW g \in Nat, NEW t \in Nat, NEW l \in Nat, NEW k \in Nat, NEW i \in Nat,
         h < l, g < l, t <= h + l, k <= t - h, g = h + k \/ g = h + k - l,
         i >= 1, i <= t - h - k
  PROVE  /\ g + i - 1 \in Nat /\ g + i - 1 < 2 * l
         /\ h + (k + i) - 1 \in Nat /\ h + (k + i) - 1 < 2 * l
         /\ g + i - 1 = h + (k + i) - 1 \/ g + i - 1 = h + (k + i) - 1 - l
OBVIOUS

(* A read of the ring is a Take of the queue it stands for (read). *)
LEMMA TakeRefines ==
  ASSUME RingTypeOK, NEW n \in 1 .. MaxSamples, RingTake(n)
  PROVE  Fifo!Take(n)
<1>1. PICK k : k = Lower(n, rtail - rhead)
  OBVIOUS
<1>2. /\ k \in Nat /\ k <= rtail - rhead
      /\ \/ rhead' = rhead + k /\ rtail' = rtail
         \/ rhead' = rhead + k - RingLen /\ rtail' = rtail - RingLen
      /\ rhead' \in Nat /\ rtail' \in Nat /\ rhead' < RingLen /\ rb' = rb /\ rput' = rput
      /\ rheard' \in Seq(0 .. MaxPut) /\ Len(rheard') = k
      /\ \A i \in 1 .. k : rheard'[i] = rb[Place(rhead + i - 1)]
  <2>1. n \in Nat
    BY TrackRingAssumption
  <2> QED
    BY <1>1, <2>1, TakeIs
<1>3. /\ rhead \in Nat /\ rtail \in Nat /\ RingLen \in Nat
      /\ RingLen > 0 /\ rhead < RingLen /\ rhead <= rtail /\ rtail <= rhead + RingLen
  BY RingIs
<1>4. /\ Queued \in Seq(0 .. MaxPut) /\ Len(Queued) = rtail - rhead
      /\ \A i \in 1 .. rtail - rhead :
           Queued[i] = rb[Place(rhead + i - 1)] /\ Queued[i] \in 0 .. MaxPut
  BY QueuedIs
<1>5. rtail' - rhead' = rtail - rhead - k
  BY <1>2, <1>3
<1>6. /\ Queued' \in Seq(0 .. MaxPut) /\ Len(Queued') = rtail - rhead - k
      /\ \A i \in 1 .. rtail - rhead - k : Queued'[i] = rb[Place(rhead' + i - 1)]
  <2>1. RingTypeOK'
    BY TakeTypes
  <2>2. /\ Queued' \in Seq(0 .. MaxPut) /\ Len(Queued') = rtail' - rhead'
        /\ \A i \in 1 .. rtail' - rhead' : Queued'[i] = rb'[Place(rhead' + i - 1)]
    BY <2>1, QueuedNext
  <2> QED
    BY <1>2, <1>5, <2>2
<1>7. Fifo!Lesser(n, Len(Queued)) = k
  BY <1>1, <1>4 DEF Fifo!Lesser, Lower
<1>8. ASSUME NEW i \in 1 .. rtail - rhead - k PROVE Queued'[i] = Queued[k + i]
  <2>0. PICK g \in Nat : g = rhead'
    BY <1>2
  <2> DEFINE x == g + i - 1
             y == rhead + (k + i) - 1
  <2>1. /\ x \in Nat /\ y \in Nat /\ y < 2 * RingLen /\ x < 2 * RingLen
        /\ x = y \/ x = y - RingLen
        /\ k + i \in 1 .. rtail - rhead
    <3>1. /\ k \in Nat /\ k <= rtail - rhead /\ g < RingLen
          /\ g = rhead + k \/ g = rhead + k - RingLen
      BY <1>2, <2>0
    <3>2. /\ i \in Nat /\ i >= 1 /\ i <= rtail - rhead - k
      BY <1>3, <3>1
    <3> QED
      BY <1>3, <3>1, <3>2, SamePlace
  <2>2. Queued'[i] = rb[Place(x)] /\ Queued[k + i] = rb[Place(y)]
    BY <1>4, <1>6, <2>0, <2>1
  <2>3. Place(x) = Place(y)
    <3>1. CASE x = y
      BY <3>1
    <3>2. CASE x = y - RingLen
      <4>1. /\ (x < RingLen => Place(x) = x) /\ (x >= RingLen => Place(x) = x - RingLen)
            /\ (y < RingLen => Place(y) = y) /\ (y >= RingLen => Place(y) = y - RingLen)
        BY <2>1, PlaceIs
      <4> HIDE DEF x, y
      <4> QED
        BY <1>3, <2>1, <3>2, <4>1
    <3> QED
      BY <2>1, <3>1, <3>2
  <2> QED
    BY <2>2, <2>3
<1>9. /\ Queued' = SubSeq(Queued, k + 1, Len(Queued))
      /\ rheard' = SubSeq(Queued, 1, k)
  <2> DEFINE q == Queued
             r == Queued'
             g == rheard'
  <2>1. /\ q \in Seq(0 .. MaxPut) /\ r \in Seq(0 .. MaxPut) /\ g \in Seq(0 .. MaxPut)
        /\ k \in Nat /\ Len(q) \in Nat /\ k <= Len(q) /\ Len(r) = Len(q) - k /\ Len(g) = k
    BY <1>2, <1>3, <1>4, <1>6
  <2>2. /\ \A i \in 1 .. Len(q) : q[i] \in 0 .. MaxPut
        /\ \A i \in 1 .. Len(q) - k : r[i] = q[k + i]
    BY <1>4, <1>8
  <2>3. ASSUME NEW i \in 1 .. k PROVE g[i] = q[i]
    <3>1. i \in 1 .. rtail - rhead
      BY <1>2, <1>3
    <3>2. g[i] = rb[Place(rhead + i - 1)]
      BY <1>2
    <3> QED
      BY <1>4, <3>1, <3>2
  <2> HIDE DEF q, r, g
  <2>4. r = SubSeq(q, k + 1, Len(q))
    <3>1. k + 1 \in Int /\ Len(q) \in Int /\ \A i \in k + 1 .. Len(q) : q[i] \in 0 .. MaxPut
      BY <2>1, <2>2
    <3>2. /\ SubSeq(q, k + 1, Len(q)) \in Seq(0 .. MaxPut)
          /\ Len(SubSeq(q, k + 1, Len(q)))
               = IF k + 1 <= Len(q) THEN Len(q) - (k + 1) + 1 ELSE 0
          /\ \A i \in 1 .. Len(q) - (k + 1) + 1 :
               SubSeq(q, k + 1, Len(q))[i] = q[(k + 1) + i - 1]
      BY <3>1, SubSeqProperties
    <3>3. Len(SubSeq(q, k + 1, Len(q))) = Len(r)
      BY <2>1, <3>2
    <3>4. \A i \in 1 .. Len(r) : r[i] = SubSeq(q, k + 1, Len(q))[i]
      <4> TAKE i \in 1 .. Len(r)
      <4>1. i \in 1 .. Len(q) - k /\ i \in 1 .. Len(q) - (k + 1) + 1 /\ (k + 1) + i - 1 = k + i
        BY <2>1
      <4> QED
        BY <2>2, <3>2, <4>1
    <3> QED
      BY <2>1, <3>2, <3>3, <3>4, SeqEqual
  <2>5. g = SubSeq(q, 1, k)
    <3>1. 1 \in Int /\ k \in Int /\ \A i \in 1 .. k : q[i] \in 0 .. MaxPut
      BY <2>1, <2>2
    <3>2. /\ SubSeq(q, 1, k) \in Seq(0 .. MaxPut)
          /\ Len(SubSeq(q, 1, k)) = IF 1 <= k THEN k - 1 + 1 ELSE 0
          /\ \A i \in 1 .. k - 1 + 1 : SubSeq(q, 1, k)[i] = q[1 + i - 1]
      BY <3>1, SubSeqProperties
    <3>3. Len(SubSeq(q, 1, k)) = Len(g)
      BY <2>1, <3>2
    <3>4. \A i \in 1 .. Len(g) : g[i] = SubSeq(q, 1, k)[i]
      <4> TAKE i \in 1 .. Len(g)
      <4>1. i \in 1 .. k /\ i \in 1 .. k - 1 + 1 /\ 1 + i - 1 = i
        BY <2>1
      <4> QED
        BY <2>3, <3>2, <4>1
    <3> QED
      BY <2>1, <3>2, <3>3, <3>4, SeqEqual
  <2> QED
    BY <2>4, <2>5 DEF q, r, g
<1> QED
  BY <1>2, <1>7, <1>9 DEF Fifo!Take

LEMMA RingInit ==
  ASSUME TrackRingInit
  PROVE  RingTypeOK /\ Fifo!FifoInit
<1>1. /\ rb = [i \in 0 .. RingLen - 1 |-> 0] /\ rhead = 0 /\ rtail = 0 /\ rput = 0
      /\ rheard = <<>>
  BY DEF TrackRingInit
<1>2. RingTypeOK
  <2>1. rb \in [0 .. RingLen - 1 -> 0 .. MaxPut] /\ rput \in 0 .. MaxPut
    BY <1>1, TrackRingAssumption
  <2>2. rhead \in 0 .. RingLen - 1 /\ rtail \in rhead .. rhead + RingLen
    BY <1>1, TrackRingAssumption
  <2>3. rheard \in Seq(0 .. MaxPut)
    BY <1>1
  <2> QED
    BY <2>1, <2>2, <2>3 DEF RingTypeOK
<1>3. Queued = <<>>
  <2>1. Queued \in Seq(0 .. MaxPut) /\ Len(Queued) = 0
    BY <1>1, <1>2, QueuedIs
  <2> HIDE DEF Queued
  <2> QED
    BY <2>1, EmptySeq
<1> QED
  BY <1>1, <1>2, <1>3 DEF Fifo!FifoInit

LEMMA RingStep ==
  ASSUME RingTypeOK, [TrackRingNext]_ringVars
  PROVE  RingTypeOK' /\ [Fifo!FifoNext]_<<Queued, rput, rheard>>
<1>1. ASSUME NEW n \in 1 .. MaxSamples, RingPut(n)
      PROVE  RingTypeOK' /\ Fifo!FifoNext
  BY <1>1, PutTypes, PutRefines DEF Fifo!FifoNext
<1>2. ASSUME NEW n \in 1 .. MaxSamples, RingTake(n)
      PROVE  RingTypeOK' /\ Fifo!FifoNext
  BY <1>2, TakeTypes, TakeRefines DEF Fifo!FifoNext
<1>3. CASE UNCHANGED ringVars
  BY <1>3 DEF RingTypeOK, ringVars, Queued, Place
<1> QED
  BY <1>1, <1>2, <1>3 DEF TrackRingNext

(* The indices of a track's ring buffer never leave the storage nor run more than one turn apart,
   for every length of the ring and of the slices (trackRingBuf: head, tail, write, read). *)
THEOREM RingTypeCorrect == TrackRingSpec => []RingTypeOK
<1>1. TrackRingInit => RingTypeOK
  BY RingInit
<1>2. RingTypeOK /\ [TrackRingNext]_ringVars => RingTypeOK'
  BY RingStep
<1> QED
  BY <1>1, <1>2, PTL DEF TrackRingSpec

(* A track's ring buffer implements a bounded queue of samples: a write appends what fits, over
   the end of the storage, and a read returns the oldest, in order and once (write, read). *)
THEOREM RingImplementsFifo == TrackRingSpec => RingIsFifo
<1>1. TrackRingInit => RingTypeOK /\ Fifo!FifoInit
  BY RingInit
<1>2. RingTypeOK /\ [TrackRingNext]_ringVars
        => RingTypeOK' /\ [Fifo!FifoNext]_<<Queued, rput, rheard>>
  BY RingStep
<1> QED
  BY <1>1, <1>2, PTL DEF TrackRingSpec, RingIsFifo, Fifo!FifoSpec
=============================================================================
