---------------------------- MODULE PcmMixer ----------------------------
(* pkg/audio/pcm: tracks that applications write and close, mixed into one stream by Mixer.Read. *)
EXTENDS Naturals, Sequences, FiniteSets

CONSTANTS
  Tracks,        \* the tracks CreateTrack may make
  MixReaders,    \* goroutines that call Mixer.Read, again and again
  TrackWriters,  \* goroutines that write to tracks
  Formats,       \* audio formats
  OutFormat,     \* the mixer's output format, which needs no resampler
  FirstFormat,   \* defaultTrackInputFormat
  FrameLen,      \* units of audio Read asks for
  SourceLen,     \* units the resampler asks for to make a frame
  MaxMade,       \* bound: units the resampler makes of what it reads at once
  RingSize,      \* units a trackRingBuf holds
  MaxChunk,      \* units in the longest chunk written
  SilenceGap,    \* frames of silence before Read waits for a track
  AutoClose,     \* WithAutoClose
  Reporting,     \* WithOnTrackClosed
  MaxWrites,     \* bound: Write calls
  MaxInputs      \* bound: inputs of a track

ASSUME MixerAssumption ==
  /\ OutFormat \in Formats /\ FirstFormat \in Formats
  /\ FrameLen \in Nat \ {0} /\ SourceLen \in Nat \ {0} /\ MaxMade \in Nat
  /\ RingSize \in Nat \ {0} /\ MaxChunk \in Nat \ {0}
  /\ SilenceGap \in Nat /\ MaxWrites \in Nat /\ MaxInputs \in Nat
  /\ AutoClose \in BOOLEAN /\ Reporting \in BOOLEAN

VARIABLES
  mixer,        \* closeErr, closeWrite; done is closed with closeWrite
  order,        \* the linked list of tracks, head first
  trackNotify,  \* trackNotify holds a token
  dataNotify,   \* writeNotify of Mixer holds a token
  quiet,        \* runningSilence in frames, up to SilenceGap
  track,        \* a track and its TrackCtrl
  reader,       \* the locals of Read
  writer,       \* the locals of Write
  writes,       \* Write calls made
  reported      \* history: how often onTrackClosed was called for a track

mixerVars == <<mixer, order, trackNotify, dataNotify, quiet, track, reader, writer, writes, reported>>

-----------------------------------------------------------------------------
(* A trackWriter with its trackRingBuf and, unless in the output format, its resampler, which
   has leftover output and may hold a part of a sample until the rest is written. *)
Input == [fmt : Formats, stored : 0 .. RingSize, left : 0 .. MaxMade, split : BOOLEAN,
          closed : BOOLEAN, notify : BOOLEAN]

NewInput(f) == [fmt |-> f, stored |-> 0, left |-> 0, split |-> FALSE,
                closed |-> FALSE, notify |-> FALSE]

(* inputs keeps those dropped as well; the slice of the code begins at first. *)
Track == [made : BOOLEAN, closeErr : BOOLEAN, closeWrite : BOOLEAN, fade : BOOLEAN,
          fading : BOOLEAN, inputs : Seq(Input), first : Nat \ {0}]

NoTrackYet == [made |-> FALSE, closeErr |-> FALSE, closeWrite |-> FALSE, fade |-> FALSE,
               fading |-> FALSE, inputs |-> <<>>, first |-> 1]

HasInput(tk) == tk.first <= Len(tk.inputs)

(* The inputs with the last one closed for writing *)
LastClosed(tk) ==
  IF HasInput(tk) THEN [tk.inputs EXCEPT ![Len(tk.inputs)].closed = TRUE] ELSE tk.inputs

(* track.CloseWrite *)
WriteClosed(tk) == [tk EXCEPT !.closeWrite = TRUE, !.inputs = LastClosed(tk)]

(* track.CloseWithError *)
Failed(tk) ==
  [tk EXCEPT !.closeErr = TRUE,
             !.inputs = [i \in DOMAIN @ |->
                IF i >= tk.first THEN [@[i] EXCEPT !.closed = TRUE] ELSE @[i]]]

(* TrackCtrl.Close and TrackCtrl.CloseWithError *)
CtrlClosed(tk) == IF tk.fade THEN [WriteClosed(tk) EXCEPT !.fading = TRUE] ELSE Failed(tk)

(* track.CloseWithError returns before notifyWrite when the track had failed already. *)
CtrlNotifies(tk) == tk.fade \/ ~tk.closeErr

-----------------------------------------------------------------------------
(* Where a Read is: outside, about to lock mx.mu, asleep on a channel, inside a round over the
   tracks with mx.mu held, or back from the round with its tracks to report. *)
InRound == {"enter", "pull", "drop", "remove"}
ReaderAt == {"idle", "retry", "waitTrack", "waitWrite", "callback", "settle"} \cup InRound

Reader == [at : ReaderAt, pos : Nat \ {0}, want : 0 .. FrameLen, got : BOOLEAN, again : BOOLEAN,
           read : BOOLEAN, gone : SUBSET Tracks, out : {"data", "silence", "none"}]

OutsideRead == [at |-> "idle", pos |-> 1, want |-> 0, got |-> FALSE, again |-> FALSE,
            read |-> FALSE, gone |-> {}, out |-> "none"]

Writer == {[at |-> "idle"]}
          \cup [at : {"write", "wait"}, track : Tracks, input : Nat \ {0}, left : 1 .. MaxChunk]

(* mx.mu and tk.mu are held by a Read across its steps; other calls hold them within one step. *)
MixerHeld == \E r \in MixReaders : reader[r].at \in InRound
TrackHeld(t) == \E r \in MixReaders : /\ reader[r].at \in {"pull", "drop"}
                                      /\ order[reader[r].pos] = t

Listed == {order[i] : i \in 1 .. Len(order)}

-----------------------------------------------------------------------------
(* The application. *)

(* mutant: nobody is told of the new track *)
CreateTrackQuiet(t) ==
  /\ ~MixerHeld /\ ~track[t].made
  /\ ~mixer.closeErr /\ ~mixer.closeWrite
  /\ track' = [track EXCEPT ![t].made = TRUE, ![t].inputs = <<NewInput(FirstFormat)>>]
  /\ order' = <<t>> \o order
  /\ UNCHANGED <<mixer, trackNotify, dataNotify, quiet, reader, writer, writes, reported>>

CreateTrack(t) ==
  /\ ~MixerHeld /\ ~track[t].made
  /\ ~mixer.closeErr /\ ~mixer.closeWrite
  /\ track' = [track EXCEPT ![t].made = TRUE, ![t].inputs = <<NewInput(FirstFormat)>>]
  /\ order' = <<t>> \o order
  /\ trackNotify' = TRUE
  /\ UNCHANGED <<mixer, dataNotify, quiet, reader, writer, writes, reported>>

(* track.input: the last input takes the chunk, or is closed in favour of a new one. *)
WriteBegin(w, t, f, n) ==
  LET tk == track[t]
      last == Len(tk.inputs)
      fits == HasInput(tk) /\ tk.inputs[last].fmt = f
  IN /\ writer[w].at = "idle" /\ writes < MaxWrites
     /\ tk.made /\ ~TrackHeld(t) /\ ~tk.closeErr /\ ~tk.closeWrite
     /\ fits \/ last < MaxInputs
     /\ track' = [track EXCEPT ![t].inputs =
          IF fits THEN @ ELSE Append(LastClosed(tk), NewInput(f))]
     /\ writer' = [writer EXCEPT ![w] =
          [at |-> "write", track |-> t, input |-> IF fits THEN last ELSE last + 1, left |-> n]]
     /\ writes' = writes + 1
     /\ UNCHANGED <<mixer, order, trackNotify, dataNotify, quiet, reader, reported>>

(* track.input after newWriter failed: the last input is closed by then. *)
NewInputFails(w, t, f) ==
  LET tk == track[t]
      last == Len(tk.inputs)
  IN /\ writer[w].at = "idle" /\ writes < MaxWrites
     /\ tk.made /\ ~TrackHeld(t) /\ ~tk.closeErr /\ ~tk.closeWrite
     /\ f # OutFormat
     /\ ~(HasInput(tk) /\ tk.inputs[last].fmt = f)
     /\ track' = [track EXCEPT ![t].inputs = LastClosed(tk)]
     /\ writes' = writes + 1
     /\ UNCHANGED <<mixer, order, trackNotify, dataNotify, quiet, reader, writer, reported>>

(* trackRingBuf.Write: one turn of its loop under trb.mu. *)
WriteFails(w) ==
  /\ writer[w].at = "write"
  /\ track[writer[w].track].inputs[writer[w].input].closed
  /\ writer' = [writer EXCEPT ![w] = [at |-> "idle"]]
  /\ UNCHANGED <<mixer, order, trackNotify, dataNotify, quiet, track, reader, writes, reported>>

WriteFull(w) ==
  LET in == track[writer[w].track].inputs[writer[w].input]
  IN /\ writer[w].at = "write"
     /\ ~in.closed /\ in.stored = RingSize
     /\ writer' = [writer EXCEPT ![w].at = "wait"]
     /\ UNCHANGED <<mixer, order, trackNotify, dataNotify, quiet, track, reader, writes, reported>>

Room(in) == RingSize - in.stored

WriteStore(w) ==
  LET c == writer[w]
      in == track[c.track].inputs[c.input]
      n == IF c.left <= Room(in) THEN c.left ELSE Room(in)
  IN /\ c.at = "write"
     /\ ~in.closed /\ in.stored < RingSize
     /\ track' = [track EXCEPT ![c.track].inputs[c.input].stored = @ + n]
     /\ dataNotify' = TRUE
     /\ writer' = [writer EXCEPT ![w] = IF n = c.left THEN [at |-> "idle"]
                                        ELSE [c EXCEPT !.left = @ - n]]
     /\ UNCHANGED <<mixer, order, trackNotify, quiet, reader, writes, reported>>

(* <-trb.readNotify: a token, or the closed channel *)
WriteWake(w) ==
  LET c == writer[w]
      in == track[c.track].inputs[c.input]
  IN /\ c.at = "wait"
     /\ in.notify \/ in.closed
     /\ track' = [track EXCEPT ![c.track].inputs[c.input].notify = FALSE]
     /\ writer' = [writer EXCEPT ![w].at = "write"]
     /\ UNCHANGED <<mixer, order, trackNotify, dataNotify, quiet, reader, writes, reported>>

TrackCloseWrite(t) ==
  /\ track[t].made /\ ~TrackHeld(t)
  /\ track' = [track EXCEPT ![t] = WriteClosed(@)]
  /\ dataNotify' = TRUE
  /\ UNCHANGED <<mixer, order, trackNotify, quiet, reader, writer, writes, reported>>

TrackClose(t) ==
  /\ track[t].made /\ ~TrackHeld(t)
  /\ track' = [track EXCEPT ![t] = CtrlClosed(@)]
  /\ dataNotify' = (dataNotify \/ CtrlNotifies(track[t]))
  /\ UNCHANGED <<mixer, order, trackNotify, quiet, reader, writer, writes, reported>>

SetFadeOutDuration(t, on) ==
  /\ track[t].made
  /\ track' = [track EXCEPT ![t].fade = on]
  /\ UNCHANGED <<mixer, order, trackNotify, dataNotify, quiet, reader, writer, writes, reported>>

(* The goroutine of a fading Close: its last step is track.CloseWithError. *)
FadeEnds(t) ==
  /\ track[t].fading /\ ~TrackHeld(t)
  /\ track' = [track EXCEPT ![t] = [Failed(@) EXCEPT !.fading = FALSE]]
  /\ dataNotify' = (dataNotify \/ ~track[t].closeErr)
  /\ UNCHANGED <<mixer, order, trackNotify, quiet, reader, writer, writes, reported>>

(* Under mx.mu both closes visit the tracks one by one; no other call sees a difference. *)
MixerCloseWrite ==
  /\ ~MixerHeld /\ ~mixer.closeErr /\ ~mixer.closeWrite
  /\ mixer' = [mixer EXCEPT !.closeWrite = TRUE]
  /\ track' = [t \in Tracks |-> IF t \in Listed THEN WriteClosed(track[t]) ELSE track[t]]
  /\ dataNotify' = (dataNotify \/ order # <<>>)
  /\ UNCHANGED <<order, trackNotify, quiet, reader, writer, writes, reported>>

MixerCloseWithError ==
  /\ ~MixerHeld /\ ~mixer.closeErr
  /\ mixer' = [closeErr |-> TRUE, closeWrite |-> TRUE]
  /\ track' = [t \in Tracks |-> IF t \in Listed THEN CtrlClosed(track[t]) ELSE track[t]]
  /\ dataNotify' = (dataNotify \/ \E t \in Listed : CtrlNotifies(track[t]))
  /\ UNCHANGED <<order, trackNotify, quiet, reader, writer, writes, reported>>

-----------------------------------------------------------------------------
(* Mixer.Read. *)
ReadCall(r) ==
  /\ reader[r].at = "idle"
  /\ reader' = [reader EXCEPT ![r] = [OutsideRead EXCEPT !.at = "retry"]]
  /\ UNCHANGED <<mixer, order, trackNotify, dataNotify, quiet, track, writer, writes, reported>>

Quieter == IF quiet < SilenceGap THEN quiet + 1 ELSE quiet

(* headTrackLocked with mx.mu just locked: an error, a round, EOF, silence, or a wait *)
HeadTrack(r) ==
  /\ reader[r].at = "retry" /\ ~MixerHeld
  /\ \/ /\ mixer.closeErr
        /\ reader' = [reader EXCEPT ![r] = OutsideRead]
        /\ UNCHANGED <<mixer, quiet>>
     \/ /\ ~mixer.closeErr /\ order # <<>>
        /\ reader' = [reader EXCEPT ![r] = [OutsideRead EXCEPT !.at = "enter"]]
        /\ UNCHANGED <<mixer, quiet>>
     \/ /\ ~mixer.closeErr /\ order = <<>> /\ (mixer.closeWrite \/ AutoClose)
        /\ mixer' = [mixer EXCEPT !.closeWrite = TRUE]
        /\ reader' = [reader EXCEPT ![r] = OutsideRead]
        /\ UNCHANGED quiet
     \/ /\ order = <<>> /\ ~mixer.closeWrite /\ ~AutoClose
        /\ reader' = [reader EXCEPT ![r] =
             IF quiet < SilenceGap THEN OutsideRead ELSE [OutsideRead EXCEPT !.at = "waitTrack"]]
        /\ quiet' = Quieter
        /\ UNCHANGED mixer
  /\ UNCHANGED <<order, trackNotify, dataNotify, track, writer, writes, reported>>

TrackWakes(r) ==
  /\ reader[r].at = "waitTrack"
  /\ \/ trackNotify /\ trackNotify' = FALSE
     \/ mixer.closeWrite /\ UNCHANGED trackNotify
  /\ reader' = [reader EXCEPT ![r] = [OutsideRead EXCEPT !.at = "retry"]]
  /\ UNCHANGED <<mixer, order, dataNotify, quiet, track, writer, writes, reported>>

WriteWakes(r) ==
  /\ reader[r].at = "waitWrite"
  /\ \/ dataNotify /\ dataNotify' = FALSE
     \/ mixer.closeWrite /\ UNCHANGED dataNotify
  /\ reader' = [reader EXCEPT ![r] = [OutsideRead EXCEPT !.at = "retry"]]
  /\ UNCHANGED <<mixer, order, trackNotify, quiet, track, writer, writes, reported>>

(* The round is done with a track, which gave data or none. *)
Passed(q, data) ==
  [q EXCEPT !.at = "enter", !.pos = @ + 1, !.again = FALSE, !.read = @ \/ data]

(* track.Read at the head of its loop. TrackCtrl.readFull calls it again for the rest of the
   frame, of which nothing is left after data: then end of file ends the track's turn only. *)
AtInput(q, tk) ==
  IF HasInput(tk)
  THEN [q EXCEPT !.at = "pull", !.got = FALSE, !.want = IF q.again THEN 0 ELSE FrameLen]
  ELSE IF tk.closeWrite /\ ~q.again THEN [q EXCEPT !.at = "remove"]
  ELSE Passed(q, q.again)

EnterTrack(r) ==
  LET q == reader[r]
      tk == track[order[q.pos]]
  IN /\ q.at = "enter" /\ q.pos <= Len(order)
     /\ reader' = [reader EXCEPT ![r] =
          IF tk.closeErr THEN [q EXCEPT !.at = "remove"] ELSE AtInput(q, tk)]
     /\ UNCHANGED <<mixer, order, trackNotify, dataNotify, quiet, track, writer, writes, reported>>

(* readFull over the head input is done: with data track.Read is called again. *)
Filled(q) ==
  IF q.got THEN [q EXCEPT !.at = "enter", !.again = TRUE] ELSE Passed(q, q.again)

EndOfInput(q) == IF q.got THEN Filled(q) ELSE [q EXCEPT !.at = "drop"]

(* mutant: nothing to read yet is taken for the end *)
AtEmptyEnds(q, in) == EndOfInput(q)

(* trackRingBuf.Read of an empty ring: end of file only when it is closed *)
AtEmpty(q, in) == IF in.closed THEN EndOfInput(q) ELSE Filled(q)

(* mutant: no token *)
TakenQuiet(in, n) == [in EXCEPT !.stored = @ - n]

(* One trackRingBuf.Read of up to n units: what is left in the ring, and a token for a writer. *)
Taken(in, n) == [in EXCEPT !.stored = @ - n, !.notify = IF in.closed THEN @ ELSE TRUE]

(* readFull calls Read of an input in the output format, which is trackRingBuf.Read. *)
PullDirect(r) ==
  LET q == reader[r]
      t == order[q.pos]
      i == track[t].first
      in == track[t].inputs[i]
      n == IF q.want <= in.stored THEN q.want ELSE in.stored
      rest == [q EXCEPT !.want = @ - n, !.got = TRUE]
  IN /\ q.at = "pull" /\ in.fmt = OutFormat
     /\ IF in.stored = 0
        THEN /\ reader' = [reader EXCEPT ![r] = AtEmpty(q, in)]
             /\ UNCHANGED track
        ELSE /\ reader' = [reader EXCEPT ![r] = IF n = 0 THEN Filled(q) ELSE rest]
             /\ track' = [track EXCEPT ![t].inputs[i] = Taken(@, n)]
     /\ UNCHANGED <<mixer, order, trackNotify, dataNotify, quiet, writer, writes, reported>>

(* Soxr.Read: nothing for an empty slice, then leftover, then one read of the ring; a ring that
   is empty is end of file to it, closed or not, unless it is closed within a sample. How much
   the library makes of what it reads is its choice; what does not fit the frame becomes
   leftover. An error but end of file goes through track.Read to the mixer, with what the
   frame has already. *)
PullResampled(r) ==
  LET q == reader[r]
      t == order[q.pos]
      i == track[t].first
      in == track[t].inputs[i]
      n == IF SourceLen <= in.stored THEN SourceLen ELSE in.stored
      Given(m) == [q EXCEPT !.want = @ - m, !.got = TRUE]
      Part(m) == IF m <= q.want THEN m ELSE q.want
      error == [q EXCEPT !.at = "remove"]
  IN /\ q.at = "pull" /\ in.fmt # OutFormat
     /\ \/ /\ q.want = 0
           /\ reader' = [reader EXCEPT ![r] = Filled(q)]
           /\ UNCHANGED track
        \/ /\ q.want > 0 /\ in.left > 0
           /\ reader' = [reader EXCEPT ![r] = Given(Part(in.left))]
           /\ track' = [track EXCEPT ![t].inputs[i].left = @ - Part(in.left)]
        \/ /\ q.want > 0 /\ in.left = 0 /\ in.stored = 0
           /\ reader' = [reader EXCEPT ![r] = IF in.closed /\ in.split THEN error ELSE EndOfInput(q)]
           /\ UNCHANGED track
        \/ /\ q.want > 0 /\ in.left = 0 /\ in.stored > 0
           /\ \E m \in 0 .. MaxMade, s \in BOOLEAN :
                /\ reader' = [reader EXCEPT ![r] = IF m = 0 THEN Filled(q) ELSE Given(Part(m))]
                /\ track' = [track EXCEPT ![t].inputs[i] =
                     [Taken(@, n) EXCEPT !.left = m - Part(m), !.split = s]]
        \/ /\ q.want > 0 /\ in.left = 0 /\ in.stored > 0
           /\ reader' = [reader EXCEPT ![r] = error]
           /\ track' = [track EXCEPT ![t].inputs[i] = Taken(@, n)]
     /\ UNCHANGED <<mixer, order, trackNotify, dataNotify, quiet, writer, writes, reported>>

(* The input is at its end: head.Close, and the next one. *)
DropInput(r) ==
  LET q == reader[r]
      t == order[q.pos]
      rest == [track[t] EXCEPT !.inputs[track[t].first].closed = TRUE, !.first = @ + 1]
  IN /\ q.at = "drop"
     /\ track' = [track EXCEPT ![t] = rest]
     /\ reader' = [reader EXCEPT ![r] = AtInput(q, rest)]
     /\ UNCHANGED <<mixer, order, trackNotify, dataNotify, quiet, writer, writes, reported>>

(* The track reported an error or its end: it is closed and taken out of the list. *)
RemoveTrack(r) ==
  LET q == reader[r]
      t == order[q.pos]
  IN /\ q.at = "remove"
     /\ track' = [track EXCEPT ![t] = CtrlClosed(@)]
     /\ dataNotify' = (dataNotify \/ CtrlNotifies(track[t]))
     /\ order' = SubSeq(order, 1, q.pos - 1) \o SubSeq(order, q.pos + 1, Len(order))
     /\ reader' = [reader EXCEPT ![r] =
          [q EXCEPT !.at = "enter", !.again = FALSE, !.gone = @ \cup {t}]]
     /\ UNCHANGED <<mixer, trackNotify, quiet, writer, writes, reported>>

(* The end of readFull's turn: it returns with data or silence, or waits for a write. *)
Settled(out) == IF out = "none" THEN [OutsideRead EXCEPT !.at = "waitWrite"] ELSE OutsideRead

QuietAfter(out) == CASE out = "data" -> 0 [] out = "silence" -> Quieter [] OTHER -> quiet

(* mutant: the callback only when there is nothing to return *)
CallsIfIdle(q) == Reporting /\ q.gone # {} /\ ~q.read

Calls(q) == Reporting /\ q.gone # {}

FinishRound(r) ==
  LET q == reader[r]
      out == IF q.read THEN "data" ELSE IF order # <<>> THEN "silence" ELSE "none"
  IN /\ q.at = "enter" /\ q.pos > Len(order)
     /\ reader' = [reader EXCEPT ![r] =
          IF Calls(q) THEN [q EXCEPT !.at = "callback", !.out = out] ELSE Settled(out)]
     /\ quiet' = IF Calls(q) THEN quiet ELSE QuietAfter(out)
     /\ UNCHANGED <<mixer, order, trackNotify, dataNotify, track, writer, writes, reported>>

(* onTrackClosed is called with mx.mu unlocked. *)
ReportClosed(r) ==
  /\ reader[r].at = "callback"
  /\ reported' = [t \in Tracks |-> IF t \in reader[r].gone THEN reported[t] + 1 ELSE reported[t]]
  /\ reader' = [reader EXCEPT ![r].at = "settle", ![r].gone = {}]
  /\ UNCHANGED <<mixer, order, trackNotify, dataNotify, quiet, track, writer, writes>>

SettleRead(r) ==
  /\ reader[r].at = "settle" /\ ~MixerHeld
  /\ reader' = [reader EXCEPT ![r] = Settled(reader[r].out)]
  /\ quiet' = QuietAfter(reader[r].out)
  /\ UNCHANGED <<mixer, order, trackNotify, dataNotify, track, writer, writes, reported>>

-----------------------------------------------------------------------------
MixerInit ==
  /\ mixer = [closeErr |-> FALSE, closeWrite |-> FALSE]
  /\ order = <<>>
  /\ trackNotify = FALSE /\ dataNotify = FALSE
  /\ quiet = SilenceGap
  /\ track = [t \in Tracks |-> NoTrackYet]
  /\ reader = [r \in MixReaders |-> OutsideRead]
  /\ writer = [w \in TrackWriters |-> [at |-> "idle"]]
  /\ writes = 0
  /\ reported = [t \in Tracks |-> 0]

ReadStep(r) ==
  \/ HeadTrack(r) \/ TrackWakes(r) \/ WriteWakes(r)
  \/ EnterTrack(r) \/ PullDirect(r) \/ PullResampled(r) \/ DropInput(r) \/ RemoveTrack(r)
  \/ FinishRound(r) \/ ReportClosed(r) \/ SettleRead(r)

WriteStep(w) == WriteFails(w) \/ WriteFull(w) \/ WriteStore(w) \/ WriteWake(w)

TrackCall(t) ==
  \/ CreateTrack(t) \/ TrackCloseWrite(t) \/ TrackClose(t) \/ FadeEnds(t)
  \/ \E on \in BOOLEAN : SetFadeOutDuration(t, on)
  \/ \E w \in TrackWriters, f \in Formats, n \in 1 .. MaxChunk : WriteBegin(w, t, f, n)
  \/ \E w \in TrackWriters, f \in Formats : NewInputFails(w, t, f)

MixerNext ==
  \/ \E r \in MixReaders : ReadCall(r) \/ ReadStep(r)
  \/ \E w \in TrackWriters : WriteStep(w)
  \/ \E t \in Tracks : TrackCall(t)
  \/ MixerCloseWrite \/ MixerCloseWithError

MixerSpec == MixerInit /\ [][MixerNext]_mixerVars

(* The reader of a mixer is a playback loop: it reads again and again. A Write under way goes on.
   Nobody has to create, write or close, and no fade has to end. *)
MixerFairness ==
  /\ \A r \in MixReaders : WF_mixerVars(ReadCall(r) \/ ReadStep(r))
  /\ \A w \in TrackWriters : WF_mixerVars(WriteStep(w))

MixerFairSpec == MixerSpec /\ MixerFairness

-----------------------------------------------------------------------------
(* Types of the shared state and of the locals of every call. *)
MixerTypeOK ==
  /\ mixer \in [closeErr : BOOLEAN, closeWrite : BOOLEAN]
  /\ order \in Seq(Tracks)
  /\ trackNotify \in BOOLEAN /\ dataNotify \in BOOLEAN
  /\ quiet \in 0 .. SilenceGap
  /\ track \in [Tracks -> Track]
  /\ reader \in [MixReaders -> Reader]
  /\ writer \in [TrackWriters -> Writer]
  /\ writes \in 0 .. MaxWrites
  /\ reported \in [Tracks -> Nat]

(* Native audio, in the output format, is played once its input is at the head: an input that
   track.Read has dropped is empty, and a track leaves the mixer when it failed, when writing
   was closed and no input is left, or when reading a head that is resampled failed - whatever
   writers, format changes and closes do between the reader's look at the ring and its
   head.Close or CloseWithError. An error of the resampler takes the inputs behind it along. *)
NativeHeadPlayed ==
  /\ \A t \in Tracks : \A i \in 1 .. track[t].first - 1 :
       track[t].inputs[i].fmt = OutFormat => track[t].inputs[i].stored = 0
  /\ \A r \in MixReaders : reader[r].at = "remove" =>
       LET tk == track[order[reader[r].pos]]
       IN \/ tk.closeErr
          \/ tk.closeWrite /\ ~HasInput(tk)
          \/ HasInput(tk) /\ tk.inputs[tk.first].fmt # OutFormat

(* A writer asleep on a full ring is not forgotten: the ring is closed, a token waits, another
   writer of the ring is awake, or there is data whose next Read leaves a token. One token
   stands for any number of free units and of sleeping writers. *)
SleepersServed ==
  \A w \in TrackWriters : writer[w].at = "wait" =>
    LET in == track[writer[w].track].inputs[writer[w].input]
    IN \/ in.closed \/ in.notify \/ in.stored > 0
       \/ \E v \in TrackWriters : /\ writer[v].at = "write"
                                  /\ writer[v].track = writer[w].track
                                  /\ writer[v].input = writer[w].input

(* With one reader, and unless the mixer is closed for writing, a Read that waits for a track
   does so only while there is none, or a token is there to wake it: the token of a track
   created between its look at the list and its wait is not lost. *)
TrackWakesReader ==
  \A r \in MixReaders :
    reader[r].at = "waitTrack" /\ order # <<>> => trackNotify \/ mixer.closeWrite

(* A track is in the list once, or taken out by one Read that will report it, or reported once:
   rounds, callbacks without the lock and other Reads neither repeat nor forget a report. *)
ReportedOnce ==
  /\ \A i, j \in 1 .. Len(order) : order[i] = order[j] => i = j
  /\ \A t \in Tracks :
       /\ reported[t] <= 1
       /\ t \in Listed => reported[t] = 0 /\ \A r \in MixReaders : t \notin reader[r].gone
       /\ \A r \in MixReaders : t \in reader[r].gone =>
            reported[t] = 0 /\ \A v \in MixReaders \ {r} : t \notin reader[v].gone
       /\ Reporting /\ track[t].made /\ t \notin Listed /\ reported[t] = 0 =>
            \E r \in MixReaders : t \in reader[r].gone

(* A Write returns as long as the mixer is read, also one of several writers of a full ring. *)
WritesReturn ==
  \A w \in TrackWriters : writer[w].at # "idle" ~> writer[w].at = "idle"
=============================================================================
