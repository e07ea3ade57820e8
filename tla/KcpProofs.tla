----------------------------- MODULE KcpProofs ------------------------------
(***************************************************************************)
(* Proofs about a KCP connection and about one stream mux on top of such   *)
(* connections, for any number of goroutines of every kind.                *)
(*                                                                         *)
(* The connection, for any capacities of the channels and any deadline:    *)
(* every step of reading moves units from the front of one queue to the    *)
(* end of the next, so the queues and the log together stay what Input     *)
(* accepted; a writer enqueues its calls in order, and also a call it gave *)
(* up on stays in front of its next one.                                   *)
(*                                                                         *)
(* The mux, for any id space, backlog and limit: an entry is in the table  *)
(* under its own id only, so what a removal by id touches is that one      *)
(* stream, and no entry is both active and queued, so every path that      *)
(* makes one active or drops it moves the counter by exactly one.          *)
(***************************************************************************)
EXTENDS KCPConn, KcpMux, FiniteSetTheorems, SequenceTheorems, TLAPS

-----------------------------------------------------------------------------
(* The connection. *)

Unit == 1 .. MaxUnits
WriteRequest == Writers \X (1 .. MaxWrites)

ReadPlaces == {"idle", "lock", "test", "wait", "parked", "relock"}

(* TypeOK by part of the state *)
StreamTyped ==
  /\ units \in 0 .. MaxUnits
  /\ inputCh \in Seq(Unit) /\ kcpRecv \in Seq(Unit) /\ recvBuf \in Seq(Unit) /\ readLog \in Seq(Unit)

ReaderTyped ==
  /\ now \in 1 .. MaxTime /\ readDeadline \in 0 .. MaxTime - 1
  /\ recvMu \in Readers \cup {"free"}
  /\ tickets \in SUBSET Readers
  /\ rpc \in [Readers -> ReadPlaces]
  /\ timer \in [Readers -> 0 .. MaxTime - 1]
  /\ dpc \in {"idle", "broadcast", "returned"}

WriterTyped ==
  /\ writeCh \in Seq(WriteRequest) /\ sent \in Seq(WriteRequest)
  /\ written \subseteq WriteRequest \X BOOLEAN
  /\ accepted \subseteq WriteRequest
  /\ wpc \in [Writers -> {"idle", "enqueue", "await"}]
  /\ wcount \in [Writers -> 0 .. MaxWrites]

LoopTyped ==
  /\ ipc \in [Inputters -> {"idle", "select"}]
  /\ run \in {"select", "drain", "close", "once", "exit"}
  /\ received \in BOOLEAN /\ closed \in BOOLEAN /\ closeChan \in BOOLEAN
  /\ once \in {"free", "busy", "done"}
  /\ cpc \in [Closers -> {"idle", "signal", "once", "returned"}]

LEMMA TypeParts == TypeOK <=> StreamTyped /\ ReaderTyped /\ WriterTyped /\ LoopTyped
BY DEF TypeOK, StreamTyped, ReaderTyped, WriterTyped, LoopTyped, Unit, WriteRequest, ReadPlaces

-----------------------------------------------------------------------------
(* The order of requests *)

(* A request carries the number of a call its writer has made; while the writer waits
   to enqueue its current call, that one is not there *)
MadeIn(s) ==
  \A i \in 1 .. Len(s) :
    /\ s[i][2] <= wcount[s[i][1]]
    /\ wpc[s[i][1]] = "enqueue" => s[i][2] < wcount[s[i][1]]

OrderedIn(s) ==
  \A i, j \in 1 .. Len(s) : i < j /\ s[i][1] = s[j][1] => s[i][2] < s[j][2]

(* A writer that waits to enqueue has counted its call *)
Counted == \A w \in Writers : wpc[w] = "enqueue" => wcount[w] >= 1

(* What waits in the channel is newer than what was sent *)
SentFirst ==
  \A i \in 1 .. Len(sent), j \in 1 .. Len(writeCh) :
    sent[i][1] = writeCh[j][1] => sent[i][2] < writeCh[j][2]

(* A success that runLoop reported, or Write returned, is in the log *)
Reported ==
  /\ \A q \in WriteRequest : <<q, TRUE>> \in written => \E i \in 1 .. Len(sent) : sent[i] = q
  /\ \A q \in accepted : \E i \in 1 .. Len(sent) : sent[i] = q

WriteInv ==
  /\ MadeIn(sent) /\ MadeIn(writeCh)
  /\ OrderedIn(sent) /\ OrderedIn(writeCh)
  /\ Counted /\ SentFirst /\ Reported

ConnInv ==
  /\ StreamTyped /\ ReaderTyped /\ WriterTyped /\ LoopTyped
  /\ StreamConserved
  /\ WriteInv

LEMMA ConnStart == Init => ConnInv
<1> SUFFICES ASSUME Init PROVE ConnInv
  OBVIOUS
<1> USE ConnAssumption
<1>1. StreamTyped /\ WriterTyped
  BY DEF Init, StreamTyped, WriterTyped
<1>2. ReaderTyped
  BY DEF Init, ReaderTyped, ReadPlaces
<1>3. LoopTyped
  <2>1. ipc \in [Inputters -> {"idle", "select"}] /\ cpc \in [Closers -> {"idle", "signal", "once", "returned"}]
    BY DEF Init
  <2>2. received \in BOOLEAN /\ closed \in BOOLEAN /\ closeChan \in BOOLEAN
    BY Zenon DEF Init
  <2> QED
    BY <2>1, <2>2 DEF Init, LoopTyped
<1>4. StreamConserved
  BY DEF Init, StreamConserved
<1>5. WriteInv
  BY DEF Init, WriteInv, MadeIn, OrderedIn, Counted, SentFirst, Reported
<1> QED
  BY <1>1, <1>2, <1>3, <1>4, <1>5 DEF ConnInv

-----------------------------------------------------------------------------
(* Sequences: what a queue gives and the next one takes *)

LEMMA TakeFront ==
  ASSUME NEW S, NEW b \in Seq(S), NEW n \in 1 .. Len(b)
  PROVE  /\ SubSeq(b, 1, n) \in Seq(S) /\ SubSeq(b, n + 1, Len(b)) \in Seq(S)
         /\ SubSeq(b, 1, n) \o SubSeq(b, n + 1, Len(b)) = b
<1>1. \A i \in 1 .. Len(b) : b[i] \in S
  BY ElementOfSeq
<1>2. SubSeq(b, 1, n) \in Seq(S)
  BY <1>1, SubSeqProperties
<1>3. SubSeq(b, n + 1, Len(b)) \in Seq(S)
  BY <1>1, SubSeqProperties
<1>4. SubSeq(b, 1, n) \o SubSeq(b, n + 1, Len(b)) = b
  <2>1. Len(b) \in Nat /\ 1 \in 1 .. Len(b) + 1 /\ n \in 1 - 1 .. Len(b) /\ Len(b) \in n .. Len(b)
    BY LenProperties
  <2>2. SubSeq(b, 1, n) \o SubSeq(b, n + 1, Len(b)) = SubSeq(b, 1, Len(b))
    BY <2>1, ConcatAdjacentSubSeq
  <2> QED
    BY <2>2, SubSeqFull
<1> QED
  BY <1>2, <1>3, <1>4

(* Concatenation and its parts by name, so that the steps use laws and not elements *)
Cat(a, b) == a \o b
Leading(b, n) == SubSeq(b, 1, n)
Trailing(b, n) == SubSeq(b, n + 1, Len(b))
WithHead(a, b) == Append(a, Head(b))

LEMMA CatLaws ==
  ASSUME NEW a \in Seq(Unit), NEW f \in Seq(Unit), NEW g \in Seq(Unit)
  PROVE  Cat(a, f) \in Seq(Unit) /\ Cat(Cat(a, f), g) = Cat(a, Cat(f, g))
BY ConcatAssociative, ConcatProperties DEF Cat

LEMMA Regroup ==
  ASSUME NEW a \in Seq(Unit), NEW f \in Seq(Unit), NEW g \in Seq(Unit),
         NEW h \in Seq(Unit), NEW k \in Seq(Unit), Cat(f, g) = Cat(h, k)
  PROVE  Cat(Cat(a, f), g) = Cat(Cat(a, h), k)
BY CatLaws

LEMMA FrontAndRest ==
  ASSUME NEW b \in Seq(Unit), NEW n \in 1 .. Len(b)
  PROVE  /\ Leading(b, n) \in Seq(Unit) /\ Trailing(b, n) \in Seq(Unit)
         /\ Cat(Leading(b, n), Trailing(b, n)) = b
BY TakeFront DEF Cat, Leading, Trailing

LEMMA TakeHead ==
  ASSUME NEW a \in Seq(Unit), NEW b \in Seq(Unit), b # <<>>
  PROVE  /\ WithHead(a, b) \in Seq(Unit) /\ Tail(b) \in Seq(Unit)
         /\ Cat(WithHead(a, b), Tail(b)) = Cat(a, b)
<1>1. Head(b) \in Unit /\ Tail(b) \in Seq(Unit)
  BY HeadTailProperties
<1>2. Append(a, Head(b)) = a \o <<Head(b)>> /\ <<Head(b)>> \in Seq(Unit)
  BY <1>1, AppendIsConcat
<1>3. <<Head(b)>> \o Tail(b) = b
  <2>1. Len(b) \in Nat \ {0} /\ Head(b) = b[1]
    BY EmptySeq
  <2>2. SubSeq(b, 1, Len(b)) = <<b[1]>> \o SubSeq(b, 1 + 1, Len(b))
    BY <2>1, SubSeqRecursiveFirst
  <2> QED
    BY <2>1, <2>2, SubSeqFull, TailIsSubSeq
<1> QED
  <2>1. WithHead(a, b) = Cat(a, <<Head(b)>>) /\ WithHead(a, b) \in Seq(Unit)
    BY <1>1, <1>2, AppendProperties DEF WithHead, Cat
  <2>2. Cat(<<Head(b)>>, Tail(b)) = b
    BY <1>3 DEF Cat
  <2> DEFINE c == <<Head(b)>>
             t == Tail(b)
             m == WithHead(a, b)
  <2>3. /\ c \in Seq(Unit) /\ t \in Seq(Unit) /\ m \in Seq(Unit)
        /\ m = Cat(a, c) /\ Cat(c, t) = b
    BY <1>1, <1>2, <2>1, <2>2
  <2> HIDE DEF c, t, m
  <2>4. Cat(m, t) = Cat(a, b)
    BY <2>3, CatLaws
  <2> QED
    BY <2>3, <2>4 DEF m, t

LEMMA NextUnit ==
  ASSUME NEW k \in Nat, NEW a, a = [n \in 1 .. k |-> n]
  PROVE  Append(a, k + 1) = [n \in 1 .. k + 1 |-> n]
OBVIOUS

LEMMA AppendAfter ==
  ASSUME NEW S, NEW a \in Seq(S), NEW b \in Seq(S), NEW x \in S
  PROVE  a \o Append(b, x) = Append(a \o b, x)
<1>1. <<x>> \in Seq(S)
  OBVIOUS
<1> QED
  BY <1>1, AppendIsConcat, ConcatAssociative, ConcatProperties

-----------------------------------------------------------------------------
(* Steps that neither move units nor requests *)

StreamVars == <<units, inputCh, kcpRecv, recvBuf, readLog>>

LEMMA StreamKept ==
  ASSUME StreamTyped, StreamConserved, UNCHANGED StreamVars
  PROVE  StreamTyped' /\ StreamConserved'
BY DEF StreamTyped, StreamConserved, StreamVars

LEMMA WriteKept ==
  ASSUME WriterTyped, WriteInv, UNCHANGED writeVars
  PROVE  WriterTyped' /\ WriteInv'
BY DEF WriterTyped, WriteInv, MadeIn, OrderedIn, Counted, SentFirst, Reported, writeVars

LEMMA Woken ==
  ASSUME ReaderTyped, Broadcast
  PROVE  rpc' \in [Readers -> ReadPlaces] /\ tickets' \in SUBSET Readers
BY DEF ReaderTyped, Broadcast, ReadPlaces

(* Read, its timer, and SetReadDeadline *)
LEMMA ReaderStep ==
  ASSUME ConnInv,
         \/ \E r \in Readers : ReadCall(r) \/ ReadStep(r) \/ TimerFire(r)
         \/ Tick \/ SetReadDeadlineBroadcast
         \/ \E dl \in 1 .. MaxTime - 1 : SetReadDeadline(dl)
  PROVE  ConnInv'
<1> USE ConnAssumption
<1>0. StreamTyped /\ ReaderTyped /\ WriterTyped /\ LoopTyped /\ StreamConserved /\ WriteInv
  BY DEF ConnInv
<1>1. UNCHANGED writeVars /\ UNCHANGED <<ipc, runVars, closeVars, units, inputCh, kcpRecv>>
  BY DEF ReadCall, ReadStep, ReadLock, ReadData, ReadError, ReadMustWait, ReadWait, TimerFire, Tick,
     SetReadDeadline, SetReadDeadlineBroadcast, inputVars
<1>2. WriterTyped' /\ WriteInv'
  BY <1>0, <1>1, WriteKept
<1>3. LoopTyped'
  BY <1>0, <1>1 DEF LoopTyped, runVars, closeVars
<1>4. StreamTyped' /\ StreamConserved'
  <2>1. ASSUME NEW r \in Readers, NEW n \in 1 .. MaxUnits, ReadData(r, n)
        PROVE  StreamTyped' /\ StreamConserved'
    <3>0. n \in 1 .. Len(recvBuf)
      BY <2>1 DEF ReadData
    <3>1. /\ readLog' = readLog \o SubSeq(recvBuf, 1, n)
          /\ recvBuf' = SubSeq(recvBuf, n + 1, Len(recvBuf))
      BY <2>1 DEF ReadData
    <3>2. readLog \in Seq(Unit) /\ recvBuf \in Seq(Unit)
      BY <1>0 DEF StreamTyped
    <3>3. /\ readLog' \in Seq(Unit) /\ recvBuf' \in Seq(Unit)
          /\ readLog' \o recvBuf' = readLog \o recvBuf
      <4> DEFINE f == Leading(recvBuf, n)
                 g == Trailing(recvBuf, n)
      <4>1. f \in Seq(Unit) /\ g \in Seq(Unit) /\ Cat(f, g) = recvBuf
        BY <3>0, <3>2, FrontAndRest
      <4>2. readLog' = Cat(readLog, f) /\ recvBuf' = g
        BY <3>1 DEF Cat, Leading, Trailing
      <4> HIDE DEF f, g
      <4>3. Cat(readLog, f) \in Seq(Unit) /\ Cat(Cat(readLog, f), g) = Cat(readLog, recvBuf)
        BY <3>2, <4>1, CatLaws
      <4>4. Cat(readLog', recvBuf') = Cat(readLog, recvBuf)
        BY <4>2, <4>3
      <4>5. readLog' \in Seq(Unit) /\ recvBuf' \in Seq(Unit)
        BY <4>1, <4>2, <4>3
      <4> QED
        BY <4>4, <4>5 DEF Cat
    <3> QED
      BY <1>0, <1>1, <3>3 DEF StreamTyped, StreamConserved
  <2>2. CASE UNCHANGED <<recvBuf, readLog>>
    BY <1>0, <1>1, <2>2, StreamKept DEF StreamVars
  <2> QED
    BY <2>1, <2>2 DEF ReadCall, ReadStep, ReadLock, ReadError, ReadMustWait, ReadWait, TimerFire, Tick,
       SetReadDeadline, SetReadDeadlineBroadcast, readVars
<1>5. ReaderTyped'
  <2>1. ASSUME NEW r \in Readers, ReadCall(r) \/ ReadLock(r) \/ ReadError(r) \/ ReadMustWait(r) \/ ReadWait(r)
        PROVE  ReaderTyped'
    BY <1>0, <2>1 DEF ReaderTyped, ReadPlaces, ReadCall, ReadLock, ReadError, ReadMustWait, ReadWait, deadlineVars
  <2>2. ASSUME NEW r \in Readers, NEW n \in 1 .. MaxUnits, ReadData(r, n)
        PROVE  ReaderTyped'
    BY <1>0, <2>2 DEF ReaderTyped, ReadPlaces, ReadData, deadlineVars
  <2>3. ASSUME NEW r \in Readers, TimerFire(r)
        PROVE  ReaderTyped'
    <3>1. rpc' \in [Readers -> ReadPlaces] /\ tickets' \in SUBSET Readers
      BY <1>0, <2>3, Woken DEF TimerFire
    <3>2. timer' = [timer EXCEPT ![r] = 0] /\ UNCHANGED <<recvMu, now, readDeadline, dpc>>
      BY <2>3 DEF TimerFire, deadlineVars
    <3>3. timer' \in [Readers -> 0 .. MaxTime - 1]
      BY <1>0, <3>2 DEF ReaderTyped
    <3> QED
      BY <1>0, <3>1, <3>2, <3>3 DEF ReaderTyped
  <2>4. CASE Tick
    BY <1>0, <2>4 DEF ReaderTyped, Tick, readVars
  <2>5. ASSUME NEW dl \in 1 .. MaxTime - 1, SetReadDeadline(dl)
        PROVE  ReaderTyped'
    BY <1>0, <2>5 DEF ReaderTyped, SetReadDeadline, readVars
  <2>6. CASE SetReadDeadlineBroadcast
    <3>1. rpc' \in [Readers -> ReadPlaces] /\ tickets' \in SUBSET Readers
      BY <1>0, <2>6, Woken DEF SetReadDeadlineBroadcast
    <3> QED
      BY <1>0, <2>6, <3>1 DEF ReaderTyped, SetReadDeadlineBroadcast
  <2> QED
    BY <2>1, <2>2, <2>3, <2>4, <2>5, <2>6 DEF ReadStep
<1> QED
  BY <1>2, <1>3, <1>4, <1>5 DEF ConnInv

(* Input, and the closing of the connection *)
LEMMA InputAndCloseStep ==
  ASSUME ConnInv,
         \/ \E i \in Inputters : InputCall(i) \/ InputStep(i)
         \/ RunClosed \/ RunMark \/ RunReturn \/ RunIdleTimeout
         \/ \E c \in Closers : CloseCall(c) \/ CloseStep(c)
         \/ OnceCloseChan \/ OnceBroadcast
  PROVE  ConnInv'
<1> USE ConnAssumption
<1>0. StreamTyped /\ ReaderTyped /\ WriterTyped /\ LoopTyped /\ StreamConserved /\ WriteInv
  BY DEF ConnInv
<1>1. UNCHANGED writeVars /\ UNCHANGED <<recvBuf, readLog, recvMu, timer, deadlineVars, kcpRecv>>
  BY DEF InputCall, InputStep, InputEnqueue, InputClosed, RunClosed, RunMark, RunReturn, RunIdleTimeout,
     CloseCall, CloseStep, CloseMark, CloseReturn, OnceCloseChan, OnceBroadcast, readVars, inputVars
<1>2. WriterTyped' /\ WriteInv'
  BY <1>0, <1>1, WriteKept
<1>3. ReaderTyped'
  <2>1. CASE UNCHANGED <<rpc, tickets>>
    BY <1>0, <1>1, <2>1 DEF ReaderTyped, deadlineVars
  <2>2. CASE Broadcast
    <3>1. rpc' \in [Readers -> ReadPlaces] /\ tickets' \in SUBSET Readers
      BY <1>0, <2>2, Woken
    <3> QED
      BY <1>0, <1>1, <3>1 DEF ReaderTyped, deadlineVars
  <2> QED
    BY <2>1, <2>2 DEF InputCall, InputStep, InputEnqueue, InputClosed, RunClosed, RunMark, RunReturn,
       RunIdleTimeout, CloseCall, CloseStep, CloseMark, CloseReturn, OnceCloseChan, OnceBroadcast, readVars
<1>4. StreamTyped' /\ StreamConserved'
  <2>1. ASSUME NEW i \in Inputters, InputEnqueue(i)
        PROVE  StreamTyped' /\ StreamConserved'
    <3>1. units' = units + 1 /\ inputCh' = Append(inputCh, units + 1) /\ units + 1 \in Unit /\ units' \in 0 .. MaxUnits
      BY <1>0, <2>1 DEF InputEnqueue, StreamTyped, Unit
    <3>2. inputCh' \in Seq(Unit)
      BY <1>0, <3>1, AppendProperties DEF StreamTyped
    <3>3. (readLog \o recvBuf) \o kcpRecv \in Seq(Unit)
      BY <1>0, ConcatProperties DEF StreamTyped
    <3>4. readLog \o recvBuf \o kcpRecv \o inputCh' = Append(readLog \o recvBuf \o kcpRecv \o inputCh, units + 1)
      <4> DEFINE q == (readLog \o recvBuf) \o kcpRecv
                 x == units + 1
      <4>1. q \in Seq(Unit) /\ inputCh \in Seq(Unit) /\ x \in Unit
        BY <1>0, <3>1, <3>3 DEF StreamTyped
      <4>2. inputCh' = Append(inputCh, x)
        BY <3>1
      <4> HIDE DEF q, x
      <4>3. q \o Append(inputCh, x) = Append(q \o inputCh, x)
        BY <4>1, AppendAfter
      <4> QED
        BY <4>2, <4>3, Zenon DEF q, x
    <3>5. readLog \o recvBuf \o kcpRecv \o inputCh' = [n \in 1 .. units + 1 |-> n]
      BY <1>0, <3>4, NextUnit DEF StreamTyped, StreamConserved
    <3> QED
      BY <1>0, <1>1, <3>1, <3>2, <3>5 DEF StreamTyped, StreamConserved
  <2>2. CASE UNCHANGED <<units, inputCh>>
    BY <1>0, <1>1, <2>2, StreamKept DEF StreamVars
  <2> QED
    BY <2>1, <2>2 DEF InputCall, InputStep, InputClosed, RunClosed, RunMark, RunReturn, RunIdleTimeout,
       CloseCall, CloseStep, CloseMark, CloseReturn, OnceCloseChan, OnceBroadcast, inputVars
<1>5. LoopTyped'
  <2>1. ASSUME NEW i \in Inputters, InputCall(i) \/ InputStep(i)
        PROVE  LoopTyped'
    BY <1>0, <2>1 DEF LoopTyped, InputCall, InputStep, InputEnqueue, InputClosed, runVars, closeVars
  <2>2. CASE RunClosed \/ RunMark \/ RunReturn \/ RunIdleTimeout
    BY <1>0, <2>2 DEF LoopTyped, RunClosed, RunMark, RunReturn, RunIdleTimeout, OnceMark, inputVars, closeVars
  <2>3. ASSUME NEW c \in Closers, CloseCall(c) \/ CloseStep(c)
        PROVE  LoopTyped'
    BY <1>0, <2>3 DEF LoopTyped, CloseCall, CloseStep, CloseMark, CloseReturn, OnceMark, inputVars, runVars
  <2>4. CASE OnceCloseChan \/ OnceBroadcast
    BY <1>0, <2>4 DEF LoopTyped, OnceCloseChan, OnceBroadcast, inputVars, runVars
  <2> QED
    BY <2>1, <2>2, <2>3, <2>4
<1> QED
  BY <1>2, <1>3, <1>4, <1>5 DEF ConnInv

-----------------------------------------------------------------------------
(* runLoop's own steps that move units *)
LEMMA DrainStep ==
  ASSUME ConnInv, RunInput \/ DrainRecv \/ DrainDone
  PROVE  ConnInv'
<1> USE ConnAssumption
<1>0. StreamTyped /\ ReaderTyped /\ WriterTyped /\ LoopTyped /\ StreamConserved /\ WriteInv
  BY DEF ConnInv
<1>1. UNCHANGED <<writeVars, deadlineVars, closeVars, units, ipc, readLog, recvMu, timer>>
  BY DEF RunInput, DrainRecv, DrainDone, readVars, inputVars
<1>2. WriterTyped' /\ WriteInv'
  BY <1>0, <1>1, WriteKept
<1>3. ReaderTyped'
  <2>1. CASE UNCHANGED <<rpc, tickets>>
    BY <1>0, <1>1, <2>1 DEF ReaderTyped, deadlineVars
  <2>2. CASE Broadcast
    <3>1. rpc' \in [Readers -> ReadPlaces] /\ tickets' \in SUBSET Readers
      BY <1>0, <2>2, Woken
    <3> QED
      BY <1>0, <1>1, <3>1 DEF ReaderTyped, deadlineVars
  <2> QED
    BY <2>1, <2>2 DEF RunInput, DrainRecv, DrainDone, readVars
<1>4. LoopTyped'
  <2>1. run' \in {"select", "drain"} /\ received' \in BOOLEAN
    BY <1>0 DEF RunInput, DrainRecv, DrainDone, LoopTyped
  <2> QED
    BY <1>0, <1>1, <2>1 DEF LoopTyped, closeVars
<1>5. readLog \in Seq(Unit) /\ recvBuf \in Seq(Unit) /\ kcpRecv \in Seq(Unit) /\ inputCh \in Seq(Unit)
  BY <1>0 DEF StreamTyped
<1>6. readLog \o recvBuf \in Seq(Unit)
  BY <1>5, ConcatProperties
<1>7. StreamTyped' /\ StreamConserved'
  <2>1. CASE RunInput
    <3>1. kcpRecv' = kcpRecv \o inputCh /\ inputCh' = <<>> /\ UNCHANGED <<units, recvBuf, readLog>>
      BY <2>1 DEF RunInput, drainInputChAndProcess, readVars
    <3>2. kcpRecv' \in Seq(Unit) /\ inputCh' \in Seq(Unit)
      BY <1>5, <3>1, ConcatProperties
    <3>3. (readLog \o recvBuf) \o kcpRecv \in Seq(Unit)
      BY <1>5, <1>6, ConcatProperties
    <3>4. ((readLog \o recvBuf) \o kcpRecv) \o inputCh = (readLog \o recvBuf) \o (kcpRecv \o inputCh)
      <4> DEFINE a == readLog \o recvBuf
      <4> HIDE DEF a
      <4>1. a \in Seq(Unit)
        BY <1>6 DEF a
      <4>2. Cat(Cat(a, kcpRecv), inputCh) = Cat(a, Cat(kcpRecv, inputCh))
        BY <1>5, <4>1, CatLaws
      <4> QED
        BY <4>2 DEF Cat, a
    <3>5. ((readLog \o recvBuf) \o kcpRecv') \o inputCh' = (readLog \o recvBuf) \o kcpRecv'
      <4>1. (readLog \o recvBuf) \o kcpRecv' \in Seq(Unit)
        BY <1>6, <3>2, ConcatProperties
      <4> QED
        BY <3>1, <4>1, ConcatEmptySeq
    <3> QED
      BY <1>0, <3>1, <3>2, <3>4, <3>5 DEF StreamTyped, StreamConserved
  <2>2. CASE DrainRecv
    <3>1. /\ recvBuf' = Append(recvBuf, Head(kcpRecv)) /\ kcpRecv' = Tail(kcpRecv) /\ kcpRecv # <<>>
          /\ UNCHANGED <<units, inputCh, readLog>>
      BY <2>2 DEF DrainRecv, RecvReady
    <3>2. /\ recvBuf' \in Seq(Unit) /\ kcpRecv' \in Seq(Unit)
          /\ Cat(recvBuf', kcpRecv') = Cat(recvBuf, kcpRecv)
      <4>1. recvBuf' = WithHead(recvBuf, kcpRecv) /\ kcpRecv' = Tail(kcpRecv) /\ kcpRecv # <<>>
        BY <3>1 DEF WithHead
      <4> QED
        BY <1>5, <4>1, TakeHead
    <3>3. Cat(Cat(readLog, recvBuf'), kcpRecv') = Cat(Cat(readLog, recvBuf), kcpRecv)
      BY <1>5, <3>2, Regroup
    <3>4. (readLog \o recvBuf') \o kcpRecv' = (readLog \o recvBuf) \o kcpRecv
      BY <3>3 DEF Cat
    <3> QED
      BY <1>0, <3>1, <3>2, <3>4 DEF StreamTyped, StreamConserved
  <2>3. CASE DrainDone
    BY <1>0, <2>3, StreamKept DEF DrainDone, StreamVars, inputVars
  <2> QED
    BY <2>1, <2>2, <2>3
<1> QED
  BY <1>2, <1>3, <1>4, <1>7 DEF ConnInv

-----------------------------------------------------------------------------
(* Write *)

LEMMA RequestParts ==
  ASSUME WriterTyped
  PROVE  /\ \A i \in 1 .. Len(sent) : sent[i] \in WriteRequest
         /\ \A i \in 1 .. Len(writeCh) : writeCh[i] \in WriteRequest
         /\ \A q \in WriteRequest : /\ q[1] \in Writers /\ q[2] \in 1 .. MaxWrites
                                    /\ wcount[q[1]] \in 0 .. MaxWrites
         /\ Len(sent) \in Nat /\ Len(writeCh) \in Nat
BY ElementOfSeq DEF WriterTyped, WriteRequest

LEMMA WriterStep ==
  ASSUME ConnInv, NEW w \in Writers,
         WriteCall(w) \/ WriteEnqueue(w) \/ WriteDone(w) \/ WriteAbandon(w, FALSE) \/ WriteAbandon(w, TRUE)
  PROVE  ConnInv'
<1> USE ConnAssumption
<1>0. StreamTyped /\ ReaderTyped /\ WriterTyped /\ LoopTyped /\ StreamConserved /\ WriteInv
  BY DEF ConnInv
<1>1. UNCHANGED <<readVars, deadlineVars, inputVars, runVars, closeVars>>
  BY DEF WriteCall, WriteEnqueue, WriteDone, WriteAbandon
<1>2. StreamTyped' /\ StreamConserved'
  BY <1>0, <1>1, StreamKept DEF StreamVars, inputVars, readVars
<1>3. ReaderTyped' /\ LoopTyped'
  BY <1>0, <1>1 DEF ReaderTyped, LoopTyped, readVars, deadlineVars, inputVars, runVars, closeVars
<1>4. /\ \A i \in 1 .. Len(sent) : sent[i] \in WriteRequest
      /\ \A i \in 1 .. Len(writeCh) : writeCh[i] \in WriteRequest
      /\ \A q \in WriteRequest : /\ q[1] \in Writers /\ q[2] \in 1 .. MaxWrites
                                 /\ wcount[q[1]] \in 0 .. MaxWrites
      /\ Len(sent) \in Nat /\ Len(writeCh) \in Nat
  BY <1>0, RequestParts
<1>5. CASE WriteCall(w)
  <2>1. /\ wcount' = [wcount EXCEPT ![w] = @ + 1] /\ wpc' = [wpc EXCEPT ![w] = "enqueue"]
        /\ wcount[w] < MaxWrites
        /\ UNCHANGED <<writeCh, sent, written, accepted>>
    BY <1>5 DEF WriteCall
  <2>2. WriterTyped'
    BY <1>0, <2>1 DEF WriterTyped
  <2>3. \A v \in Writers : wcount'[v] = IF v = w THEN wcount[v] + 1 ELSE wcount[v]
    BY <1>0, <2>1 DEF WriterTyped
  <2>4. \A v \in Writers : v # w => wpc'[v] = wpc[v]
    BY <1>0, <2>1 DEF WriterTyped
  <2>5. MadeIn(sent)' /\ MadeIn(writeCh)'
    <3>1. ASSUME NEW q \in WriteRequest, q[2] <= wcount[q[1]],
                 wpc[q[1]] = "enqueue" => q[2] < wcount[q[1]]
          PROVE  q[2] <= wcount'[q[1]] /\ (wpc'[q[1]] = "enqueue" => q[2] < wcount'[q[1]])
      <4>1. q[1] \in Writers /\ q[2] \in Nat /\ wcount[q[1]] \in Nat
        BY <1>4
      <4>2. CASE q[1] = w
        <5>1. wcount'[q[1]] = wcount[q[1]] + 1
          BY <2>3, <4>1, <4>2
        <5> QED
          BY <3>1, <4>1, <5>1
      <4>3. CASE q[1] # w
        BY <2>3, <2>4, <3>1, <4>1, <4>3
      <4> QED
        BY <4>2, <4>3
    <3>2. MadeIn(sent)'
      BY <1>0, <1>4, <2>1, <3>1 DEF WriteInv, MadeIn
    <3>3. MadeIn(writeCh)'
      BY <1>0, <1>4, <2>1, <3>1 DEF WriteInv, MadeIn
    <3> QED
      BY <3>2, <3>3
  <2>6. Counted'
    BY <1>0, <2>1, <2>3, <2>4 DEF WriterTyped, WriteInv, Counted
  <2>7. WriteInv'
    BY <1>0, <2>1, <2>5, <2>6 DEF WriteInv, OrderedIn, SentFirst, Reported
  <2> QED
    BY <1>2, <1>3, <2>2, <2>7 DEF ConnInv
<1>6. CASE WriteEnqueue(w)
  <2> DEFINE q == <<w, wcount[w]>>
  <2>1. /\ wpc[w] = "enqueue" /\ wpc' = [wpc EXCEPT ![w] = "await"]
        /\ writeCh' = Append(writeCh, q)
        /\ UNCHANGED <<sent, written, wcount, accepted>>
    BY <1>6 DEF WriteEnqueue, Request
  <2>2. q[1] = w /\ q[2] = wcount[w]
    OBVIOUS
  <2>3. q \in WriteRequest
    <3>1. wcount[w] \in 1 .. MaxWrites
      BY <1>0, <2>1 DEF WriterTyped, WriteInv, Counted
    <3> QED
      BY <3>1 DEF WriteRequest
  <2> HIDE DEF q
  <2>4. /\ writeCh' \in Seq(WriteRequest) /\ Len(writeCh') = Len(writeCh) + 1
        /\ writeCh'[Len(writeCh) + 1] = q
        /\ \A i \in 1 .. Len(writeCh) : writeCh'[i] = writeCh[i]
    BY <1>0, <2>1, <2>3, AppendProperties DEF WriterTyped
  <2>5. WriterTyped'
    BY <1>0, <2>1, <2>4 DEF WriterTyped
  <2>6. \A v \in Writers : wpc'[v] = "enqueue" => wpc[v] = "enqueue" /\ v # w
    BY <1>0, <2>1 DEF WriterTyped
  <2>7. MadeIn(sent)'
    BY <1>0, <1>4, <2>1, <2>6 DEF WriteInv, MadeIn
  <2>8. MadeIn(writeCh)'
    <3> SUFFICES ASSUME NEW i \in 1 .. Len(writeCh')
                 PROVE  /\ writeCh'[i][2] <= wcount[writeCh'[i][1]]
                        /\ wpc'[writeCh'[i][1]] = "enqueue" => writeCh'[i][2] < wcount[writeCh'[i][1]]
      BY <2>1 DEF MadeIn
    <3>1. CASE i = Len(writeCh) + 1
      BY <1>4, <2>2, <2>3, <2>4, <2>6, <3>1
    <3>2. CASE i \in 1 .. Len(writeCh)
      BY <1>0, <1>4, <2>4, <2>6, <3>2 DEF WriteInv, MadeIn
    <3> QED
      BY <1>4, <2>4, <3>1, <3>2
  <2>9. OrderedIn(writeCh)'
    <3> SUFFICES ASSUME NEW i \in 1 .. Len(writeCh'), NEW j \in 1 .. Len(writeCh'),
                        i < j, writeCh'[i][1] = writeCh'[j][1]
                 PROVE  writeCh'[i][2] < writeCh'[j][2]
      BY DEF OrderedIn
    <3>1. i \in 1 .. Len(writeCh)
      BY <1>4, <2>4
    <3>2. CASE j = Len(writeCh) + 1
      BY <1>0, <1>4, <2>1, <2>2, <2>4, <3>1, <3>2 DEF WriteInv, MadeIn
    <3>3. CASE j \in 1 .. Len(writeCh)
      BY <1>0, <2>4, <3>1, <3>3 DEF WriteInv, OrderedIn
    <3> QED
      BY <1>4, <2>4, <3>2, <3>3
  <2>10. SentFirst'
    <3> SUFFICES ASSUME NEW i \in 1 .. Len(sent), NEW j \in 1 .. Len(writeCh'),
                        sent[i][1] = writeCh'[j][1]
                 PROVE  sent[i][2] < writeCh'[j][2]
      BY <2>1 DEF SentFirst
    <3>1. CASE j = Len(writeCh) + 1
      BY <1>0, <1>4, <2>1, <2>2, <2>4, <3>1 DEF WriteInv, MadeIn
    <3>2. CASE j \in 1 .. Len(writeCh)
      BY <1>0, <2>4, <3>2 DEF WriteInv, SentFirst
    <3> QED
      BY <1>4, <2>4, <3>1, <3>2
  <2>11. Counted'
    BY <1>0, <2>1, <2>6 DEF WriteInv, Counted
  <2>12. WriteInv'
    BY <1>0, <2>1, <2>7, <2>8, <2>9, <2>10, <2>11 DEF WriteInv, OrderedIn, Reported
  <2> QED
    BY <1>2, <1>3, <2>5, <2>12 DEF ConnInv
<1>7. CASE WriteDone(w)
  <2> DEFINE q == <<w, wcount[w]>>
  <2>1. /\ wpc' = [wpc EXCEPT ![w] = "idle"]
        /\ accepted' = accepted \/ (accepted' = accepted \cup {q} /\ <<q, TRUE>> \in written)
        /\ UNCHANGED <<writeCh, sent, written, wcount>>
    BY <1>7 DEF WriteDone, Request
  <2> HIDE DEF q
  <2>2. <<q, TRUE>> \in written => q \in WriteRequest
    BY <1>0 DEF WriterTyped
  <2>3. WriterTyped'
    BY <1>0, <2>1, <2>2 DEF WriterTyped
  <2>4. \A v \in Writers : wpc'[v] = "enqueue" => wpc[v] = "enqueue"
    BY <1>0, <2>1 DEF WriterTyped
  <2>5. MadeIn(sent)' /\ MadeIn(writeCh)'
    BY <1>0, <1>4, <2>1, <2>4 DEF WriteInv, MadeIn
  <2>6. Reported'
    BY <1>0, <2>1, <2>2 DEF WriteInv, Reported
  <2>7. Counted'
    BY <1>0, <2>1, <2>4 DEF WriteInv, Counted
  <2> QED
    BY <1>0, <1>2, <1>3, <2>1, <2>3, <2>5, <2>6, <2>7 DEF ConnInv, WriteInv, OrderedIn, SentFirst
<1>8. CASE WriteAbandon(w, FALSE) \/ WriteAbandon(w, TRUE)
  <2>1. /\ wpc' = [wpc EXCEPT ![w] = "idle"]
        /\ UNCHANGED <<writeCh, sent, written, wcount, accepted>>
    BY <1>8 DEF WriteAbandon
  <2>2. WriterTyped'
    BY <1>0, <2>1 DEF WriterTyped
  <2>3. \A v \in Writers : wpc'[v] = "enqueue" => wpc[v] = "enqueue"
    BY <1>0, <2>1 DEF WriterTyped
  <2>4. MadeIn(sent)' /\ MadeIn(writeCh)'
    BY <1>0, <1>4, <2>1, <2>3 DEF WriteInv, MadeIn
  <2> QED
    BY <1>0, <1>2, <1>3, <2>1, <2>2, <2>3, <2>4 DEF ConnInv, WriteInv, OrderedIn, Counted, SentFirst, Reported
<1> QED
  BY <1>5, <1>6, <1>7, <1>8

(* runLoop takes the oldest request, and gives it to KCP or drops it *)
LEMMA RunWriteStep ==
  ASSUME ConnInv, NEW ok \in BOOLEAN, RunWrite(ok)
  PROVE  ConnInv'
<1> USE ConnAssumption
<1> DEFINE q == Head(writeCh)
<1>0. StreamTyped /\ ReaderTyped /\ WriterTyped /\ LoopTyped /\ StreamConserved /\ WriteInv
  BY DEF ConnInv
<1>1. /\ writeCh # <<>> /\ writeCh' = Tail(writeCh)
      /\ sent' = IF ok THEN Append(sent, q) ELSE sent
      /\ written' = written \cup {<<q, ok>>}
      /\ run' = "drain"
      /\ UNCHANGED <<wpc, wcount, accepted, received, readVars, deadlineVars, inputVars, closeVars>>
  BY DEF RunWrite
<1>2. StreamTyped' /\ StreamConserved'
  BY <1>0, <1>1, StreamKept DEF StreamVars, inputVars, readVars
<1>3. ReaderTyped' /\ LoopTyped'
  BY <1>0, <1>1 DEF ReaderTyped, LoopTyped, readVars, deadlineVars, inputVars, closeVars
<1>4. /\ \A i \in 1 .. Len(sent) : sent[i] \in WriteRequest
      /\ \A i \in 1 .. Len(writeCh) : writeCh[i] \in WriteRequest
      /\ \A p \in WriteRequest : /\ p[1] \in Writers /\ p[2] \in 1 .. MaxWrites
                                 /\ wcount[p[1]] \in 0 .. MaxWrites
      /\ Len(sent) \in Nat /\ Len(writeCh) \in Nat
  BY <1>0, RequestParts
<1>5. /\ q \in WriteRequest /\ Tail(writeCh) \in Seq(WriteRequest)
      /\ Len(writeCh') = Len(writeCh) - 1 /\ Len(writeCh) >= 1 /\ q = writeCh[1]
      /\ \A i \in 1 .. Len(writeCh') : writeCh'[i] = writeCh[i + 1] /\ i + 1 \in 2 .. Len(writeCh)
  BY <1>0, <1>1, HeadTailProperties, EmptySeq DEF WriterTyped
<1> HIDE DEF q
<1>6. ok => /\ sent' \in Seq(WriteRequest) /\ Len(sent') = Len(sent) + 1
            /\ sent'[Len(sent) + 1] = q
            /\ \A i \in 1 .. Len(sent) : sent'[i] = sent[i]
  BY <1>0, <1>1, <1>5, AppendProperties DEF WriterTyped
<1>7. ~ok => sent' = sent
  BY <1>1
<1>8. WriterTyped'
  <2>1. <<q, ok>> \in WriteRequest \X BOOLEAN
    BY <1>5
  <2> QED
    BY <1>0, <1>1, <1>5, <1>6, <1>7, <2>1 DEF WriterTyped
<1>9. MadeIn(writeCh)'
  <2> SUFFICES ASSUME NEW i \in 1 .. Len(writeCh')
               PROVE  /\ writeCh'[i][2] <= wcount[writeCh'[i][1]]
                      /\ wpc[writeCh'[i][1]] = "enqueue" => writeCh'[i][2] < wcount[writeCh'[i][1]]
    BY <1>1 DEF MadeIn
  <2>1. writeCh'[i] = writeCh[i + 1] /\ i + 1 \in 1 .. Len(writeCh)
    BY <1>4, <1>5
  <2> QED
    BY <1>0, <2>1 DEF WriteInv, MadeIn
<1>10. OrderedIn(writeCh)'
  <2> SUFFICES ASSUME NEW i \in 1 .. Len(writeCh'), NEW j \in 1 .. Len(writeCh'),
                      i < j, writeCh'[i][1] = writeCh'[j][1]
               PROVE  writeCh'[i][2] < writeCh'[j][2]
    BY DEF OrderedIn
  <2>1. /\ writeCh'[i] = writeCh[i + 1] /\ i + 1 \in 1 .. Len(writeCh)
        /\ writeCh'[j] = writeCh[j + 1] /\ j + 1 \in 1 .. Len(writeCh)
        /\ i + 1 < j + 1
    BY <1>4, <1>5
  <2> QED
    BY <1>0, <2>1 DEF WriteInv, OrderedIn
<1>11. CASE ~ok
  <2>1. MadeIn(sent)' /\ OrderedIn(sent)'
    BY <1>0, <1>1, <1>7, <1>11 DEF WriteInv, MadeIn, OrderedIn
  <2>2. SentFirst'
    <3> SUFFICES ASSUME NEW i \in 1 .. Len(sent), NEW j \in 1 .. Len(writeCh'),
                        sent[i][1] = writeCh'[j][1]
                 PROVE  sent[i][2] < writeCh'[j][2]
      BY <1>7, <1>11 DEF SentFirst
    <3>1. writeCh'[j] = writeCh[j + 1] /\ j + 1 \in 1 .. Len(writeCh)
      BY <1>4, <1>5
    <3> QED
      BY <1>0, <3>1 DEF WriteInv, SentFirst
  <2>3. Reported'
    <3>1. \A p \in WriteRequest : <<p, TRUE>> \in written' => <<p, TRUE>> \in written
      BY <1>1, <1>11
    <3> QED
      BY <1>0, <1>1, <1>7, <1>11, <3>1 DEF WriteInv, Reported
  <2> QED
    BY <1>0, <1>1, <1>2, <1>3, <1>8, <1>9, <1>10, <2>1, <2>2, <2>3 DEF ConnInv, WriteInv, Counted
<1>12. CASE ok
  <2>0. \A i \in 1 .. Len(sent') : \/ i \in 1 .. Len(sent) /\ sent'[i] = sent[i]
                                   \/ i = Len(sent) + 1 /\ sent'[i] = q
    BY <1>4, <1>6, <1>12
  <2>1. MadeIn(sent)'
    <3> SUFFICES ASSUME NEW i \in 1 .. Len(sent')
                 PROVE  /\ sent'[i][2] <= wcount[sent'[i][1]]
                        /\ wpc[sent'[i][1]] = "enqueue" => sent'[i][2] < wcount[sent'[i][1]]
      BY <1>1 DEF MadeIn
    <3>1. CASE i \in 1 .. Len(sent) /\ sent'[i] = sent[i]
      BY <1>0, <3>1 DEF WriteInv, MadeIn
    <3>2. CASE sent'[i] = q
      <4>1. 1 \in 1 .. Len(writeCh)
        BY <1>4, <1>5
      <4> QED
        BY <1>0, <1>5, <3>2, <4>1 DEF WriteInv, MadeIn
    <3> QED
      BY <2>0, <3>1, <3>2
  <2>2. OrderedIn(sent)'
    <3> SUFFICES ASSUME NEW i \in 1 .. Len(sent'), NEW j \in 1 .. Len(sent'),
                        i < j, sent'[i][1] = sent'[j][1]
                 PROVE  sent'[i][2] < sent'[j][2]
      BY DEF OrderedIn
    <3>1. i \in 1 .. Len(sent) /\ sent'[i] = sent[i]
      BY <1>4, <1>6, <1>12
    <3>2. CASE j \in 1 .. Len(sent) /\ sent'[j] = sent[j]
      BY <1>0, <3>1, <3>2 DEF WriteInv, OrderedIn
    <3>3. CASE sent'[j] = q
      <4>1. 1 \in 1 .. Len(writeCh) /\ sent[i][1] = writeCh[1][1]
        BY <1>4, <1>5, <3>1, <3>3
      <4>2. sent[i][2] < writeCh[1][2]
        BY <1>0, <3>1, <4>1 DEF WriteInv, SentFirst
      <4> QED
        BY <1>5, <3>1, <3>3, <4>2
    <3> QED
      BY <2>0, <3>2, <3>3
  <2>3. SentFirst'
    <3> SUFFICES ASSUME NEW i \in 1 .. Len(sent'), NEW j \in 1 .. Len(writeCh'),
                        sent'[i][1] = writeCh'[j][1]
                 PROVE  sent'[i][2] < writeCh'[j][2]
      BY DEF SentFirst
    <3>1. writeCh'[j] = writeCh[j + 1] /\ j + 1 \in 1 .. Len(writeCh) /\ 1 \in 1 .. Len(writeCh) /\ 1 < j + 1
      BY <1>4, <1>5
    <3>2. CASE i \in 1 .. Len(sent) /\ sent'[i] = sent[i]
      BY <1>0, <3>1, <3>2 DEF WriteInv, SentFirst
    <3>3. CASE sent'[i] = q
      BY <1>0, <1>5, <3>1, <3>3 DEF WriteInv, OrderedIn
    <3> QED
      BY <2>0, <3>2, <3>3
  <2>4. Reported'
    <3>1. \A p : (\E i \in 1 .. Len(sent) : sent[i] = p) => \E i \in 1 .. Len(sent') : sent'[i] = p
      <4> SUFFICES ASSUME NEW p, NEW i \in 1 .. Len(sent), sent[i] = p
                   PROVE  \E j \in 1 .. Len(sent') : sent'[j] = p
        OBVIOUS
      <4>1. i \in 1 .. Len(sent') /\ sent'[i] = sent[i]
        BY <1>4, <1>6, <1>12
      <4> QED
        BY <4>1
    <3>2. \E i \in 1 .. Len(sent') : sent'[i] = q
      <4>1. Len(sent) + 1 \in 1 .. Len(sent') /\ sent'[Len(sent) + 1] = q
        BY <1>4, <1>6, <1>12
      <4> QED
        BY <4>1
    <3>3. \A p \in WriteRequest : <<p, TRUE>> \in written' => p = q \/ <<p, TRUE>> \in written
      BY <1>1
    <3> QED
      BY <1>0, <1>1, <3>1, <3>2, <3>3 DEF WriteInv, Reported
  <2> QED
    BY <1>0, <1>1, <1>2, <1>3, <1>8, <1>9, <1>10, <2>1, <2>2, <2>3, <2>4 DEF ConnInv, WriteInv, Counted
<1> QED
  BY <1>11, <1>12

-----------------------------------------------------------------------------
LEMMA ConnStep ==
  ASSUME ConnInv, [Next]_vars
  PROVE  ConnInv'
<1>1. CASE UNCHANGED vars
  <2>1. UNCHANGED StreamVars /\ UNCHANGED writeVars
    BY <1>1 DEF vars, StreamVars, writeVars
  <2>2. StreamTyped' /\ StreamConserved' /\ WriterTyped' /\ WriteInv'
    BY <2>1, StreamKept, WriteKept DEF ConnInv
  <2>3. ReaderTyped' /\ LoopTyped'
    BY <1>1 DEF vars, ConnInv, ReaderTyped, LoopTyped
  <2> QED
    BY <2>2, <2>3 DEF ConnInv
<1>2. CASE \/ \E r \in Readers : ReadCall(r) \/ ReadStep(r) \/ TimerFire(r)
           \/ Tick \/ SetReadDeadlineBroadcast
           \/ \E dl \in 1 .. MaxTime - 1 : SetReadDeadline(dl)
  BY <1>2, ReaderStep
<1>3. CASE \/ \E i \in Inputters : InputCall(i) \/ InputStep(i)
           \/ RunClosed \/ RunMark \/ RunReturn \/ RunIdleTimeout
           \/ \E c \in Closers : CloseCall(c) \/ CloseStep(c)
           \/ OnceCloseChan \/ OnceBroadcast
  BY <1>3, InputAndCloseStep
<1>4. CASE RunInput \/ DrainRecv \/ DrainDone
  BY <1>4, DrainStep
<1>5. ASSUME NEW ok \in BOOLEAN, RunWrite(ok) PROVE ConnInv'
  BY <1>5, RunWriteStep
<1>6. ASSUME NEW w \in Writers, WriteCall(w) \/ WriteStep(w) \/ WriteAbandon(w, TRUE) PROVE ConnInv'
  BY <1>6, WriterStep DEF WriteStep
<1> QED
  BY <1>1, <1>2, <1>3, <1>4, <1>5, <1>6 DEF Next, RunStep

LEMMA ConnAlways == Spec => []ConnInv
<1>1. Init => ConnInv
  BY ConnStart
<1>2. ConnInv /\ [Next]_vars => ConnInv'
  BY ConnStep
<1> QED
  BY <1>1, <1>2, PTL DEF Spec

(* The state of a connection stays well typed, for any number of goroutines. *)
THEOREM ConnTypeCorrect == Spec => []TypeOK
<1>1. ConnInv => TypeOK
  BY TypeParts DEF ConnInv
<1> QED
  BY <1>1, ConnAlways, PTL

(* What Input accepted is what Read returned followed by what is on its way, in
   order: no unit is lost, repeated or overtaken, for any number of concurrent Reads of
   any size, any batch and any Close (drainInputChAndProcess, drainRecv, Read). *)
THEOREM NoUnitLost == Spec => []StreamConserved
<1>1. ConnInv => StreamConserved
  BY DEF ConnInv
<1> QED
  BY <1>1, ConnAlways, PTL

(* A Write that reported success was sent, no request is sent twice, and one
   writer's requests leave in the order of its calls, those that timed out included,
   for any number of writers and any capacity of writeCh (Write, runLoop). *)
THEOREM WritesLeaveInOrder == Spec => []WritesInOrder
<1>1. ConnInv => WritesInOrder
  <2> SUFFICES ASSUME ConnInv PROVE WritesInOrder
    OBVIOUS
  <2>1. DOMAIN sent = 1 .. Len(sent)
    BY LenProperties DEF ConnInv, WriterTyped
  <2>2. accepted \subseteq ToSet(sent)
    BY <2>1 DEF ConnInv, WriteInv, Reported, ToSet
  <2> QED
    BY <2>1, <2>2 DEF ConnInv, WriteInv, OrderedIn, WritesInOrder
<1> QED
  BY <1>1, ConnAlways, PTL

-----------------------------------------------------------------------------
(* The stream mux. *)

(* Callbacks and callers that know an entry keep its incarnation, others the id *)
Actors ==
  /\ acc \in [Accepters -> [at : {"idle", "select", "refused"}] \cup [at : {"popped"}, id : Ids]]
  /\ inp \in [FrameWorkers -> {Idle} \cup [at : {"frame", "again", "remove"}, id : Ids, inc : Incs \cup {NoInc}]
                             \cup [at : {"lookup"}, id : Ids]]
  /\ clo \in [StreamClosers -> {Idle} \cup [at : {"wait"}, inc : Incs]]

(* An entry is in the table under its own id only *)
OwnId == \A id \in Ids : Present(id) => entry[streams[id]].id = id

(* A stream waits to be accepted or is active, never both *)
QueuedOrActive ==
  \A id \in Ids : Present(id) => ~(entry[streams[id]].queued /\ entry[streams[id]].active)

Table ==
  /\ streams \in [Ids -> 0 .. created] /\ entry \in [Incs -> Entry]
  /\ created \in 0 .. MaxInc /\ activeStreams \in Nat
  /\ OwnId /\ QueuedOrActive /\ ActiveExact

Flags ==
  /\ nextLocal \in Ids /\ acceptCh \in Seq(Ids)
  /\ accepting \in BOOLEAN /\ stopped \in BOOLEAN /\ stopping \in BOOLEAN
  /\ phase \in {"open", "closing", "closed"}
  /\ fired \subseteq Incs /\ opening \subseteq Incs /\ handed \subseteq Ids /\ todo \subseteq Ids

MuxInv == Flags /\ Actors /\ Table /\ QueuedReachable /\ ClosedEmpty

-----------------------------------------------------------------------------
LEMMA IdsFinite ==
  /\ 0 \in Ids /\ IsFiniteSet(Ids) /\ (\A S \in SUBSET Ids : IsFiniteSet(S))
  /\ \A n \in Nat : n % IdSpace \in Ids
<1>1. IdSpace \in Nat /\ IdSpace > 0
  BY KcpMuxAssumption
<1>2. 0 \in Ids /\ \A n \in Nat : n % IdSpace \in Ids
  BY <1>1 DEF Ids
<1>3. IsFiniteSet(Ids)
  BY <1>1, FS_Interval DEF Ids
<1>4. \A S \in SUBSET Ids : IsFiniteSet(S)
  BY <1>3, FS_Subset
<1> QED
  BY <1>2, <1>3, <1>4

LEMMA TableUnfold ==
  ASSUME Table
  PROVE  /\ streams \in [Ids -> 0 .. created] /\ entry \in [Incs -> Entry]
         /\ created \in 0 .. MaxInc /\ activeStreams \in Nat
         /\ OwnId /\ QueuedOrActive /\ ActiveExact
BY DEF Table

(* What is in the table is an entry that was created. *)
LEMMA PresentInc ==
  ASSUME Table, NEW id \in Ids
  PROVE  /\ streams[id] \in Incs \cup {NoInc}
         /\ Present(id) => streams[id] \in Incs /\ streams[id] <= created
         /\ streams[id] \in Incs => Present(id)
<1>1. streams[id] \in 0 .. created /\ created \in 0 .. MaxInc
  BY TableUnfold
<1> QED
  BY <1>1, KcpMuxAssumption DEF Present, Incs, NoInc

(* No two ids lead to the same entry. *)
LEMMA OneIdPerEntry ==
  ASSUME Table, NEW id \in Ids, NEW other \in Ids, Present(id), streams[id] = streams[other]
  PROVE  id = other
BY TableUnfold DEF OwnId, Present

LEMMA ReleasedEntry ==
  ASSUME NEW e \in Entry
  PROVE  Released(e) \in Entry /\ Released(e).id = e.id /\ ~Released(e).active /\ ~Released(e).queued
BY DEF Released, Entry

(* Removing streams takes exactly the active ones off the counter. *)
LEMMA RemoveStreamsTable ==
  ASSUME Table, NEW ids \in SUBSET Ids, removeStreams(ids)
  PROVE  /\ Table' /\ QueuedIds' = QueuedIds \ ids
         /\ \A id \in Ids : Present(id)' <=> Present(id) /\ id \notin ids
<1>1. /\ streams \in [Ids -> 0 .. created] /\ entry \in [Incs -> Entry]
      /\ created \in 0 .. MaxInc /\ activeStreams \in Nat
      /\ OwnId /\ QueuedOrActive /\ ActiveExact
  BY TableUnfold
<1>2. /\ created' = created /\ activeStreams' = activeStreams - Cardinality(ActiveIds \cap ids)
      /\ streams' = [id \in Ids |-> IF id \in ids THEN NoInc ELSE streams[id]]
      /\ entry' = [i \in Incs |->
                    IF \E id \in ids : streams[id] = i THEN Released(entry[i]) ELSE entry[i]]
  BY DEF removeStreams
<1>3. streams' \in [Ids -> 0 .. created'] /\ entry' \in [Incs -> Entry]
  BY <1>1, <1>2, ReleasedEntry DEF NoInc
<1>4. \A id \in Ids : /\ id \in ids => ~Present(id)'
                      /\ id \notin ids => streams'[id] = streams[id]
                      /\ Present(id)' <=> Present(id) /\ id \notin ids
  BY <1>1, <1>2 DEF Present
<1>5. ASSUME NEW id \in Ids, id \notin ids, Present(id)
      PROVE  entry'[streams'[id]] = entry[streams[id]]
  <2>1. streams[id] \in Incs
    BY <1>5, PresentInc
  <2>2. \A o \in ids : streams[o] # streams[id]
    BY <1>5, OneIdPerEntry
  <2> QED
    BY <1>2, <1>4, <1>5, <2>1, <2>2
<1>6. OwnId' /\ QueuedOrActive'
  BY <1>1, <1>4, <1>5 DEF OwnId, QueuedOrActive, Present
<1>7. ActiveIds' = ActiveIds \ ids
  BY <1>4, <1>5 DEF ActiveIds, Present
<1>8. QueuedIds' = QueuedIds \ ids
  BY <1>4, <1>5 DEF QueuedIds, Present
<1>9. activeStreams' = Cardinality(ActiveIds') /\ activeStreams' \in Nat
  <2>1. IsFiniteSet(ActiveIds)
    BY IdsFinite DEF ActiveIds
  <2>2. Cardinality(ActiveIds \ ids) = Cardinality(ActiveIds) - Cardinality(ActiveIds \cap ids)
    BY <2>1, FS_Difference
  <2>3. Cardinality(ActiveIds \ ids) \in Nat
    BY <2>1, FS_Difference, FS_CardinalityType
  <2> QED
    BY <1>1, <1>2, <1>7, <2>2, <2>3 DEF ActiveExact
<1>10. ActiveExact'
  BY <1>9 DEF ActiveExact
<1> QED
  BY <1>1, <1>2, <1>3, <1>4, <1>6, <1>8, <1>9, <1>10 DEF Table

(* A new entry under a free id, queued or active. *)
LEMMA NewEntryTable ==
  ASSUME Table, NEW id \in Ids, NEW e \in Entry, ~Present(id), newStreamEntry(id, e), e.id = id,
         ~(e.queued /\ e.active),
         activeStreams' = IF e.active THEN activeStreams + 1 ELSE activeStreams
  PROVE  /\ Table' /\ created + 1 \in Incs
         /\ QueuedIds' = IF e.queued THEN QueuedIds \cup {id} ELSE QueuedIds
<1> DEFINE n == created + 1
<1>1. /\ streams \in [Ids -> 0 .. created] /\ entry \in [Incs -> Entry]
      /\ created \in 0 .. MaxInc /\ activeStreams \in Nat
      /\ OwnId /\ QueuedOrActive /\ ActiveExact
  BY TableUnfold
<1>2. /\ created < MaxInc /\ created' = n
      /\ streams' = [streams EXCEPT ![id] = n] /\ entry' = [entry EXCEPT ![n] = e]
  BY DEF newStreamEntry
<1>3. n \in Incs /\ created' \in 0 .. MaxInc /\ n # NoInc /\ n > created
      /\ streams' \in [Ids -> 0 .. created']
  BY <1>1, <1>2, KcpMuxAssumption DEF Incs, NoInc
<1> HIDE DEF n
<1>4. entry' \in [Incs -> Entry] /\ entry'[n] = e /\ streams'[id] = n /\ Present(id)'
  BY <1>1, <1>2, <1>3 DEF Present
<1>5. ASSUME NEW o \in Ids, o # id
      PROVE  /\ Present(o)' <=> Present(o)
             /\ streams'[o] = streams[o]
             /\ Present(o) => entry'[streams'[o]] = entry[streams[o]]
  <2>1. streams'[o] = streams[o]
    BY <1>1, <1>2, <1>5
  <2>2. Present(o)' <=> Present(o)
    BY <2>1 DEF Present
  <2>3. ASSUME Present(o) PROVE entry'[streams'[o]] = entry[streams[o]]
    <3>1. streams[o] \in Incs /\ streams[o] <= created
      BY <2>3, PresentInc
    <3>2. streams[o] # n
      BY <1>1, <1>3, <3>1 DEF Incs
    <3> QED
      BY <1>1, <1>2, <1>3, <2>1, <3>1, <3>2
  <2> QED
    BY <2>1, <2>2, <2>3
<1>6. OwnId' /\ QueuedOrActive'
  BY <1>1, <1>4, <1>5 DEF OwnId, QueuedOrActive, Present
<1>7. QueuedIds' = IF e.queued THEN QueuedIds \cup {id} ELSE QueuedIds
  BY <1>4, <1>5 DEF QueuedIds, Present
<1>8. ActiveIds' = IF e.active THEN ActiveIds \cup {id} ELSE ActiveIds
  BY <1>4, <1>5 DEF ActiveIds, Present
<1>9. IsFiniteSet(ActiveIds) /\ id \notin ActiveIds
  BY IdsFinite DEF ActiveIds
<1>10. Cardinality(ActiveIds \cup {id}) = Cardinality(ActiveIds) + 1
  BY <1>9, FS_AddElement
<1>11. ActiveExact' /\ activeStreams' \in Nat
  BY <1>1, <1>8, <1>10 DEF ActiveExact
<1> QED
  BY <1>1, <1>3, <1>4, <1>6, <1>7, <1>11 DEF Table, n

-----------------------------------------------------------------------------
(* A step that leaves the table, but for the marks of a close, and the     *)
(* accept queue alone, and can only bring the mux nearer to its end.       *)
LEMMA SameTableStep ==
  ASSUME MuxInv, Flags', Actors', entry' \in [Incs -> Entry],
         \A i \in Incs : /\ entry'[i].id = entry[i].id /\ entry'[i].active = entry[i].active
                         /\ entry'[i].queued = entry[i].queued,
         streams' = streams, created' = created, activeStreams' = activeStreams,
         acceptCh' = acceptCh,
         phase' = "open" => phase = "open", accepting' => accepting,
         phase' = "open" /\ accepting' =>
           \A a \in Accepters : acc[a].at = "popped" /\ acc[a].id \in QueuedIds => acc'[a] = acc[a],
         phase' = "closed" => phase = "closed"
  PROVE  MuxInv'
<1>1. Table /\ QueuedReachable /\ ClosedEmpty
  BY DEF MuxInv
<1>2. \A id \in Ids : Present(id)' <=> Present(id)
  BY DEF Present
<1>3. \A id \in Ids : Present(id) => streams[id] \in Incs
  BY <1>1, PresentInc
<1>4. QueuedIds' = QueuedIds /\ ActiveIds' = ActiveIds
  BY <1>2, <1>3 DEF QueuedIds, ActiveIds, Present
<1>5. OwnId' /\ QueuedOrActive'
  BY <1>1, <1>2, <1>3, TableUnfold DEF OwnId, QueuedOrActive, Present
<1>6. Table'
  BY <1>1, <1>4, <1>5, TableUnfold DEF Table, ActiveExact
<1>7. QueuedReachable'
  BY <1>1, <1>4 DEF QueuedReachable
<1>8. ClosedEmpty'
  BY <1>1, <1>2 DEF ClosedEmpty
<1> QED
  BY <1>6, <1>7, <1>8 DEF MuxInv

LEMMA QuietStep ==
  ASSUME MuxInv, Flags', Actors', UNCHANGED table, acceptCh' = acceptCh,
         phase' = "open" => phase = "open", accepting' => accepting,
         phase' = "open" /\ accepting' =>
           \A a \in Accepters : acc[a].at = "popped" /\ acc[a].id \in QueuedIds => acc'[a] = acc[a],
         phase' = "closed" => phase = "closed"
  PROVE  MuxInv'
<1>1. /\ entry' = entry /\ streams' = streams /\ created' = created /\ activeStreams' = activeStreams
      /\ entry' \in [Incs -> Entry]
  BY TableUnfold DEF table, MuxInv
<1> QED
  BY <1>1, SameTableStep

LEMMA RemoveStep ==
  ASSUME MuxInv, Flags', Actors', NEW ids \in SUBSET Ids, removeStreams(ids),
         acceptCh' = acceptCh, acc' = acc,
         phase' = "open" => phase = "open", accepting' => accepting,
         phase' = "closed" => phase = "closed" \/ ids = Ids
  PROVE  MuxInv'
<1>1. Table /\ QueuedReachable /\ ClosedEmpty
  BY DEF MuxInv
<1>2. /\ Table' /\ QueuedIds' = QueuedIds \ ids
      /\ \A id \in Ids : Present(id)' <=> Present(id) /\ id \notin ids
  BY <1>1, RemoveStreamsTable
<1>3. QueuedReachable'
  BY <1>1, <1>2 DEF QueuedReachable
<1>4. ClosedEmpty'
  BY <1>1, <1>2 DEF ClosedEmpty
<1> QED
  BY <1>2, <1>3, <1>4 DEF MuxInv

LEMMA FlagsUnfold ==
  ASSUME MuxInv
  PROVE  /\ nextLocal \in Ids /\ acceptCh \in Seq(Ids)
         /\ accepting \in BOOLEAN /\ stopped \in BOOLEAN /\ stopping \in BOOLEAN
         /\ phase \in {"open", "closing", "closed"}
         /\ fired \subseteq Incs /\ opening \subseteq Incs /\ handed \subseteq Ids
         /\ todo \subseteq Ids /\ Table /\ Actors /\ Flags
         /\ entry \in [Incs -> Entry] /\ \A k \in Incs : entry[k].id \in Ids
<1>1. Flags /\ Table /\ Actors
  BY DEF MuxInv
<1>2. entry \in [Incs -> Entry]
  BY <1>1, TableUnfold
<1>3. \A k \in Incs : entry[k].id \in Ids
  BY <1>2 DEF Entry
<1> QED
  BY <1>1, <1>2, <1>3 DEF Flags

(* The three kinds of goroutines move one at a time. *)
LEMMA ActorSame ==
  ASSUME Actors, UNCHANGED <<acc, inp, clo>>
  PROVE  Actors'
BY DEF Actors

LEMMA AccepterMoves ==
  ASSUME Actors, NEW a \in Accepters, UNCHANGED <<inp, clo>>,
         NEW q \in [at : {"idle", "select", "refused"}] \cup [at : {"popped"}, id : Ids],
         acc' = [acc EXCEPT ![a] = q]
  PROVE  Actors' /\ acc'[a] = q /\ \A b \in Accepters : b # a => acc'[b] = acc[b]
BY DEF Actors

LEMMA InputterMoves ==
  ASSUME Actors, NEW i \in FrameWorkers, UNCHANGED <<acc, clo>>,
         NEW q \in {Idle} \cup [at : {"frame", "again", "remove"}, id : Ids, inc : Incs \cup {NoInc}]
                     \cup [at : {"lookup"}, id : Ids],
         inp' = [inp EXCEPT ![i] = q]
  PROVE  Actors'
BY DEF Actors

LEMMA CloserMoves ==
  ASSUME Actors, NEW c \in StreamClosers, UNCHANGED <<acc, inp>>,
         NEW q \in {Idle} \cup [at : {"wait"}, inc : Incs], clo' = [clo EXCEPT ![c] = q]
  PROVE  Actors'
BY DEF Actors

LEMMA InputterAt ==
  ASSUME Actors, NEW i \in FrameWorkers, inp[i].at # "idle"
  PROVE  /\ inp[i].id \in Ids
         /\ inp[i].at # "lookup" =>
              /\ inp[i] \in [at : {"frame", "again", "remove"}, id : Ids, inc : Incs \cup {NoInc}]
              /\ [inp[i] EXCEPT !.at = "remove"] \in
                    [at : {"frame", "again", "remove"}, id : Ids, inc : Incs \cup {NoInc}]
<1>1. \/ inp[i] \in [at : {"frame", "again", "remove"}, id : Ids, inc : Incs \cup {NoInc}]
      \/ inp[i] \in [at : {"lookup"}, id : Ids]
  BY DEF Actors, Idle
<1>2. CASE inp[i] \in [at : {"lookup"}, id : Ids]
  BY <1>2
<1>3. CASE inp[i] \in [at : {"frame", "again", "remove"}, id : Ids, inc : Incs \cup {NoInc}]
  BY <1>3
<1> QED
  BY <1>1, <1>2, <1>3

-----------------------------------------------------------------------------
(* The application's steps. *)
LEMMA NewEntries ==
  ASSUME NEW id \in Ids
  PROVE  /\ [NewEntry(id) EXCEPT !.queued = TRUE] \in Entry
         /\ [NewEntry(id) EXCEPT !.queued = TRUE].id = id
         /\ [NewEntry(id) EXCEPT !.queued = TRUE].queued = TRUE
         /\ [NewEntry(id) EXCEPT !.queued = TRUE].active = FALSE
         /\ [NewEntry(id) EXCEPT !.active = TRUE] \in Entry
         /\ [NewEntry(id) EXCEPT !.active = TRUE].id = id
         /\ [NewEntry(id) EXCEPT !.active = TRUE].queued = FALSE
         /\ [NewEntry(id) EXCEPT !.active = TRUE].active = TRUE
BY DEF NewEntry, Entry

LEMMA OpenStep ==
  ASSUME MuxInv, Open
  PROVE  MuxInv'
<1>1. /\ phase = "open" /\ UNCHANGED <<acceptCh, fired, handed, acc, inp, clo>> /\ UNCHANGED ctl
      /\ phase' = phase /\ accepting' = accepting
  BY DEF Open, ctl
<1>2. PICK n \in 0 .. (IdSpace \div 2 - 1) :
        /\ ~Present(Candidate(n))
        /\ newStreamEntry(Candidate(n), [NewEntry(Candidate(n)) EXCEPT !.active = TRUE])
        /\ nextLocal' = (Candidate(n) + 2) % IdSpace
        /\ activeStreams' = activeStreams + 1 /\ opening' = opening \cup {created + 1}
  BY DEF Open
<1> DEFINE id == Candidate(n)
           e == [NewEntry(id) EXCEPT !.active = TRUE]
<1>3. id \in Ids
  <2>1. nextLocal \in Nat /\ IdSpace \in Nat
    BY FlagsUnfold, KcpMuxAssumption DEF Ids
  <2>2. nextLocal + 2 * n \in Nat
    BY <2>1
  <2> QED
    BY <2>2, IdsFinite DEF Candidate
<1>4. nextLocal' \in Ids
  <2>1. id + 2 \in Nat
    BY <1>3, KcpMuxAssumption DEF Ids
  <2> QED
    BY <1>2, <2>1, IdsFinite
<1> HIDE DEF id
<1>5. e \in Entry /\ e.id = id /\ e.queued = FALSE /\ e.active = TRUE
  BY <1>3, NewEntries
<1>6. ~Present(id) /\ newStreamEntry(id, e)
  BY <1>2 DEF id
<1> HIDE DEF e
<1>7. Table' /\ created + 1 \in Incs /\ QueuedIds' = QueuedIds
  BY <1>2, <1>3, <1>5, <1>6, FlagsUnfold, NewEntryTable
<1>8. Flags'
  BY <1>1, <1>2, <1>4, <1>7, FlagsUnfold DEF Flags, ctl
<1>9. Actors'
  BY <1>1, FlagsUnfold, ActorSame
<1>10. QueuedReachable' /\ ClosedEmpty'
  BY <1>1, <1>7 DEF MuxInv, QueuedReachable, ClosedEmpty
<1> QED
  BY <1>7, <1>8, <1>9, <1>10 DEF MuxInv

LEMMA OpenEndsStep ==
  ASSUME MuxInv, NEW k \in Incs, OpenSent(k) \/ OpenSendFails(k)
  PROVE  MuxInv'
<1>1. UNCHANGED <<nextLocal, acceptCh, fired, acc, inp, clo>> /\ opening' \subseteq opening
      /\ accepting' = accepting /\ stopped' = stopped /\ phase' = phase /\ todo' = todo
      /\ stopping' = stopping
  BY DEF OpenSent, OpenSendFails, ctl
<1>2. entry[k].id \in Ids
  BY FlagsUnfold
<1>3. Actors'
  BY <1>1, FlagsUnfold, ActorSame
<1>4. CASE OpenSent(k)
  <2>1. UNCHANGED table /\ handed' = handed \cup {entry[k].id}
    BY <1>4 DEF OpenSent
  <2>2. Flags'
    BY <1>1, <1>2, <2>1, FlagsUnfold DEF Flags
  <2> QED
    BY <1>1, <1>3, <2>1, <2>2, QuietStep
<1>5. CASE OpenSendFails(k)
  <2>1. removeStreams({entry[k].id}) /\ handed' = handed
    BY <1>5 DEF OpenSendFails, removeStream
  <2>2. Flags'
    BY <1>1, <2>1, FlagsUnfold DEF Flags
  <2>3. {entry[k].id} \in SUBSET Ids
    BY <1>2
  <2> QED
    BY <1>1, <1>3, <2>1, <2>2, <2>3, RemoveStep
<1> QED
  BY <1>4, <1>5

LEMMA AcceptWaitStep ==
  ASSUME MuxInv, NEW a \in Accepters, AcceptCall(a) \/ AcceptStopped(a)
  PROVE  MuxInv'
<1>1. /\ acc[a].at \in {"idle", "select"} /\ UNCHANGED <<inp, clo>> /\ UNCHANGED table
      /\ acc' = [acc EXCEPT ![a] = [at |-> "select"]] \/ acc' = [acc EXCEPT ![a] = [at |-> "refused"]]
      /\ nextLocal' = nextLocal /\ acceptCh' = acceptCh /\ fired' = fired /\ handed' = handed
      /\ opening' = opening /\ UNCHANGED <<accepting, stopped, phase, todo, stopping>>
  BY DEF AcceptCall, AcceptStopped, ctl
<1>2. Flags'
  BY <1>1, FlagsUnfold DEF Flags
<1>3. PICK q \in [at : {"idle", "select", "refused"}] : acc' = [acc EXCEPT ![a] = q]
  BY <1>1
<1>4. Actors' /\ \A b \in Accepters : b # a => acc'[b] = acc[b]
  BY <1>1, <1>3, FlagsUnfold, AccepterMoves
<1> QED
  BY <1>1, <1>2, <1>4, QuietStep

(* The id an Accept takes from the queue is in its hands. *)
LEMMA AcceptPopStep ==
  ASSUME MuxInv, NEW a \in Accepters, AcceptPop(a)
  PROVE  MuxInv'
<1> DEFINE q == [at |-> "popped", id |-> Head(acceptCh)]
<1>1. /\ acc[a].at = "select" /\ acceptCh # <<>> /\ acc' = [acc EXCEPT ![a] = q]
      /\ acceptCh' = Tail(acceptCh) /\ UNCHANGED <<inp, clo>> /\ UNCHANGED table
      /\ UNCHANGED <<nextLocal, fired, handed, opening, accepting, stopped, phase, todo, stopping>>
  BY DEF AcceptPop, ctl
<1>2. /\ acceptCh \in Seq(Ids) /\ Table /\ Actors /\ Flags
  BY FlagsUnfold
<1>3. /\ Head(acceptCh) \in Ids /\ acceptCh' \in Seq(Ids)
      /\ Head(acceptCh) = acceptCh[1] /\ Len(acceptCh) >= 1
      /\ \A k \in DOMAIN acceptCh : k # 1 => k - 1 \in DOMAIN acceptCh' /\ acceptCh'[k - 1] = acceptCh[k]
  BY <1>1, <1>2
<1>4. q \in [at : {"popped"}, id : Ids] /\ q.at = "popped" /\ q.id = Head(acceptCh)
  BY <1>3
<1> HIDE DEF q
<1>5. Actors' /\ acc'[a] = q /\ \A b \in Accepters : b # a => acc'[b] = acc[b]
  BY <1>1, <1>2, <1>4, AccepterMoves
<1>6. Flags'
  BY <1>1, <1>2, <1>3 DEF Flags
<1>7. /\ streams' = streams /\ entry' = entry /\ created' = created /\ activeStreams' = activeStreams
  BY <1>1 DEF table
<1>8. Table' /\ QueuedIds' = QueuedIds
  BY <1>2, <1>7 DEF Table, OwnId, QueuedOrActive, ActiveExact, ActiveIds, QueuedIds, Present
<1>9. QueuedReachable'
  <2> SUFFICES ASSUME phase = "open", accepting, NEW id \in QueuedIds
               PROVE  \/ \E k \in DOMAIN acceptCh' : acceptCh'[k] = id
                      \/ \E b \in Accepters : acc'[b].at = "popped" /\ acc'[b].id = id
    BY <1>1, <1>8 DEF QueuedReachable
  <2>1. \/ \E k \in DOMAIN acceptCh : acceptCh[k] = id
        \/ \E b \in Accepters : acc[b].at = "popped" /\ acc[b].id = id
    BY DEF MuxInv, QueuedReachable
  <2>2. CASE \E b \in Accepters : acc[b].at = "popped" /\ acc[b].id = id
    BY <1>1, <1>5, <2>2
  <2>3. CASE \E k \in DOMAIN acceptCh : acceptCh[k] = id
    <3>1. PICK k \in DOMAIN acceptCh : acceptCh[k] = id
      BY <2>3
    <3>2. CASE k = 1
      BY <1>3, <1>4, <1>5, <3>1, <3>2
    <3>3. CASE k # 1
      BY <1>3, <3>1, <3>3
    <3> QED
      BY <3>2, <3>3
  <2> QED
    BY <2>1, <2>2, <2>3
<1>10. ClosedEmpty'
  BY <1>1, <1>7 DEF MuxInv, ClosedEmpty, Present
<1> QED
  BY <1>5, <1>6, <1>8, <1>9, <1>10 DEF MuxInv

(* A queued stream that is accepted becomes active, and counts. *)
LEMMA AcceptQueuedStep ==
  ASSUME MuxInv, NEW a \in Accepters, acceptQueued(a)
  PROVE  MuxInv'
<1> DEFINE id == acc[a].id
<1>1. /\ acc[a].at = "popped" /\ UNCHANGED <<inp, clo>>
      /\ UNCHANGED <<nextLocal, acceptCh, fired, opening, accepting, stopped, phase, todo, stopping>>
      /\ \/ /\ phase # "open" \/ ~accepting \/ id \notin QueuedIds
            /\ acc' = [acc EXCEPT ![a] = [at |-> "refused"]] \/ acc' = [acc EXCEPT ![a] = [at |-> "select"]]
            /\ UNCHANGED table /\ handed' = handed
         \/ /\ id \in QueuedIds /\ acc' = [acc EXCEPT ![a] = Idle]
            /\ entry' = [entry EXCEPT ![streams[id]] = [@ EXCEPT !.queued = FALSE, !.active = TRUE]]
            /\ activeStreams' = activeStreams + 1 /\ handed' = handed \cup {id}
            /\ streams' = streams /\ created' = created
  BY DEF acceptQueued, ctl
<1>2. /\ Table /\ Actors /\ Flags /\ entry \in [Incs -> Entry]
  BY FlagsUnfold
<1>3. CASE /\ phase # "open" \/ ~accepting \/ id \notin QueuedIds
           /\ acc' = [acc EXCEPT ![a] = [at |-> "refused"]] \/ acc' = [acc EXCEPT ![a] = [at |-> "select"]]
           /\ UNCHANGED table /\ handed' = handed
  <2>1. PICK q \in [at : {"idle", "select", "refused"}] : acc' = [acc EXCEPT ![a] = q]
    BY <1>3
  <2>2. Actors' /\ \A b \in Accepters : b # a => acc'[b] = acc[b]
    BY <1>1, <1>2, <2>1, AccepterMoves
  <2>3. Flags'
    BY <1>1, <1>3, FlagsUnfold DEF Flags
  <2>4. /\ phase' = phase /\ accepting' = accepting /\ acceptCh' = acceptCh
        /\ phase' = "open" /\ accepting' =>
             \A b \in Accepters : acc[b].at = "popped" /\ acc[b].id \in QueuedIds => acc'[b] = acc[b]
    BY <1>1, <1>3, <2>2
  <2> QED
    BY <1>3, <2>2, <2>3, <2>4, QuietStep
<1>4. CASE /\ id \in QueuedIds /\ acc' = [acc EXCEPT ![a] = Idle]
           /\ entry' = [entry EXCEPT ![streams[id]] = [@ EXCEPT !.queued = FALSE, !.active = TRUE]]
           /\ activeStreams' = activeStreams + 1 /\ handed' = handed \cup {id}
           /\ streams' = streams /\ created' = created
  <2>1. id \in Ids /\ Present(id) /\ entry[streams[id]].queued
    BY <1>4 DEF QueuedIds
  <2> DEFINE k == streams[id]
             e == [entry[k] EXCEPT !.queued = FALSE, !.active = TRUE]
  <2>2. k \in Incs /\ entry[k] \in Entry /\ ~entry[k].active
    BY <1>2, <2>1, PresentInc, TableUnfold DEF QueuedOrActive
  <2>3. e \in Entry /\ e.id = entry[k].id /\ e.queued = FALSE /\ e.active = TRUE
    BY <2>2 DEF Entry
  <2>4. entry' = [entry EXCEPT ![k] = e]
    BY <1>2, <1>4, <2>2
  <2> HIDE DEF e
  <2>5. entry' \in [Incs -> Entry] /\ entry'[k] = e /\ \A i \in Incs : i # k => entry'[i] = entry[i]
    BY <1>2, <2>2, <2>3, <2>4
  <2>6. \A o \in Ids : /\ Present(o)' <=> Present(o)
                       /\ Present(o) => streams[o] \in Incs
                       /\ Present(o) /\ o # id => streams[o] # k
    BY <1>2, <1>4, <2>1, PresentInc, OneIdPerEntry DEF Present
  <2> HIDE DEF id
  <2>7. QueuedIds' = QueuedIds \ {id}
    BY <1>4, <2>1, <2>3, <2>5, <2>6 DEF QueuedIds, Present
  <2>8. ActiveIds' = ActiveIds \cup {id} /\ id \notin ActiveIds
    BY <1>4, <2>1, <2>2, <2>3, <2>5, <2>6 DEF ActiveIds, Present
  <2>9. ActiveExact' /\ activeStreams' \in Nat
    <3>1. IsFiniteSet(ActiveIds)
      BY IdsFinite DEF ActiveIds
    <3>2. Cardinality(ActiveIds \cup {id}) = Cardinality(ActiveIds) + 1
      BY <2>8, <3>1, FS_AddElement
    <3> QED
      BY <1>2, <1>4, <2>8, <3>2, TableUnfold DEF ActiveExact
  <2>10. OwnId' /\ QueuedOrActive'
    BY <1>2, <1>4, <2>1, <2>3, <2>5, <2>6, TableUnfold DEF OwnId, QueuedOrActive, Present
  <2>11. Table'
    BY <1>2, <1>4, <2>5, <2>9, <2>10, TableUnfold DEF Table
  <2>12. Idle \in [at : {"idle", "select", "refused"}]
    BY DEF Idle
  <2>13. Actors' /\ \A b \in Accepters : b # a => acc'[b] = acc[b]
    BY <1>1, <1>2, <1>4, <2>12, AccepterMoves
  <2>14. Flags'
    BY <1>1, <1>4, <2>1, FlagsUnfold DEF Flags
  <2>15. QueuedReachable'
    BY <1>1, <2>7, <2>13 DEF MuxInv, QueuedReachable, id
  <2>16. ClosedEmpty'
    BY <1>1, <2>6 DEF MuxInv, ClosedEmpty
  <2> QED
    BY <2>11, <2>13, <2>14, <2>15, <2>16 DEF MuxInv
<1> QED
  BY <1>1, <1>3, <1>4

-----------------------------------------------------------------------------
(* Closing a stream, and the frames of the remote mux. *)
LEMMA CloseLocalTable ==
  ASSUME MuxInv, NEW id \in Ids, Present(id), CloseLocal(id)
  PROVE  /\ streams[id] \in Incs /\ entry' \in [Incs -> Entry]
         /\ streams' = streams /\ created' = created /\ activeStreams' = activeStreams
         /\ \A i \in Incs : /\ entry'[i].id = entry[i].id /\ entry'[i].active = entry[i].active
                            /\ entry'[i].queued = entry[i].queued
<1> DEFINE k == streams[id]
           e == IF entry[k].localClose THEN entry[k] ELSE [entry[k] EXCEPT !.localClose = TRUE]
<1>1. k \in Incs /\ entry \in [Incs -> Entry]
  BY FlagsUnfold, PresentInc
<1>2. e \in Entry /\ e.id = entry[k].id /\ e.active = entry[k].active /\ e.queued = entry[k].queued
  BY <1>1 DEF Entry
<1>3. entry' = [entry EXCEPT ![k] = e]
  BY <1>1 DEF CloseLocal
<1>4. streams' = streams /\ created' = created /\ activeStreams' = activeStreams
  BY DEF CloseLocal
<1> HIDE DEF e
<1> QED
  BY <1>1, <1>2, <1>3, <1>4

LEMMA CloseStreamStep ==
  ASSUME MuxInv, NEW c \in StreamClosers, NEW id \in Ids, closeStream(c, id)
  PROVE  MuxInv'
<1>1. /\ UNCHANGED <<acc, inp>>
      /\ UNCHANGED <<nextLocal, acceptCh, fired, handed, opening, accepting, stopped, phase, todo, stopping>>
      /\ \/ UNCHANGED table /\ clo' = clo
         \/ /\ Present(id) /\ CloseLocal(id)
            /\ clo' = [clo EXCEPT ![c] = [at |-> "wait", inc |-> streams[id]]]
  BY DEF closeStream, ctl
<1>2. Flags'
  BY <1>1, FlagsUnfold DEF Flags
<1>3. CASE UNCHANGED table /\ clo' = clo
  <2>1. Actors'
    BY <1>1, <1>3, FlagsUnfold, ActorSame
  <2> QED
    BY <1>1, <1>2, <1>3, <2>1, QuietStep
<1>4. CASE /\ Present(id) /\ CloseLocal(id)
           /\ clo' = [clo EXCEPT ![c] = [at |-> "wait", inc |-> streams[id]]]
  <2>1. /\ streams[id] \in Incs /\ entry' \in [Incs -> Entry]
        /\ streams' = streams /\ created' = created /\ activeStreams' = activeStreams
        /\ \A i \in Incs : /\ entry'[i].id = entry[i].id /\ entry'[i].active = entry[i].active
                           /\ entry'[i].queued = entry[i].queued
    BY <1>4, CloseLocalTable
  <2>2. Actors'
    BY <1>1, <1>4, <2>1, FlagsUnfold, CloserMoves
  <2> QED
    BY <1>1, <1>2, <2>1, <2>2, SameTableStep
<1> QED
  BY <1>1, <1>3, <1>4

LEMMA CloseWaitStep ==
  ASSUME MuxInv, NEW c \in StreamClosers, CloseWakes(c) \/ CloseTimesOut(c)
  PROVE  MuxInv'
<1>1. /\ UNCHANGED <<acc, inp>> /\ clo[c].at = "wait" /\ clo' = [clo EXCEPT ![c] = Idle]
      /\ UNCHANGED <<nextLocal, acceptCh, fired, handed, opening, accepting, stopped, phase, todo, stopping>>
      /\ UNCHANGED table \/ removeStreams({entry[clo[c].inc].id})
  BY DEF CloseWakes, CloseTimesOut, removeStream, ctl
<1>2. Flags' /\ Actors'
  BY <1>1, FlagsUnfold, CloserMoves DEF Flags
<1>3. {entry[clo[c].inc].id} \in SUBSET Ids
  <2>1. clo[c].inc \in Incs
    BY <1>1, FlagsUnfold DEF Actors, Idle
  <2> QED
    BY <2>1, FlagsUnfold
<1>4. CASE UNCHANGED table
  BY <1>1, <1>2, <1>4, QuietStep
<1>5. CASE removeStreams({entry[clo[c].inc].id})
  BY <1>1, <1>2, <1>3, <1>5, RemoveStep
<1> QED
  BY <1>1, <1>4, <1>5

(* A frame that is looked up, taken or dropped without touching the table. *)
LEMMA InputQuietStep ==
  ASSUME MuxInv, NEW i \in FrameWorkers,
         (\E id \in Ids : InputBegin(i, id)) \/ InputLookup(i) \/ InputData(i)
  PROVE  MuxInv'
<1>1. /\ UNCHANGED <<acc, clo>> /\ UNCHANGED table
      /\ UNCHANGED <<nextLocal, acceptCh, fired, handed, opening, accepting, stopped, phase, todo, stopping>>
  BY DEF InputBegin, InputLookup, InputData, ctl
<1>2. Flags'
  BY <1>1, FlagsUnfold DEF Flags
<1>3. Actors
  BY FlagsUnfold
<1>4. \A id \in Ids : streams[id] \in Incs \cup {NoInc}
  BY FlagsUnfold, PresentInc
<1>5. Actors'
  <2>1. ASSUME NEW id \in Ids, InputBegin(i, id) PROVE Actors'
    <3>1. inp' = [inp EXCEPT ![i] = [at |-> "frame", id |-> id, inc |-> streams[id]]]
      BY <2>1 DEF InputBegin
    <3> QED
      BY <1>1, <1>3, <1>4, <3>1, InputterMoves
  <2>2. CASE InputLookup(i)
    <3>1. /\ inp[i].at = "lookup"
          /\ inp' = [inp EXCEPT ![i] = [at |-> "again", id |-> inp[i].id, inc |-> streams[inp[i].id]]]
      BY <2>2 DEF InputLookup
    <3>2. inp[i].id \in Ids
      BY <1>3, <3>1, InputterAt
    <3> QED
      BY <1>1, <1>3, <1>4, <3>1, <3>2, InputterMoves
  <2>3. CASE InputData(i)
    <3>1. /\ inp[i].at \in {"frame", "again"}
          /\ inp' = [inp EXCEPT ![i] = Idle] \/ inp' = [inp EXCEPT ![i].at = "remove"]
      BY <2>3 DEF InputData
    <3>2. [inp[i] EXCEPT !.at = "remove"] \in
             [at : {"frame", "again", "remove"}, id : Ids, inc : Incs \cup {NoInc}]
      BY <1>3, <3>1, InputterAt
    <3>3. CASE inp' = [inp EXCEPT ![i] = Idle]
      BY <1>1, <1>3, <3>3, InputterMoves
    <3>4. CASE inp' = [inp EXCEPT ![i].at = "remove"]
      <4>1. inp' = [inp EXCEPT ![i] = [inp[i] EXCEPT !.at = "remove"]]
        BY <1>3, <3>4 DEF Actors
      <4> QED
        BY <1>1, <1>3, <3>2, <4>1, InputterMoves
    <3> QED
      BY <3>1, <3>3, <3>4
  <2> QED
    BY <2>1, <2>2, <2>3
<1> QED
  BY <1>1, <1>2, <1>5, QuietStep

LEMMA InputCloseAckStep ==
  ASSUME MuxInv, NEW i \in FrameWorkers, InputCloseAck(i)
  PROVE  MuxInv'
<1>1. /\ UNCHANGED <<acc, clo>> /\ inp[i].at = "frame"
      /\ streams' = streams /\ created' = created /\ activeStreams' = activeStreams
      /\ UNCHANGED <<nextLocal, acceptCh, fired, handed, opening, accepting, stopped, phase, todo, stopping>>
      /\ \/ /\ inp[i].inc # NoInc /\ entry' = [entry EXCEPT ![inp[i].inc].acked = TRUE]
            /\ inp' = [inp EXCEPT ![i].at = "remove"]
         \/ inp' = [inp EXCEPT ![i] = Idle] /\ entry' = entry
  BY DEF InputCloseAck, ctl
<1>2. Flags' /\ Actors /\ entry \in [Incs -> Entry]
  BY <1>1, FlagsUnfold DEF Flags
<1>3. CASE inp' = [inp EXCEPT ![i] = Idle] /\ entry' = entry
  <2>1. Actors'
    BY <1>1, <1>2, <1>3, InputterMoves
  <2> QED
    BY <1>1, <1>2, <1>3, <2>1, SameTableStep
<1>4. CASE /\ inp[i].inc # NoInc /\ entry' = [entry EXCEPT ![inp[i].inc].acked = TRUE]
           /\ inp' = [inp EXCEPT ![i].at = "remove"]
  <2> DEFINE k == inp[i].inc
             e == [entry[k] EXCEPT !.acked = TRUE]
  <2>1. /\ inp[i] \in [at : {"frame", "again", "remove"}, id : Ids, inc : Incs \cup {NoInc}]
        /\ [inp[i] EXCEPT !.at = "remove"] \in
             [at : {"frame", "again", "remove"}, id : Ids, inc : Incs \cup {NoInc}]
    BY <1>1, <1>2, InputterAt
  <2>2. inp' = [inp EXCEPT ![i] = [inp[i] EXCEPT !.at = "remove"]]
    BY <1>2, <1>4 DEF Actors
  <2>3. Actors'
    BY <1>1, <1>2, <2>1, <2>2, InputterMoves
  <2>4. k \in Incs
    BY <1>4, <2>1
  <2>5. e \in Entry /\ e.id = entry[k].id /\ e.active = entry[k].active /\ e.queued = entry[k].queued
    BY <1>2, <2>4 DEF Entry
  <2>6. entry' = [entry EXCEPT ![k] = e]
    BY <1>2, <1>4, <2>4
  <2> HIDE DEF e, k
  <2>7. /\ entry' \in [Incs -> Entry]
        /\ \A j \in Incs : /\ entry'[j].id = entry[j].id /\ entry'[j].active = entry[j].active
                           /\ entry'[j].queued = entry[j].queued
    BY <1>2, <2>4, <2>5, <2>6
  <2> QED
    BY <1>1, <1>2, <2>3, <2>7, SameTableStep
<1> QED
  BY <1>1, <1>3, <1>4

LEMMA InputRemoveStep ==
  ASSUME MuxInv, NEW i \in FrameWorkers, InputRemove(i)
  PROVE  MuxInv'
<1>1. /\ UNCHANGED <<acc, clo>> /\ inp[i].at \in {"frame", "remove"} /\ inp' = [inp EXCEPT ![i] = Idle]
      /\ UNCHANGED <<nextLocal, acceptCh, fired, handed, opening, accepting, stopped, phase, todo, stopping>>
      /\ UNCHANGED table \/ removeStreams({inp[i].id})
  BY DEF InputRemove, removeStream, ctl
<1>2. Flags' /\ Actors'
  BY <1>1, FlagsUnfold, InputterMoves DEF Flags
<1>3. {inp[i].id} \in SUBSET Ids
  BY <1>1, FlagsUnfold, InputterAt
<1>4. CASE UNCHANGED table
  BY <1>1, <1>2, <1>4, QuietStep
<1>5. CASE removeStreams({inp[i].id})
  BY <1>1, <1>2, <1>3, <1>5, RemoveStep
<1> QED
  BY <1>1, <1>4, <1>5

(* A remote stream that is admitted is queued together with its id. *)
LEMMA HandleOpenStep ==
  ASSUME MuxInv, NEW id \in Ids, handleOpen(id), Actors', acc' = acc,
         UNCHANGED <<nextLocal, fired, handed, opening, accepting, stopped, phase, todo, stopping>>
  PROVE  MuxInv'
<1>1. CASE UNCHANGED <<table, acceptCh>>
  <2>1. Flags' /\ UNCHANGED table /\ acceptCh' = acceptCh
    BY <1>1, FlagsUnfold DEF Flags
  <2> QED
    BY <2>1, QuietStep
<1>2. CASE ~UNCHANGED <<table, acceptCh>>
  <2> DEFINE e == [NewEntry(id) EXCEPT !.queued = TRUE]
  <2>1. /\ phase = "open" /\ ~Present(id) /\ newStreamEntry(id, e)
        /\ acceptCh' = Append(acceptCh, id) /\ activeStreams' = activeStreams
    BY <1>2 DEF handleOpen
  <2>2. e \in Entry /\ e.id = id /\ e.queued = TRUE /\ e.active = FALSE
    BY NewEntries
  <2> HIDE DEF e
  <2>3. Table' /\ QueuedIds' = QueuedIds \cup {id}
    BY <2>1, <2>2, FlagsUnfold, NewEntryTable
  <2>4. /\ acceptCh' \in Seq(Ids) /\ Len(acceptCh') \in DOMAIN acceptCh'
        /\ acceptCh'[Len(acceptCh')] = id
        /\ \A k \in DOMAIN acceptCh : k \in DOMAIN acceptCh' /\ acceptCh'[k] = acceptCh[k]
    BY <2>1, FlagsUnfold
  <2>5. Flags'
    BY <2>4, FlagsUnfold DEF Flags
  <2>6. QueuedReachable'
    BY <2>3, <2>4 DEF MuxInv, QueuedReachable
  <2>7. ClosedEmpty'
    BY <2>1 DEF ClosedEmpty
  <2> QED
    BY <2>3, <2>5, <2>6, <2>7 DEF MuxInv
<1> QED
  BY <1>1, <1>2

LEMMA InputOpenStep ==
  ASSUME MuxInv, NEW i \in FrameWorkers, InputOpen(i) \/ InputDataOpens(i)
  PROVE  MuxInv'
<1>1. /\ UNCHANGED <<acc, clo>> /\ inp[i].at = "frame"
      /\ UNCHANGED <<nextLocal, fired, handed, opening, accepting, stopped, phase, todo, stopping>>
      /\ inp' = [inp EXCEPT ![i] = Idle] \/ inp' = [inp EXCEPT ![i] = [at |-> "lookup", id |-> inp[i].id]]
      /\ handleOpen(inp[i].id) \/ UNCHANGED <<table, acceptCh>>
  BY DEF InputOpen, InputDataOpens, ctl
<1>2. Actors /\ inp[i].id \in Ids
  BY <1>1, FlagsUnfold, InputterAt
<1>3. Actors'
  <2>1. CASE inp' = [inp EXCEPT ![i] = Idle]
    BY <1>1, <1>2, <2>1, InputterMoves
  <2>2. CASE inp' = [inp EXCEPT ![i] = [at |-> "lookup", id |-> inp[i].id]]
    BY <1>1, <1>2, <2>2, InputterMoves
  <2> QED
    BY <1>1, <2>1, <2>2
<1>4. CASE handleOpen(inp[i].id)
  BY <1>1, <1>2, <1>3, <1>4, HandleOpenStep
<1>5. CASE UNCHANGED <<table, acceptCh>>
  <2>1. Flags' /\ UNCHANGED table /\ acceptCh' = acceptCh
    BY <1>1, <1>5, FlagsUnfold DEF Flags
  <2> QED
    BY <1>1, <1>3, <2>1, QuietStep
<1> QED
  BY <1>1, <1>4, <1>5

-----------------------------------------------------------------------------
(* Timers, StopAccepting and Close. *)
LEMMA IdleStep ==
  ASSUME MuxInv, NEW k \in Incs, IdleFires(k) \/ IdleRemoves(k)
  PROVE  MuxInv'
<1>1. /\ UNCHANGED <<acc, inp, clo>> /\ fired' \subseteq fired \cup {k}
      /\ UNCHANGED <<nextLocal, acceptCh, handed, opening, accepting, stopped, phase, todo, stopping>>
      /\ UNCHANGED table \/ removeStreams({entry[k].id})
  BY DEF IdleFires, IdleRemoves, removeStream, ctl
<1>2. Flags' /\ Actors'
  BY <1>1, FlagsUnfold, ActorSame DEF Flags
<1>3. {entry[k].id} \in SUBSET Ids
  BY FlagsUnfold
<1>4. CASE UNCHANGED table
  BY <1>1, <1>2, <1>4, QuietStep
<1>5. CASE removeStreams({entry[k].id})
  BY <1>1, <1>2, <1>3, <1>5, RemoveStep
<1> QED
  BY <1>1, <1>4, <1>5

LEMMA StopStep ==
  ASSUME MuxInv, StopAccepting \/ StopSignal
  PROVE  MuxInv'
<1>1. CASE StopAccepting
  <2> DEFINE ids == {id \in QueuedIds : ~entry[streams[id]].active}
  <2>1. /\ accepting' = FALSE /\ removeStreams(ids) /\ stopping' = TRUE
        /\ UNCHANGED <<acc, inp, clo>>
        /\ UNCHANGED <<nextLocal, acceptCh, stopped, phase, fired, handed, opening, todo>>
    BY <1>1 DEF StopAccepting
  <2>2. ids \in SUBSET Ids
    BY DEF QueuedIds
  <2> HIDE DEF ids
  <2>3. Flags' /\ Actors'
    BY <2>1, FlagsUnfold, ActorSame DEF Flags
  <2> QED
    BY <2>1, <2>2, <2>3, RemoveStep
<1>2. CASE StopSignal
  <2>1. /\ stopping' = FALSE /\ stopped' = TRUE /\ UNCHANGED table /\ UNCHANGED <<acc, inp, clo>>
        /\ UNCHANGED <<nextLocal, acceptCh, accepting, phase, fired, handed, opening, todo>>
    BY <1>2 DEF StopSignal
  <2>2. Flags' /\ Actors'
    BY <2>1, FlagsUnfold, ActorSame DEF Flags
  <2> QED
    BY <2>1, <2>2, QuietStep
<1> QED
  BY <1>1, <1>2

LEMMA MuxCloseStep ==
  ASSUME MuxInv, CloseBegin \/ CloseNextStream \/ CloseFinish
  PROVE  MuxInv'
<1>1. CASE CloseBegin
  <2>1. /\ phase' = "closing" /\ accepting' = FALSE /\ stopped' = TRUE /\ todo' \subseteq Ids
        /\ UNCHANGED table /\ UNCHANGED <<acc, inp, clo>>
        /\ UNCHANGED <<nextLocal, acceptCh, fired, handed, opening, stopping>>
    BY <1>1 DEF CloseBegin
  <2>2. Flags' /\ Actors'
    BY <2>1, FlagsUnfold, ActorSame DEF Flags
  <2> QED
    BY <2>1, <2>2, QuietStep
<1>2. CASE CloseNextStream
  <2>1. PICK id \in todo : /\ todo' = todo \ {id}
                           /\ IF Present(id) THEN CloseLocal(id) ELSE UNCHANGED table
    BY <1>2 DEF CloseNextStream
  <2>2. /\ UNCHANGED <<acc, inp, clo>>
        /\ UNCHANGED <<nextLocal, acceptCh, accepting, stopped, phase, fired, handed, opening, stopping>>
    BY <1>2 DEF CloseNextStream
  <2>3. Flags' /\ Actors' /\ id \in Ids
    BY <2>1, <2>2, FlagsUnfold, ActorSame DEF Flags
  <2>4. CASE ~Present(id)
    BY <2>1, <2>2, <2>3, <2>4, QuietStep
  <2>5. CASE Present(id)
    <3>1. /\ entry' \in [Incs -> Entry]
          /\ streams' = streams /\ created' = created /\ activeStreams' = activeStreams
          /\ \A i \in Incs : /\ entry'[i].id = entry[i].id /\ entry'[i].active = entry[i].active
                             /\ entry'[i].queued = entry[i].queued
      BY <2>1, <2>3, <2>5, CloseLocalTable
    <3> QED
      BY <2>2, <2>3, <3>1, SameTableStep
  <2> QED
    BY <2>4, <2>5
<1>3. CASE CloseFinish
  <2>1. /\ phase' = "closed" /\ removeStreams(Ids) /\ UNCHANGED <<acc, inp, clo>>
        /\ UNCHANGED <<nextLocal, acceptCh, accepting, stopped, fired, handed, opening, todo, stopping>>
    BY <1>3 DEF CloseFinish
  <2>2. Flags' /\ Actors'
    BY <2>1, FlagsUnfold, ActorSame DEF Flags
  <2> QED
    BY <2>1, <2>2, RemoveStep
<1> QED
  BY <1>1, <1>2, <1>3

-----------------------------------------------------------------------------
LEMMA MuxStart == MuxInit => MuxInv
<1> SUFFICES ASSUME MuxInit PROVE MuxInv
  OBVIOUS
<1>1. /\ streams = [id \in Ids |-> NoInc] /\ entry = [i \in Incs |-> NewEntry(0)]
      /\ created = 0 /\ activeStreams = 0
  BY DEF MuxInit
<1>2. 0 \in Ids /\ 1 % IdSpace \in Ids /\ NewEntry(0) \in Entry
  BY IdsFinite DEF NewEntry, Entry
<1>3. Flags
  BY <1>2 DEF MuxInit, Flags
<1>4. Actors
  BY DEF MuxInit, Actors, Idle
<1>5. \A id \in Ids : ~Present(id)
  BY <1>1 DEF Present
<1>6. ActiveIds = {} /\ QueuedIds = {}
  BY <1>5 DEF ActiveIds, QueuedIds
<1>7. ActiveExact
  BY <1>1, <1>6, FS_EmptySet DEF ActiveExact
<1>8. streams \in [Ids -> 0 .. created] /\ entry \in [Incs -> Entry] /\ created \in 0 .. MaxInc
  BY <1>1, <1>2, KcpMuxAssumption DEF NoInc
<1>9. Table
  BY <1>1, <1>5, <1>7, <1>8 DEF Table, OwnId, QueuedOrActive
<1>10. QueuedReachable /\ ClosedEmpty
  BY <1>5, <1>6 DEF QueuedReachable, ClosedEmpty
<1> QED
  BY <1>3, <1>4, <1>9, <1>10 DEF MuxInv

LEMMA MuxNextKeeps == MuxInv /\ [MuxNext]_muxVars => MuxInv'
<1> SUFFICES ASSUME MuxInv, [MuxNext]_muxVars PROVE MuxInv'
  OBVIOUS
<1>1. CASE UNCHANGED muxVars
  <2>1. /\ UNCHANGED table /\ UNCHANGED <<acc, inp, clo>>
        /\ UNCHANGED <<nextLocal, acceptCh, fired, handed, opening>>
        /\ UNCHANGED <<accepting, stopped, phase, todo, stopping>>
    BY <1>1 DEF muxVars, ctl
  <2>2. Flags' /\ Actors'
    BY <2>1, FlagsUnfold, ActorSame DEF Flags
  <2> QED
    BY <2>1, <2>2, QuietStep
<1>2. CASE AppNext
  BY <1>2, OpenStep, OpenEndsStep, AcceptWaitStep, AcceptPopStep, AcceptQueuedStep, CloseStreamStep,
     CloseWaitStep DEF AppNext
<1>3. ASSUME NEW i \in FrameWorkers, InputNext(i) PROVE MuxInv'
  BY <1>3, InputQuietStep, InputCloseAckStep, InputRemoveStep, InputOpenStep DEF InputNext
<1> QED
  BY <1>1, <1>2, <1>3, IdleStep, StopStep, MuxCloseStep DEF MuxNext

(* Every variable has its type, and a stream id leads to an entry that was *)
(* made (KcpMux and streamEntry of kcp/kcp_mux.go).                        *)
THEOREM MuxTypeCorrect == MuxSpec => []MuxTypeOK
<1>1. MuxInv => MuxTypeOK
  BY TableUnfold DEF MuxInv, Flags, MuxTypeOK
<1> QED
  BY <1>1, MuxStart, MuxNextKeeps, PTL DEF MuxSpec

(* activeStreams counts the streams that are open or accepted: no path     *)
(* that removes a stream, by a callback that only knows its id or in the   *)
(* mux Close, counts it twice or not at all (removeStreamLocked).          *)
THEOREM ActiveStreamsExact == MuxSpec => []ActiveExact
<1>1. MuxInv => ActiveExact
  BY TableUnfold DEF MuxInv
<1> QED
  BY <1>1, MuxStart, MuxNextKeeps, PTL DEF MuxSpec

(* While the mux accepts, a stream that waits has its id in acceptCh or in *)
(* the hands of an Accept, through removals and reuse of the id            *)
(* (handleOpen and AcceptStream).                                          *)
THEOREM QueuedStaysReachable == MuxSpec => []QueuedReachable
<1>1. MuxInv => QueuedReachable
  BY DEF MuxInv
<1> QED
  BY <1>1, MuxStart, MuxNextKeeps, PTL DEF MuxSpec

(* A closed mux has no stream, although Opens, frames and stream Closes    *)
(* race with its Close (KcpMux.Close).                                     *)
THEOREM ClosedStaysEmpty == MuxSpec => []ClosedEmpty
<1>1. MuxInv => ClosedEmpty
  BY DEF MuxInv
<1> QED
  BY <1>1, MuxStart, MuxNextKeeps, PTL DEF MuxSpec
=============================================================================
