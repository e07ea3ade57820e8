------------------------ MODULE PacketPipelineProofs ------------------------
(***************************************************************************)
(* Proofs about the receive pipeline, for any number of packet structs,    *)
(* workers and readers and any capacity of the two queues.                 *)
(*                                                                         *)
(* The argument: a packet's count is exactly the number of its owners, the *)
(* holder of the output reference and the holder of the decrypt reference, *)
(* and there is never more than one of each.  Then the goroutine whose     *)
(* decrement reaches zero is the last that could touch the packet.         *)
(***************************************************************************)
EXTENDS PacketPipeline, FiniteSetTheorems, SequenceTheorems, TLAPS

Distinct(s) == \A i, j \in DOMAIN s : s[i] = s[j] => i = j

IoPcs == {"acquire", "read", "dispatch", "output", "decrypt", "unref", "exit"}
WorkerPcs == {"select", "process", "signal", "unref", "exit"}
ReaderPcs == {"idle", "select", "wait", "copy", "retry", "return"}
IoType == [pc : IoPcs, batch : Seq(Packets), queued : BOOLEAN]

Typed == TypeOK /\ io \in IoType

(* Which steps hold a packet *)
Shape ==
  /\ io.pc \in {"acquire", "exit"} => io.batch = <<>>
  /\ io.pc \in {"dispatch", "output", "decrypt", "unref"} => io.batch # <<>>
  /\ io.pc = "read" => Len(io.batch) = BatchSize
  /\ \A w \in Workers : worker[w].pc \in {"select", "exit"} <=> worker[w].pkt = NoPacket
  /\ \A r \in Readers : reader[r].pc \in {"idle", "select"} <=> reader[r].pkt = NoPacket

(* A packet is held once on the output path and once on the decrypt path *)
Owners ==
  /\ Distinct(io.batch) /\ Distinct(outputChan) /\ Distinct(decryptChan)
  /\ \A r \in Readers : reader[r].pkt \notin ToSet(outputChan)
  /\ \A r, s \in Readers :
       reader[r].pkt # NoPacket /\ reader[r].pkt = reader[s].pkt => r = s
  /\ \A w \in Workers : worker[w].pkt \notin ToSet(decryptChan)
  /\ \A w, v \in Workers :
       worker[w].pkt # NoPacket /\ worker[w].pkt = worker[v].pkt => w = v
  /\ \A p \in ToSet(io.batch) :
       /\ p \notin ToSet(decryptChan)
       /\ ~WithWorker(p)
       /\ io.pc \notin {"decrypt", "unref"} \/ p # Current =>
            p \notin ToSet(outputChan) /\ ~WithReader(p)

OutputOwned(p) ==
  \/ io.pc = "output" /\ p = Current
  \/ p \in ToSet(outputChan)
  \/ WithReader(p)

DecryptOwned(p) ==
  \/ io.pc \in {"output", "decrypt", "unref"} /\ p = Current
  \/ p \in ToSet(decryptChan)
  \/ WithWorker(p)

(* refs counts the owners, and the pool holds exactly what nobody can reach *)
Counted ==
  \A p \in Packets :
    /\ refs[p] = (IF OutputOwned(p) THEN 1 ELSE 0) + (IF DecryptOwned(p) THEN 1 ELSE 0)
    /\ p \in pool <=> ~Reachable(p)

(* A packet is made ready last, after its fields were written *)
ReadyLast ==
  /\ \A p \in Packets : ready[p] => result[p] # "none"
  /\ \A p \in ToSet(decryptChan) : ~ready[p]
  /\ \A p \in ToSet(io.batch) : io.pc # "unref" \/ p # Current => ~ready[p]
  /\ \A w \in Workers :
       /\ worker[w].pc \in {"process", "signal"} => ~ready[worker[w].pkt]
       /\ worker[w].pc = "signal" => result[worker[w].pkt] # "none"
  /\ \A r \in Readers : reader[r].pc = "copy" => ready[reader[r].pkt]

(* The packets that ioLoop has read and not yet put into outputChan *)
Pending ==
  IF io.pc \in {"dispatch", "output"} THEN ToSet(io.batch)
  ELSE IF io.pc \in {"decrypt", "unref"} THEN ToSet(Tail(io.batch))
  ELSE {}

(* The elements of s are numbered upwards by f *)
Rising(f, s) == \A i, j \in DOMAIN s : i < j => f[s[i]] < f[s[j]]

(* Datagrams are numbered as they arrive, and leave each stage in that order: the ones
   delivered, then those in the readers' hands, then outputChan, then ioLoop's batch.
   Several readers may overtake each other, one cannot. *)
Ordered ==
  /\ \A p \in ToSet(outputChan) \cup Pending : datagram[p] \in 1 .. received
  /\ io.pc \in {"dispatch", "output", "decrypt", "unref"} => Rising(datagram, io.batch)
  /\ Rising(datagram, outputChan)
  /\ \A p \in ToSet(outputChan), q \in Pending : datagram[p] < datagram[q]
  /\ \A r \in Readers : reader[r].pkt # NoPacket =>
       /\ datagram[reader[r].pkt] \in 1 .. received
       /\ \A p \in ToSet(outputChan) \cup Pending : datagram[reader[r].pkt] < datagram[p]
  /\ \A i \in DOMAIN delivered :
       /\ delivered[i] <= received
       /\ \A p \in ToSet(outputChan) \cup Pending : delivered[i] < datagram[p]
  /\ Cardinality(Readers) = 1 =>
       /\ \A i, j \in DOMAIN delivered : i < j => delivered[i] < delivered[j]
       /\ \A r \in Readers : reader[r].pc \in {"wait", "copy"} =>
            \A i \in DOMAIN delivered : delivered[i] < datagram[reader[r].pkt]

PipelineInv == Typed /\ Shape /\ Owners /\ Counted /\ ReadyLast /\ Ordered
-----------------------------------------------------------------------------
(* Queues as sets: what Append, Head and Tail do to the elements of a sequence. *)

LEMMA AppendElements ==
  ASSUME NEW S, NEW s \in Seq(S), NEW e \in S
  PROVE  /\ Append(s, e) \in Seq(S)
         /\ Len(Append(s, e)) = Len(s) + 1
         /\ ToSet(Append(s, e)) = ToSet(s) \cup {e}
         /\ Distinct(s) /\ e \notin ToSet(s) => Distinct(Append(s, e))
<1>1. Append(s, e) \in Seq(S) /\ Len(Append(s, e)) = Len(s) + 1
  OBVIOUS
<1>2. DOMAIN s = 1 .. Len(s) /\ DOMAIN Append(s, e) = 1 .. (Len(s) + 1) /\ Len(s) \in Nat
  BY <1>1
<1>3. \A i \in 1 .. Len(s) : Append(s, e)[i] = s[i]
  OBVIOUS
<1>4. Append(s, e)[Len(s) + 1] = e
  OBVIOUS
<1>5. ToSet(Append(s, e)) = ToSet(s) \cup {e}
  <2>1. ASSUME NEW x \in ToSet(Append(s, e)) PROVE x \in ToSet(s) \cup {e}
    <3>1. PICK i \in 1 .. (Len(s) + 1) : x = Append(s, e)[i]
      BY <1>2, <2>1 DEF ToSet
    <3>2. CASE i = Len(s) + 1
      BY <3>1, <3>2, <1>4
    <3>3. CASE i # Len(s) + 1
      BY <3>1, <3>3, <1>2, <1>3 DEF ToSet
    <3> QED
      BY <3>2, <3>3
  <2>2. ASSUME NEW x \in ToSet(s) PROVE x \in ToSet(Append(s, e))
    <3>1. PICK i \in 1 .. Len(s) : x = s[i]
      BY <1>2, <2>2 DEF ToSet
    <3>2. i \in 1 .. (Len(s) + 1)
      BY <1>2
    <3> QED
      BY <3>1, <3>2, <1>2, <1>3 DEF ToSet
  <2>3. e \in ToSet(Append(s, e))
    BY <1>2, <1>4 DEF ToSet
  <2> QED
    BY <2>1, <2>2, <2>3
<1>6. ASSUME Distinct(s), e \notin ToSet(s) PROVE Distinct(Append(s, e))
  <2>1. SUFFICES ASSUME NEW i \in 1 .. (Len(s) + 1), NEW j \in 1 .. (Len(s) + 1),
                        Append(s, e)[i] = Append(s, e)[j]
                 PROVE  i = j
    BY <1>2 DEF Distinct
  <2>2. \A k \in 1 .. Len(s) : s[k] # e
    BY <1>2, <1>6 DEF ToSet
  <2> QED
    BY <1>2, <1>3, <1>4, <1>6, <2>1, <2>2 DEF Distinct
<1> QED
  BY <1>1, <1>5, <1>6

LEMMA HeadElements ==
  ASSUME NEW S, NEW s \in Seq(S), s # <<>>
  PROVE  /\ Head(s) \in S /\ Head(s) \in ToSet(s)
         /\ Tail(s) \in Seq(S) /\ Len(Tail(s)) = Len(s) - 1
         /\ ToSet(s) = {Head(s)} \cup ToSet(Tail(s))
         /\ Distinct(s) => Distinct(Tail(s)) /\ Head(s) \notin ToSet(Tail(s))
<1>1. Tail(s) \in Seq(S) /\ Len(Tail(s)) = Len(s) - 1 /\ Len(s) > 0 /\ Len(s) \in Nat
  OBVIOUS
<1>2. DOMAIN s = 1 .. Len(s) /\ DOMAIN Tail(s) = 1 .. (Len(s) - 1)
  BY <1>1
<1>3. \A i \in 1 .. (Len(s) - 1) : Tail(s)[i] = s[i + 1]
  OBVIOUS
<1>4. Head(s) = s[1] /\ Head(s) \in S
  BY <1>1
<1>5. Head(s) \in ToSet(s)
  BY <1>1, <1>2, <1>4 DEF ToSet
<1>6. ToSet(s) = {Head(s)} \cup ToSet(Tail(s))
  <2>1. ASSUME NEW x \in ToSet(s) PROVE x \in {Head(s)} \cup ToSet(Tail(s))
    <3>1. PICK i \in 1 .. Len(s) : x = s[i]
      BY <1>2, <2>1 DEF ToSet
    <3>2. CASE i = 1
      BY <3>1, <3>2, <1>4
    <3>3. CASE i # 1
      <4>1. i - 1 \in 1 .. (Len(s) - 1) /\ (i - 1) + 1 = i
        BY <1>1, <3>3
      <4>2. Tail(s)[i - 1] = x
        BY <3>1, <4>1, <1>3
      <4> QED
        BY <4>1, <4>2, <1>2 DEF ToSet
    <3> QED
      BY <3>2, <3>3
  <2>2. ASSUME NEW x \in ToSet(Tail(s)) PROVE x \in ToSet(s)
    <3>1. PICK i \in 1 .. (Len(s) - 1) : x = Tail(s)[i]
      BY <1>2, <2>2 DEF ToSet
    <3>2. i + 1 \in 1 .. Len(s) /\ x = s[i + 1]
      BY <1>1, <1>3, <3>1
    <3> QED
      BY <3>2, <1>2 DEF ToSet
  <2> QED
    BY <2>1, <2>2, <1>5
<1>7. ASSUME Distinct(s) PROVE Distinct(Tail(s)) /\ Head(s) \notin ToSet(Tail(s))
  <2>1. Distinct(Tail(s))
    <3>1. SUFFICES ASSUME NEW i \in 1 .. (Len(s) - 1), NEW j \in 1 .. (Len(s) - 1),
                          Tail(s)[i] = Tail(s)[j]
                   PROVE  i = j
      BY <1>2 DEF Distinct
    <3>2. s[i + 1] = s[j + 1] /\ i + 1 \in 1 .. Len(s) /\ j + 1 \in 1 .. Len(s)
      BY <1>1, <1>3, <3>1
    <3> QED
      BY <1>2, <1>7, <3>2 DEF Distinct
  <2>2. Head(s) \notin ToSet(Tail(s))
    <3>1. SUFFICES ASSUME NEW i \in 1 .. (Len(s) - 1), Tail(s)[i] = Head(s)
                   PROVE  FALSE
      BY <1>2 DEF ToSet
    <3>2. s[i + 1] = s[1] /\ i + 1 \in 1 .. Len(s) /\ 1 \in 1 .. Len(s)
      BY <1>1, <1>3, <1>4, <3>1
    <3> QED
      BY <1>2, <1>7, <3>2 DEF Distinct
  <2> QED
    BY <2>1, <2>2
<1> QED
  BY <1>1, <1>4, <1>5, <1>6, <1>7

LEMMA TailEmpty ==
  ASSUME NEW S, NEW s \in Seq(S), s # <<>>
  PROVE  Tail(s) = <<>> <=> Len(s) = 1
<1>1. Tail(s) \in Seq(S) /\ Len(Tail(s)) = Len(s) - 1 /\ Len(s) \in Nat
  OBVIOUS
<1>2. ASSUME NEW t \in Seq(S)
      PROVE  t = <<>> <=> Len(t) = 0
  <2>1. t = <<>> => Len(t) = 0
    OBVIOUS
  <2>2. t # <<>> => Len(t) \in Nat \ {0}
    BY EmptySeq
  <2> QED
    BY <2>1, <2>2
<1>3. Tail(s) = <<>> <=> Len(Tail(s)) = 0
  BY <1>1, <1>2, Zenon
<1>4. Len(Tail(s)) = 0 <=> Len(s) = 1
  BY <1>1
<1> QED
  BY <1>3, <1>4, Zenon

(* Taking the first of a rising sequence, or adding a larger one, keeps it rising. *)
LEMMA RisingTail ==
  ASSUME NEW S, NEW f, NEW s \in Seq(S), s # <<>>, Rising(f, s)
  PROVE  /\ Rising(f, Tail(s))
         /\ \A x \in ToSet(Tail(s)) : f[Head(s)] < f[x]
<1>1. /\ DOMAIN s = 1 .. Len(s) /\ Len(s) \in Nat /\ Len(s) > 0
      /\ DOMAIN Tail(s) = 1 .. (Len(s) - 1) /\ Head(s) = s[1]
      /\ \A i \in 1 .. (Len(s) - 1) : Tail(s)[i] = s[i + 1]
  OBVIOUS
<1>2. ASSUME NEW i \in 1 .. (Len(s) - 1), NEW j \in 1 .. (Len(s) - 1), i < j
      PROVE  f[Tail(s)[i]] < f[Tail(s)[j]]
  <2>1. i + 1 \in DOMAIN s /\ j + 1 \in DOMAIN s /\ i + 1 < j + 1
    BY <1>1, <1>2
  <2> QED
    BY <1>1, <2>1 DEF Rising
<1>3. ASSUME NEW x \in ToSet(Tail(s)) PROVE f[Head(s)] < f[x]
  <2>1. PICK i \in 1 .. (Len(s) - 1) : x = s[i + 1]
    BY <1>1, <1>3 DEF ToSet
  <2>2. 1 \in DOMAIN s /\ i + 1 \in DOMAIN s /\ 1 < i + 1
    BY <1>1
  <2> QED
    BY <1>1, <2>1, <2>2 DEF Rising
<1> QED
  BY <1>1, <1>2, <1>3 DEF Rising

LEMMA RisingAppend ==
  ASSUME NEW S, NEW f, NEW s \in Seq(S), NEW e \in S, Rising(f, s),
         \A x \in ToSet(s) : f[x] < f[e]
  PROVE  Rising(f, Append(s, e))
<1>1. /\ DOMAIN s = 1 .. Len(s) /\ Len(s) \in Nat
      /\ DOMAIN Append(s, e) = 1 .. (Len(s) + 1) /\ Append(s, e)[Len(s) + 1] = e
      /\ \A i \in 1 .. Len(s) : Append(s, e)[i] = s[i]
  OBVIOUS
<1>2. SUFFICES ASSUME NEW i \in 1 .. (Len(s) + 1), NEW j \in 1 .. (Len(s) + 1), i < j
               PROVE  f[Append(s, e)[i]] < f[Append(s, e)[j]]
  BY <1>1 DEF Rising
<1>3. i \in 1 .. Len(s)
  BY <1>1, <1>2
<1>4. CASE j = Len(s) + 1
  BY <1>1, <1>3, <1>4 DEF ToSet
<1>5. CASE j # Len(s) + 1
  <2>1. j \in 1 .. Len(s)
    BY <1>1, <1>5
  <2> QED
    BY <1>1, <1>2, <1>3, <2>1 DEF Rising
<1> QED
  BY <1>4, <1>5

(* The two halves of a batch: the packets that got a datagram and those released. *)
LEMMA SplitElements ==
  ASSUME NEW S, NEW s \in Seq(S), NEW n \in 0 .. Len(s)
  PROVE  /\ SubSeq(s, 1, n) \in Seq(S) /\ Len(SubSeq(s, 1, n)) = n
         /\ \A k \in 1 .. n : SubSeq(s, 1, n)[k] = s[k]
         /\ ToSet(s) = ToSet(SubSeq(s, 1, n)) \cup ToSet(SubSeq(s, n + 1, Len(s)))
         /\ Distinct(s) =>
              /\ Distinct(SubSeq(s, 1, n))
              /\ ToSet(SubSeq(s, 1, n)) \cap ToSet(SubSeq(s, n + 1, Len(s))) = {}
<1> DEFINE a == SubSeq(s, 1, n)
           b == SubSeq(s, n + 1, Len(s))
<1>1. a \in Seq(S) /\ Len(a) = n /\ \A k \in 1 .. n : a[k] = s[k]
  OBVIOUS
<1>2. b \in Seq(S) /\ Len(b) = Len(s) - n /\ \A k \in 1 .. (Len(s) - n) : b[k] = s[n + k]
  OBVIOUS
<1>3. /\ DOMAIN s = 1 .. Len(s) /\ Len(s) \in Nat /\ n \in Nat
      /\ DOMAIN a = 1 .. n /\ DOMAIN b = 1 .. (Len(s) - n)
  BY <1>1, <1>2
<1> HIDE DEF a, b
<1>4. ToSet(s) = ToSet(a) \cup ToSet(b)
  <2>1. ASSUME NEW x \in ToSet(s) PROVE x \in ToSet(a) \cup ToSet(b)
    <3>1. PICK i \in 1 .. Len(s) : x = s[i]
      BY <1>3, <2>1 DEF ToSet
    <3>2. CASE i <= n
      BY <1>1, <1>3, <3>1, <3>2 DEF ToSet
    <3>3. CASE i > n
      <4>1. i - n \in 1 .. (Len(s) - n) /\ n + (i - n) = i
        BY <1>3, <3>3
      <4>2. x = b[i - n]
        BY <1>2, <3>1, <4>1
      <4> QED
        BY <1>3, <4>1, <4>2 DEF ToSet
    <3> QED
      BY <1>3, <3>2, <3>3
  <2>2. ASSUME NEW x \in ToSet(a) PROVE x \in ToSet(s)
    <3>1. PICK i \in 1 .. n : x = a[i]
      BY <1>3, <2>2 DEF ToSet
    <3> QED
      BY <1>1, <1>3, <3>1 DEF ToSet
  <2>3. ASSUME NEW x \in ToSet(b) PROVE x \in ToSet(s)
    <3>1. PICK i \in 1 .. (Len(s) - n) : x = b[i]
      BY <1>3, <2>3 DEF ToSet
    <3>2. n + i \in 1 .. Len(s) /\ x = s[n + i]
      BY <1>2, <1>3, <3>1
    <3> QED
      BY <1>3, <3>2 DEF ToSet
  <2> QED
    BY <2>1, <2>2, <2>3
<1>5. ASSUME Distinct(s) PROVE Distinct(a) /\ ToSet(a) \cap ToSet(b) = {}
  <2>1. Distinct(a)
    BY <1>1, <1>3, <1>5 DEF Distinct
  <2>2. ASSUME NEW x \in ToSet(a), x \in ToSet(b) PROVE FALSE
    <3>1. PICK i \in 1 .. n : x = a[i]
      BY <1>3, <2>2 DEF ToSet
    <3>2. PICK j \in 1 .. (Len(s) - n) : x = b[j]
      BY <1>3, <2>2 DEF ToSet
    <3>3. i \in 1 .. Len(s) /\ n + j \in 1 .. Len(s) /\ i # n + j
      BY <1>3
    <3>4. s[i] = s[n + j]
      BY <1>1, <1>2, <3>1, <3>2
    <3> QED
      BY <1>3, <1>5, <3>3, <3>4 DEF Distinct
  <2> QED
    BY <2>1, <2>2
<1> QED
  BY <1>1, <1>4, <1>5 DEF a, b
-----------------------------------------------------------------------------
(* The steps of a decrypt worker keep the invariant. *)
LEMMA WorkerKeepsInv ==
  ASSUME PipelineInv, NEW w \in Workers, WorkerStep(w)
  PROVE  PipelineInv'
<1> USE PipelineAssumption, NoPacketAssumption
<1>0. Typed /\ Shape /\ Owners /\ Counted /\ ReadyLast /\ Ordered
  BY DEF PipelineInv
<1>a. ToSet(decryptChan) \subseteq Packets /\ ToSet(outputChan) \subseteq Packets
      /\ ToSet(io.batch) \subseteq Packets
  BY <1>0 DEF Typed, TypeOK, ToSet
<1>b. worker \in [Workers -> [pc : WorkerPcs, pkt : Packets \cup {NoPacket}]]
  BY <1>0 DEF Typed, TypeOK, WorkerPcs
<1>1. CASE WorkerTake(w)
  <2> DEFINE p == Head(decryptChan)
  <2>1. decryptChan \in Seq(Packets) /\ decryptChan # <<>> /\ decryptChan' = Tail(decryptChan)
    BY <1>0, <1>1 DEF WorkerTake, Typed, TypeOK
  <2>2. /\ p \in Packets /\ p \in ToSet(decryptChan)
        /\ decryptChan' \in Seq(Packets) /\ Len(decryptChan') = Len(decryptChan) - 1
        /\ ToSet(decryptChan) = {p} \cup ToSet(decryptChan')
        /\ Distinct(decryptChan') /\ p \notin ToSet(decryptChan')
    BY <1>0, <2>1, HeadElements DEF Owners
  <2>3. /\ worker' = [worker EXCEPT ![w] = [pc |-> "process", pkt |-> p]]
        /\ worker[w].pc = "select"
        /\ UNCHANGED <<pool, refs, ready, result, datagram, received, outputChan, io, reader,
                        delivered, closed>>
    BY <1>1 DEF WorkerTake, fields
  <2> HIDE DEF p
  <2>4. /\ \A v \in Workers : v # w => worker'[v] = worker[v]
        /\ worker'[w] = [pc |-> "process", pkt |-> p] /\ worker[w].pkt = NoPacket
    BY <1>0, <2>3 DEF Typed, TypeOK, Shape
  <2>5. Typed'
    <3>1. worker' \in [Workers -> [pc : WorkerPcs, pkt : Packets \cup {NoPacket}]]
      <4> DEFINE c == [pc |-> "process", pkt |-> p]
      <4>1. c \in [pc : WorkerPcs, pkt : Packets \cup {NoPacket}]
        BY <2>2 DEF WorkerPcs
      <4>2. worker' = [worker EXCEPT ![w] = c]
        BY <2>3
      <4> HIDE DEF c
      <4> QED
        BY <1>b, <4>1, <4>2
    <3>2. Len(decryptChan') <= DecryptCap
      <4>1. Len(decryptChan) \in Nat /\ Len(decryptChan) <= DecryptCap
        BY <1>0, <2>1 DEF Typed, TypeOK
      <4>2. Len(decryptChan') = Len(decryptChan) - 1
        BY <2>2
      <4> QED
        BY <4>1, <4>2
    <3> QED
      BY <1>0, <2>2, <2>3, <3>1, <3>2 DEF Typed, TypeOK, IoType, WorkerPcs
  <2>6. Shape'
    BY <1>0, <2>2, <2>3, <2>4 DEF Shape
  <2>7. Owners'
    BY <1>0, <1>a, <2>2, <2>3, <2>4 DEF Owners, WithReader, WithWorker, Current
  <2>8. \A q \in Packets : WithWorker(q)' <=> WithWorker(q) \/ q = p
    BY <2>3, <2>4 DEF WithWorker
  <2>9. Counted'
    BY <1>0, <2>2, <2>3, <2>8
       DEF Counted, OutputOwned, DecryptOwned, Reachable, InIoLoop, WithReader, Current
  <2>10. ReadyLast'
    BY <1>0, <2>2, <2>3, <2>4 DEF ReadyLast, Current
  <2>z. Ordered'
    BY <1>0, <2>3 DEF Ordered, Pending
  <2> QED
    BY <2>z, <2>5, <2>6, <2>7, <2>9, <2>10 DEF PipelineInv
<1>2. CASE WorkerExit(w)
  <2>1. /\ worker' = [worker EXCEPT ![w].pc = "exit"] /\ worker[w].pc = "select"
        /\ UNCHANGED <<pool, refs, ready, result, datagram, received, outputChan, decryptChan,
                        io, reader, delivered, closed>>
    BY <1>2 DEF WorkerExit, fields, chans
  <2>2. /\ \A v \in Workers : v # w => worker'[v] = worker[v]
        /\ worker'[w].pc = "exit" /\ worker'[w].pkt = worker[w].pkt
    BY <1>0, <2>1 DEF Typed, TypeOK
  <2>3. \A v \in Workers : worker'[v].pkt = worker[v].pkt
    BY <2>2
  <2>4. Typed'
    <3>1. worker' \in [Workers -> [pc : WorkerPcs, pkt : Packets \cup {NoPacket}]]
      <4> DEFINE c == [worker[w] EXCEPT !.pc = "exit"]
      <4>1. c \in [pc : WorkerPcs, pkt : Packets \cup {NoPacket}]
        BY <1>b DEF WorkerPcs
      <4>2. worker' = [worker EXCEPT ![w] = c]
        BY <2>1
      <4> HIDE DEF c
      <4> QED
        BY <1>b, <4>1, <4>2
    <3> QED
      BY <1>0, <2>1, <3>1 DEF Typed, TypeOK, IoType, WorkerPcs
  <2>5. Shape'
    BY <1>0, <2>1, <2>2 DEF Shape
  <2>6. Owners' /\ Counted'
    BY <1>0, <2>1, <2>3 DEF Owners, Counted, OutputOwned, DecryptOwned, Reachable, InIoLoop,
                            WithReader, WithWorker, Current
  <2>7. ReadyLast'
    BY <1>0, <2>1, <2>2 DEF ReadyLast, Current
  <2>z. Ordered'
    BY <1>0, <2>1 DEF Ordered, Pending
  <2> QED
    BY <2>z, <2>4, <2>5, <2>6, <2>7 DEF PipelineInv
<1>3. ASSUME NEW res \in {"data", "error"}, WorkerProcess(w, res)
      PROVE  PipelineInv'
  <2> DEFINE p == worker[w].pkt
  <2>1. /\ worker' = [worker EXCEPT ![w].pc = "signal"] /\ worker[w].pc = "process"
        /\ result' = [result EXCEPT ![p] = res]
        /\ UNCHANGED <<pool, refs, ready, datagram, received, outputChan, decryptChan,
                        io, reader, delivered, closed>>
    BY <1>3 DEF WorkerProcess, chans
  <2>2. /\ \A v \in Workers : v # w => worker'[v] = worker[v]
        /\ worker'[w].pc = "signal" /\ worker'[w].pkt = p /\ p \in Packets
        /\ worker' \in [Workers -> [pc : WorkerPcs, pkt : Packets \cup {NoPacket}]]
    BY <1>0, <1>b, <2>1 DEF Shape, WorkerPcs
  <2>3. \A v \in Workers : worker'[v].pkt = worker[v].pkt
    BY <2>2
  <2>4. /\ result' \in [Packets -> {"none", "data", "error"}] /\ result'[p] # "none"
        /\ \A q \in Packets : q # p => result'[q] = result[q]
    BY <1>0, <2>1, <2>2 DEF Typed, TypeOK
  <2> HIDE DEF p
  <2>5. Typed'
    BY <1>0, <2>1, <2>2, <2>4 DEF Typed, TypeOK, IoType, WorkerPcs
  <2>6. Shape'
    BY <1>0, <2>1, <2>2 DEF Shape
  <2>7. Owners' /\ Counted'
    BY <1>0, <2>1, <2>3 DEF Owners, Counted, OutputOwned, DecryptOwned, Reachable, InIoLoop,
                            WithReader, WithWorker, Current
  <2>8. \A v \in Workers : v # w /\ worker[v].pc = "signal" => worker[v].pkt \in Packets
    BY <1>0 DEF Typed, TypeOK, Shape
  <2>9. ReadyLast'
    BY <1>0, <2>1, <2>2, <2>4, <2>8 DEF ReadyLast, Current, p
  <2>z. Ordered'
    BY <1>0, <2>1 DEF Ordered, Pending
  <2> QED
    BY <2>z, <2>5, <2>6, <2>7, <2>9 DEF PipelineInv
<1>4. CASE WorkerSignal(w)
  <2> DEFINE p == worker[w].pkt
  <2>1. /\ worker' = [worker EXCEPT ![w].pc = "unref"] /\ worker[w].pc = "signal"
        /\ ready' = [ready EXCEPT ![p] = TRUE]
        /\ UNCHANGED <<pool, refs, result, datagram, received, outputChan, decryptChan,
                        io, reader, delivered, closed>>
    BY <1>4 DEF WorkerSignal, chans
  <2>2. /\ \A v \in Workers : v # w => worker'[v] = worker[v]
        /\ worker'[w].pc = "unref" /\ worker'[w].pkt = p /\ p \in Packets
        /\ worker' \in [Workers -> [pc : WorkerPcs, pkt : Packets \cup {NoPacket}]]
    BY <1>0, <1>b, <2>1 DEF Shape, WorkerPcs
  <2>3. \A v \in Workers : worker'[v].pkt = worker[v].pkt
    BY <2>2
  <2>4. /\ ready' \in [Packets -> BOOLEAN] /\ ready'[p]
        /\ \A q \in Packets : q # p => ready'[q] = ready[q]
    BY <1>0, <2>1, <2>2 DEF Typed, TypeOK
  <2>5. Typed'
    BY <1>0, <2>1, <2>2, <2>4 DEF Typed, TypeOK, IoType, WorkerPcs
  <2>6. Shape'
    BY <1>0, <2>1, <2>2 DEF Shape
  <2>7. Owners' /\ Counted'
    BY <1>0, <2>1, <2>3 DEF Owners, Counted, OutputOwned, DecryptOwned, Reachable, InIoLoop,
                            WithReader, WithWorker, Current
  <2>8. p \notin ToSet(decryptChan) /\ p \notin ToSet(io.batch) /\ p # NoPacket
        /\ \A v \in Workers : worker[v].pkt = p => v = w
    BY <1>0, <2>2 DEF Owners, WithWorker
  <2>9. \A v \in Workers : worker[v].pc \in {"process", "signal"} => worker[v].pkt \in Packets
    BY <1>0 DEF Typed, TypeOK, Shape
  <2>10. \A r \in Readers : reader[r].pc = "copy" => reader[r].pkt \in Packets
    BY <1>0 DEF Typed, TypeOK, Shape
  <2>11. result[p] # "none"
    BY <1>0, <2>1 DEF ReadyLast
  <2> HIDE DEF p
  <2>12. ReadyLast'
    BY <1>0, <1>a, <2>1, <2>2, <2>4, <2>8, <2>9, <2>10, <2>11 DEF ReadyLast, Current
  <2>z. Ordered'
    BY <1>0, <2>1 DEF Ordered, Pending
  <2> QED
    BY <2>z, <2>5, <2>6, <2>7, <2>12 DEF PipelineInv
<1>5. CASE WorkerUnref(w)
  <2> DEFINE p == worker[w].pkt
  <2>1. /\ worker' = [worker EXCEPT ![w] = [pc |-> "select", pkt |-> NoPacket]]
        /\ worker[w].pc = "unref"
        /\ refs' = [refs EXCEPT ![p] = @ - 1]
        /\ pool' = IF refs[p] = 1 THEN pool \cup {p} ELSE pool
        /\ UNCHANGED <<ready, result, datagram, received, outputChan, decryptChan,
                        io, reader, delivered, closed>>
    BY <1>5 DEF WorkerUnref, Unref, fields, chans
  <2>2. /\ \A v \in Workers : v # w => worker'[v] = worker[v]
        /\ worker'[w].pc = "select" /\ worker'[w].pkt = NoPacket /\ p \in Packets
    BY <1>0, <1>b, <2>1 DEF Shape
  <2>3. /\ p \notin ToSet(decryptChan) /\ p \notin ToSet(io.batch) /\ p # NoPacket
        /\ \A v \in Workers : worker[v].pkt = p => v = w
    BY <1>0, <2>2 DEF Owners, WithWorker
  <2>4. \A q \in Packets : WithWorker(q)' <=> WithWorker(q) /\ q # p
    BY <2>2, <2>3 DEF WithWorker
  <2>5. WithWorker(p)
    BY DEF WithWorker
  <2>6. io.pc \in {"output", "decrypt", "unref"} => Current \in ToSet(io.batch)
    BY <1>0, HeadElements DEF Shape, Typed, TypeOK, Current
  <2>7. refs[p] = 1 + (IF OutputOwned(p) THEN 1 ELSE 0)
    BY <1>0, <2>2, <2>5 DEF Counted, DecryptOwned
  <2>8. /\ refs' \in [Packets -> 0 .. 2] /\ refs'[p] = refs[p] - 1
        /\ \A q \in Packets : q # p => refs'[q] = refs[q]
    BY <1>0, <2>1, <2>2, <2>7 DEF Typed, TypeOK
  <2>a. /\ pool' \in SUBSET Packets
        /\ \A q \in Packets : q # p => (q \in pool' <=> q \in pool)
        /\ p \in pool' <=> ~OutputOwned(p)
    BY <1>0, <2>1, <2>2, <2>5, <2>7 DEF Typed, TypeOK, Counted, Reachable
  <2> HIDE DEF p
  <2>9. Typed'
    BY <1>0, <2>1, <2>8, <2>a DEF Typed, TypeOK, IoType
  <2>10. Shape'
    BY <1>0, <2>1, <2>2 DEF Shape
  <2>11. Owners'
    BY <1>0, <1>a, <2>1, <2>2, <2>4 DEF Owners, WithReader, Current
  <2>12. \A q \in Packets : OutputOwned(q)' <=> OutputOwned(q)
    BY <2>1 DEF OutputOwned, WithReader, Current
  <2>13. \A q \in Packets : DecryptOwned(q)' <=> DecryptOwned(q) /\ q # p
    BY <2>1, <2>3, <2>4, <2>6 DEF DecryptOwned, Current
  <2>14. \A q \in Packets : Reachable(q)' <=> IF q = p THEN OutputOwned(q) ELSE Reachable(q)
    BY <2>1, <2>3, <2>4, <2>6 DEF Reachable, InIoLoop, WithReader, OutputOwned
  <2>15. Counted'
    BY <1>0, <2>2, <2>5, <2>7, <2>8, <2>a, <2>12, <2>13, <2>14 DEF Counted, DecryptOwned
  <2>16. ReadyLast'
    BY <1>0, <2>1, <2>2 DEF ReadyLast, Current
  <2>z. Ordered'
    BY <1>0, <2>1 DEF Ordered, Pending
  <2> QED
    BY <2>z, <2>9, <2>10, <2>11, <2>15, <2>16 DEF PipelineInv
<1> QED
  BY <1>1, <1>2, <1>3, <1>4, <1>5 DEF WorkerStep
-----------------------------------------------------------------------------
(* The steps of a ReadPacket caller keep the invariant. *)
LEMMA ReaderKeepsInv ==
  ASSUME PipelineInv, NEW r \in Readers, ReadCall(r) \/ ReadStep(r)
  PROVE  PipelineInv'
<1> USE PipelineAssumption, NoPacketAssumption
<1>0. Typed /\ Shape /\ Owners /\ Counted /\ ReadyLast /\ Ordered
  BY DEF PipelineInv
<1>a. ToSet(decryptChan) \subseteq Packets /\ ToSet(outputChan) \subseteq Packets
      /\ ToSet(io.batch) \subseteq Packets
  BY <1>0 DEF Typed, TypeOK, ToSet
<1>b. reader \in [Readers -> [pc : ReaderPcs, pkt : Packets \cup {NoPacket}]]
  BY <1>0 DEF Typed, TypeOK, ReaderPcs
<1>c. io.pc \in {"output", "decrypt", "unref"} => Current \in ToSet(io.batch)
  BY <1>0, HeadElements DEF Shape, Typed, TypeOK, Current
<1>d. Cardinality(Readers) = 1 => \A t \in Readers : t = r
  <2>1. SUFFICES ASSUME Cardinality(Readers) = 1, NEW t \in Readers PROVE t = r
    OBVIOUS
  <2>2. \E x : Readers = {x}
    BY <2>1, FS_Singleton
  <2> QED
    BY <2>2
<1>1. CASE ReadTake(r)
  <2> DEFINE p == Head(outputChan)
  <2>1. outputChan \in Seq(Packets) /\ outputChan # <<>> /\ outputChan' = Tail(outputChan)
    BY <1>0, <1>1 DEF ReadTake, Typed, TypeOK
  <2>2. /\ p \in Packets /\ p \in ToSet(outputChan)
        /\ outputChan' \in Seq(Packets) /\ Len(outputChan') = Len(outputChan) - 1
        /\ ToSet(outputChan) = {p} \cup ToSet(outputChan')
        /\ Distinct(outputChan') /\ p \notin ToSet(outputChan')
    BY <1>0, <2>1, HeadElements DEF Owners
  <2>3. /\ reader' = [reader EXCEPT ![r] = [pc |-> "wait", pkt |-> p]]
        /\ reader[r].pc = "select"
        /\ UNCHANGED <<pool, refs, ready, result, datagram, received, decryptChan, io, worker,
                        delivered, closed>>
    BY <1>1 DEF ReadTake, fields
  <2>4. Rising(datagram, outputChan') /\ \A q \in ToSet(outputChan') : datagram[p] < datagram[q]
    BY <1>0, <2>1, RisingTail DEF Ordered
  <2> HIDE DEF p
  <2>5. /\ \A t \in Readers : t # r => reader'[t] = reader[t]
        /\ reader'[r] = [pc |-> "wait", pkt |-> p] /\ reader[r].pkt = NoPacket
    BY <1>0, <1>b, <2>3 DEF Shape
  <2>6. Typed'
    <3>1. reader' \in [Readers -> [pc : ReaderPcs, pkt : Packets \cup {NoPacket}]]
      <4> DEFINE c == [pc |-> "wait", pkt |-> p]
      <4>1. c \in [pc : ReaderPcs, pkt : Packets \cup {NoPacket}]
        BY <2>2 DEF ReaderPcs
      <4>2. reader' = [reader EXCEPT ![r] = c]
        BY <2>3
      <4> HIDE DEF c
      <4> QED
        BY <1>b, <4>1, <4>2
    <3>2. Len(outputChan') <= OutputCap
      <4>1. Len(outputChan) \in Nat /\ Len(outputChan) <= OutputCap
        BY <1>0, <2>1 DEF Typed, TypeOK
      <4>2. Len(outputChan') = Len(outputChan) - 1
        BY <2>2
      <4> QED
        BY <4>1, <4>2
    <3> QED
      BY <1>0, <2>2, <2>3, <3>1, <3>2 DEF Typed, TypeOK, IoType, ReaderPcs
  <2>7. Shape'
    BY <1>0, <2>2, <2>3, <2>5 DEF Shape
  <2>8. Owners'
    BY <1>0, <1>a, <2>2, <2>3, <2>5 DEF Owners, WithReader, WithWorker, Current
  <2>9. \A q \in Packets : WithReader(q)' <=> WithReader(q) \/ q = p
    BY <2>3, <2>5 DEF WithReader
  <2>10. Counted'
    BY <1>0, <2>2, <2>3, <2>9
       DEF Counted, OutputOwned, DecryptOwned, Reachable, InIoLoop, WithWorker, Current
  <2>11. ReadyLast'
    BY <1>0, <2>2, <2>3, <2>5 DEF ReadyLast, Current
  <2>12. Ordered'
    BY <1>0, <2>2, <2>3, <2>4, <2>5 DEF Ordered, Pending
  <2> QED
    BY <2>6, <2>7, <2>8, <2>10, <2>11, <2>12 DEF PipelineInv
<1>2. CASE ReadCall(r) \/ ReadClosed(r) \/ ReadReady(r)
  <2>1. PICK x \in {"idle", "select", "copy"} :
          /\ reader' = [reader EXCEPT ![r].pc = x]
          /\ x \in {"idle", "select"} => reader[r].pc \in {"idle", "select"}
          /\ x = "copy" => reader[r].pc = "wait" /\ ready[reader[r].pkt]
    BY <1>2 DEF ReadCall, ReadClosed, ReadReady
  <2>2. UNCHANGED <<pool, refs, ready, result, datagram, received, outputChan, decryptChan,
                    io, worker, delivered, closed>>
    BY <1>2 DEF ReadCall, ReadClosed, ReadReady, fields, chans
  <2>3. /\ \A t \in Readers : t # r => reader'[t] = reader[t]
        /\ reader'[r].pc = x /\ reader'[r].pkt = reader[r].pkt
        /\ reader' \in [Readers -> [pc : ReaderPcs, pkt : Packets \cup {NoPacket}]]
    BY <1>b, <2>1 DEF ReaderPcs
  <2>4. \A t \in Readers : reader'[t].pkt = reader[t].pkt
    BY <2>3
  <2>5. Typed'
    BY <1>0, <2>2, <2>3 DEF Typed, TypeOK, IoType, ReaderPcs
  <2>6. Shape'
    BY <1>0, <2>1, <2>2, <2>3 DEF Shape
  <2>7. Owners' /\ Counted'
    BY <1>0, <2>2, <2>4 DEF Owners, Counted, OutputOwned, DecryptOwned, Reachable, InIoLoop,
                            WithReader, WithWorker, Current
  <2>8. ReadyLast'
    BY <1>0, <2>1, <2>2, <2>3 DEF ReadyLast, Current
  <2>9. Ordered'
    BY <1>0, <2>1, <2>2, <2>3 DEF Ordered, Pending
  <2> QED
    BY <2>5, <2>6, <2>7, <2>8, <2>9 DEF PipelineInv
<1>3. CASE ReadCopy(r)
  <2> DEFINE p == reader[r].pkt
  <2>1. PICK x \in {"retry", "return"} :
          /\ reader[r].pc = "copy"
          /\ reader' = [reader EXCEPT ![r].pc = x]
          /\ delivered' = delivered \/ delivered' = Append(delivered, datagram[p])
    <3>1. CASE result[reader[r].pkt] = "error"
      BY <1>3, <3>1 DEF ReadCopy
    <3>2. CASE result[reader[r].pkt] # "error"
      BY <1>3, <3>2 DEF ReadCopy
    <3> QED
      BY <3>1, <3>2
  <2>2. UNCHANGED <<pool, refs, ready, result, datagram, received, outputChan, decryptChan,
                    io, worker, closed>>
    BY <1>3 DEF ReadCopy, fields, chans
  <2>3. /\ \A t \in Readers : t # r => reader'[t] = reader[t]
        /\ reader'[r].pc = x /\ reader'[r].pkt = reader[r].pkt
        /\ reader' \in [Readers -> [pc : ReaderPcs, pkt : Packets \cup {NoPacket}]]
    BY <1>b, <2>1 DEF ReaderPcs
  <2>4. \A t \in Readers : reader'[t].pkt = reader[t].pkt
    BY <2>3
  <2>5. p \in Packets /\ datagram[p] \in 1 .. received
        /\ datagram[p] \in 1 .. MaxDatagrams
    BY <1>0, <1>b, <2>1 DEF Shape, Ordered, Typed, TypeOK
  <2>6. delivered \in Seq(1 .. MaxDatagrams)
    BY <1>0 DEF Typed, TypeOK
  <2> HIDE DEF p
  <2>7. delivered' \in Seq(1 .. MaxDatagrams)
    <3>1. Append(delivered, datagram[p]) \in Seq(1 .. MaxDatagrams)
      BY <2>5, <2>6
    <3> QED
      BY <2>1, <2>6, <3>1
  <2>8. /\ DOMAIN delivered \subseteq DOMAIN delivered'
        /\ \A i \in DOMAIN delivered' :
             \/ i \in DOMAIN delivered /\ delivered'[i] = delivered[i]
             \/ i = Len(delivered) + 1 /\ delivered'[i] = datagram[p]
    <3>1. CASE delivered' = delivered
      BY <3>1
    <3>2. CASE delivered' = Append(delivered, datagram[p])
      <4>1. DOMAIN delivered = 1 .. Len(delivered) /\ Len(delivered) \in Nat
        BY <2>6
      <4>2. DOMAIN delivered' = 1 .. (Len(delivered) + 1)
        BY <2>6, <3>2
      <4>3. \A i \in 1 .. Len(delivered) : delivered'[i] = delivered[i]
        BY <2>6, <3>2
      <4>4. delivered'[Len(delivered) + 1] = datagram[p]
        BY <2>6, <3>2
      <4> QED
        BY <4>1, <4>2, <4>3, <4>4
    <3> QED
      BY <2>1, <3>1, <3>2
  <2>9. Typed'
    BY <1>0, <2>2, <2>3, <2>7 DEF Typed, TypeOK, IoType, ReaderPcs
  <2>10. Shape'
    BY <1>0, <2>1, <2>2, <2>3 DEF Shape
  <2>11. Owners' /\ Counted'
    BY <1>0, <2>2, <2>4 DEF Owners, Counted, OutputOwned, DecryptOwned, Reachable, InIoLoop,
                            WithReader, WithWorker, Current
  <2>12. ReadyLast'
    BY <1>0, <2>1, <2>2, <2>3 DEF ReadyLast, Current
  <2>13. Ordered'
    <3>1. \A i \in DOMAIN delivered' :
            /\ delivered'[i] <= received
            /\ \A q \in ToSet(outputChan) \cup Pending : delivered'[i] < datagram[q]
      BY <1>0, <2>1, <2>5, <2>8 DEF Ordered, Shape, p
    <3>2. ASSUME Cardinality(Readers) = 1, NEW i \in DOMAIN delivered', NEW j \in DOMAIN delivered',
                 i < j
          PROVE  delivered'[i] < delivered'[j]
      <4>1. \A k \in DOMAIN delivered : delivered[k] < datagram[p]
        BY <1>0, <2>1, <3>2 DEF Ordered, p
      <4>2. \A k, l \in DOMAIN delivered : k < l => delivered[k] < delivered[l]
        BY <1>0, <3>2 DEF Ordered
      <4>3. DOMAIN delivered = 1 .. Len(delivered) /\ Len(delivered) \in Nat
        BY <2>6
      <4> QED
        BY <2>8, <3>2, <4>1, <4>2, <4>3
    <3>3. Cardinality(Readers) = 1 => \A t \in Readers : reader'[t].pc \notin {"wait", "copy"}
      BY <1>d, <2>1, <2>3
    <3> QED
      BY <1>0, <2>2, <2>4, <3>1, <3>2, <3>3 DEF Ordered, Pending
  <2> QED
    BY <2>9, <2>10, <2>11, <2>12, <2>13 DEF PipelineInv
<1>4. CASE ReadWaitClosed(r) \/ ReadUnref(r)
  <2> DEFINE p == reader[r].pkt
  <2>1. PICK x \in {"idle", "select"} :
          reader' = [reader EXCEPT ![r] = [pc |-> x, pkt |-> NoPacket]]
    <3>1. CASE ReadWaitClosed(r)
      BY <3>1 DEF ReadWaitClosed
    <3>2. CASE ReadUnref(r)
      <4>1. CASE reader[r].pc = "retry" /\ ~closed
        BY <3>2, <4>1 DEF ReadUnref
      <4>2. CASE ~(reader[r].pc = "retry" /\ ~closed)
        BY <3>2, <4>2 DEF ReadUnref
      <4> QED
        BY <4>1, <4>2
    <3> QED
      BY <1>4, <3>1, <3>2
  <2>2. /\ reader[r].pc \in {"wait", "retry", "return"}
        /\ refs' = [refs EXCEPT ![p] = @ - 1]
        /\ pool' = IF refs[p] = 1 THEN pool \cup {p} ELSE pool
        /\ UNCHANGED <<ready, result, datagram, received, outputChan, decryptChan,
                        io, worker, delivered, closed>>
    BY <1>4 DEF ReadWaitClosed, ReadUnref, Unref, fields, chans
  <2>3. /\ \A t \in Readers : t # r => reader'[t] = reader[t]
        /\ reader'[r].pc = x /\ reader'[r].pkt = NoPacket /\ p \in Packets
    BY <1>0, <1>b, <2>1, <2>2 DEF Shape
  <2>4. /\ p \notin ToSet(outputChan) /\ p # NoPacket
        /\ \A t \in Readers : reader[t].pkt = p => t = r
    BY <1>0, <2>3 DEF Owners
  <2>5. \A q \in Packets : WithReader(q)' <=> WithReader(q) /\ q # p
    BY <2>3, <2>4 DEF WithReader
  <2>6. WithReader(p)
    BY DEF WithReader
  <2>7. ~(io.pc = "output" /\ p = Current)
    BY <1>0, <1>c, <2>6 DEF Owners
  <2>8. refs[p] = 1 + (IF DecryptOwned(p) THEN 1 ELSE 0)
    BY <1>0, <2>3, <2>6 DEF Counted, OutputOwned
  <2>9. /\ refs' \in [Packets -> 0 .. 2] /\ refs'[p] = refs[p] - 1
        /\ \A q \in Packets : q # p => refs'[q] = refs[q]
    BY <1>0, <2>2, <2>3, <2>8 DEF Typed, TypeOK
  <2>10. /\ pool' \in SUBSET Packets
         /\ \A q \in Packets : q # p => (q \in pool' <=> q \in pool)
         /\ p \in pool' <=> ~DecryptOwned(p)
    BY <1>0, <2>2, <2>3, <2>6, <2>8 DEF Typed, TypeOK, Counted, Reachable
  <2>11. p \in ToSet(io.batch) => io.pc \in {"decrypt", "unref"} /\ p = Current
    BY <1>0, <2>6 DEF Owners
  <2> HIDE DEF p
  <2>12. Typed'
    BY <1>0, <2>1, <2>2, <2>9, <2>10 DEF Typed, TypeOK, IoType
  <2>13. Shape'
    BY <1>0, <2>2, <2>3 DEF Shape
  <2>14. Owners'
    BY <1>0, <1>a, <2>2, <2>3, <2>5 DEF Owners, WithWorker, Current
  <2>15. \A q \in Packets : DecryptOwned(q)' <=> DecryptOwned(q)
    BY <2>2 DEF DecryptOwned, WithWorker, Current
  <2>16. \A q \in Packets : OutputOwned(q)' <=> OutputOwned(q) /\ q # p
    BY <2>2, <2>4, <2>5, <2>7 DEF OutputOwned, Current
  <2>17. \A q \in Packets : Reachable(q)' <=> IF q = p THEN DecryptOwned(q) ELSE Reachable(q)
    BY <2>2, <2>4, <2>5, <2>11, <1>c DEF Reachable, InIoLoop, WithWorker, DecryptOwned
  <2>18. Counted'
    BY <1>0, <2>3, <2>6, <2>8, <2>9, <2>10, <2>15, <2>16, <2>17 DEF Counted, OutputOwned
  <2>19. ReadyLast'
    BY <1>0, <2>2, <2>3 DEF ReadyLast, Current
  <2>20. Ordered'
    BY <1>0, <2>2, <2>3 DEF Ordered, Pending
  <2> QED
    BY <2>12, <2>13, <2>14, <2>18, <2>19, <2>20 DEF PipelineInv
<1> QED
  BY <1>1, <1>2, <1>3, <1>4 DEF ReadStep
-----------------------------------------------------------------------------
(* ioLoop *)

(* The packet being dispatched, and the batch without it. *)
LEMMA CurrentFacts ==
  ASSUME PipelineInv, io.pc \in {"dispatch", "output", "decrypt", "unref"}
  PROVE  /\ io.batch \in Seq(Packets) /\ io.batch # <<>>
         /\ Current \in Packets /\ Current \in ToSet(io.batch)
         /\ Tail(io.batch) \in Seq(Packets) /\ Len(Tail(io.batch)) = Len(io.batch) - 1
         /\ ToSet(io.batch) = {Current} \cup ToSet(Tail(io.batch))
         /\ Distinct(Tail(io.batch)) /\ Current \notin ToSet(Tail(io.batch))
         /\ Rising(datagram, Tail(io.batch))
         /\ \A q \in ToSet(Tail(io.batch)) : datagram[Current] < datagram[q]
         /\ Pending = IF io.pc \in {"dispatch", "output"} THEN ToSet(io.batch)
                      ELSE ToSet(Tail(io.batch))
<1>1. io.batch \in Seq(Packets) /\ io.batch # <<>>
  BY DEF PipelineInv, Typed, TypeOK, Shape
<1>2. Distinct(io.batch) /\ Rising(datagram, io.batch)
  BY DEF PipelineInv, Owners, Ordered
<1> QED
  BY <1>1, <1>2, HeadElements, RisingTail DEF Current, Pending

(* What NextPacket does to ioLoop's state. *)
LEMMA NextPacketFacts ==
  ASSUME PipelineInv, io.pc \in {"dispatch", "output", "decrypt", "unref"}, NextPacket
  PROVE  /\ io' \in IoType /\ io'.pc \in {"acquire", "dispatch"}
         /\ io'.batch = Tail(io.batch) /\ Len(io'.batch) <= BatchSize
         /\ io'.pc = "acquire" <=> io'.batch = <<>>
         /\ Pending' = ToSet(Tail(io.batch))
<1>1. io.batch \in Seq(Packets) /\ io.batch # <<>>
      /\ Tail(io.batch) \in Seq(Packets) /\ Len(Tail(io.batch)) = Len(io.batch) - 1
  BY CurrentFacts
<1>a. Len(Tail(io.batch)) <= BatchSize
  <2>1. Len(io.batch) \in Nat /\ Len(io.batch) <= BatchSize
    BY <1>1 DEF PipelineInv, Typed, TypeOK
  <2> QED
    BY <1>1, <2>1, PipelineAssumption
<1>2. CASE Len(io.batch) = 1
  <2>1. io' = [pc |-> "acquire", batch |-> Tail(io.batch), queued |-> FALSE]
    BY <1>2 DEF NextPacket
  <2>2. Tail(io.batch) = <<>>
    BY <1>1, <1>2, TailEmpty
  <2>3. ToSet(Tail(io.batch)) = {}
    BY <2>2 DEF ToSet
  <2>4. io'.pc = "acquire" /\ io'.batch = Tail(io.batch) /\ io' \in IoType
    BY <1>1, <2>1 DEF IoType, IoPcs
  <2>5. Len(io'.batch) <= BatchSize
    BY <1>a, <2>4
  <2>6. Pending' = {}
    BY <2>4 DEF Pending
  <2> QED
    BY <2>2, <2>3, <2>4, <2>5, <2>6
<1>3. CASE Len(io.batch) # 1
  <2>1. io' = [pc |-> "dispatch", batch |-> Tail(io.batch), queued |-> FALSE]
    BY <1>3 DEF NextPacket
  <2>2. Tail(io.batch) # <<>>
    BY <1>1, <1>3, TailEmpty
  <2>3. io'.pc = "dispatch" /\ io'.batch = Tail(io.batch) /\ io' \in IoType
    BY <1>1, <2>1 DEF IoType, IoPcs
  <2>4. Len(io'.batch) <= BatchSize
    BY <1>a, <2>3
  <2>5. Pending' = ToSet(io'.batch)
    BY <2>3 DEF Pending
  <2> QED
    BY <2>2, <2>3, <2>4, <2>5
<1> QED
  BY <1>2, <1>3

(* A step that hands the current packet on, or gives it up, and goes to the next one:
   what remains to show is the new queues, the counts and that it was not ready early. *)
LEMMA AdvanceKeeps ==
  ASSUME PipelineInv, io.pc \in {"dispatch", "output", "decrypt", "unref"}, NextPacket,
         UNCHANGED <<outputChan, worker, reader, delivered, datagram, received, result, ready>>
  PROVE  /\ Shape' /\ Ordered'
         /\ decryptChan' = decryptChan => Owners' /\ ReadyLast'
         /\ \A q \in Packets :
              /\ OutputOwned(q)' <=> q \in ToSet(outputChan) \/ WithReader(q)
              /\ DecryptOwned(q)' <=> q \in ToSet(decryptChan') \/ WithWorker(q)
              /\ InIoLoop(q)' <=> InIoLoop(q) /\ q # Current
<1>0. Typed /\ Shape /\ Owners /\ Counted /\ ReadyLast /\ Ordered
  BY DEF PipelineInv
<1>1. /\ Current \in Packets /\ Current \in ToSet(io.batch)
      /\ ToSet(io.batch) = {Current} \cup ToSet(io'.batch)
      /\ Distinct(io'.batch) /\ Current \notin ToSet(io'.batch)
      /\ Rising(datagram, io'.batch) /\ Pending' = ToSet(io'.batch)
      /\ Pending' \subseteq Pending
  BY CurrentFacts, NextPacketFacts
<1>2. /\ io' \in IoType /\ io'.pc \in {"acquire", "dispatch"}
      /\ io'.pc = "acquire" <=> io'.batch = <<>>
  BY NextPacketFacts
<1>3. Shape'
  BY <1>0, <1>2 DEF Shape
<1>4. Ordered'
  BY <1>0, <1>1, <1>2 DEF Ordered
<1>5. ASSUME decryptChan' = decryptChan PROVE Owners'
  BY <1>0, <1>1, <1>2, <1>5 DEF Owners, WithReader, WithWorker
<1>6. ASSUME decryptChan' = decryptChan PROVE ReadyLast'
  BY <1>0, <1>1, <1>2, <1>6 DEF ReadyLast
<1>7. ASSUME NEW q \in Packets
      PROVE  /\ OutputOwned(q)' <=> q \in ToSet(outputChan) \/ WithReader(q)
             /\ DecryptOwned(q)' <=> q \in ToSet(decryptChan') \/ WithWorker(q)
             /\ InIoLoop(q)' <=> InIoLoop(q) /\ q # Current
  BY <1>1, <1>2 DEF OutputOwned, DecryptOwned, WithReader, WithWorker, InIoLoop
<1> QED
  BY <1>3, <1>4, <1>5, <1>6, <1>7
(* ioLoop takes a batch from the pool, reads into it, or gives it back. *)
LEMMA BatchKeepsInv ==
  ASSUME PipelineInv,
         \/ \E b \in Batches : IoAcquire(b)
         \/ IoExit \/ IoReadError
         \/ \E n \in 1 .. BatchSize : IoRead(n)
  PROVE  PipelineInv'
<1> USE PipelineAssumption, NoPacketAssumption
<1>0. Typed /\ Shape /\ Owners /\ Counted /\ ReadyLast /\ Ordered
  BY DEF PipelineInv
<1>a. io \in IoType /\ BatchSize \in Nat /\ BatchSize > 0
  BY <1>0 DEF Typed
<1>b. \A r \in Readers : reader[r].pkt # NoPacket => reader[r].pkt \in Packets
  BY <1>0 DEF Typed, TypeOK
<1>c. ToSet(<<>>) = {} /\ Distinct(<<>>)
  BY DEF ToSet, Distinct
<1>1. ASSUME NEW b \in Batches, IoAcquire(b) PROVE PipelineInv'
  <2>1. /\ b \in [1 .. BatchSize -> pool] /\ Distinct(b) /\ pool \subseteq Packets
    BY <1>0 DEF Batches, IsInjective, Distinct, Typed, TypeOK
  <2>2. b \in Seq(Packets) /\ Len(b) = BatchSize /\ ToSet(b) \subseteq pool
    BY <1>a, <2>1 DEF ToSet
  <2>3. \A p \in ToSet(b) : p \in Packets /\ ~Reachable(p)
    BY <1>0, <2>1, <2>2 DEF Counted
  <2>4. /\ io.pc = "acquire" /\ io' = [io EXCEPT !.pc = "read", !.batch = b]
        /\ pool' = pool \ ToSet(b)
        /\ refs' = [p \in Packets |-> IF p \in ToSet(b) THEN 0 ELSE refs[p]]
        /\ ready' = [p \in Packets |-> IF p \in ToSet(b) THEN FALSE ELSE ready[p]]
        /\ result' = [p \in Packets |-> IF p \in ToSet(b) THEN "none" ELSE result[p]]
        /\ UNCHANGED <<datagram, received, outputChan, decryptChan, worker, reader, delivered,
                       closed>>
    BY <1>1 DEF IoAcquire, chans
  <2>5. /\ io' \in IoType /\ io'.pc = "read" /\ io'.batch = b
    BY <1>a, <2>2, <2>4 DEF IoType, IoPcs
  <2>6. io.batch = <<>> /\ ToSet(io.batch) = {}
    BY <1>0, <1>c, <2>4 DEF Shape
  <2>7. Typed'
    <3>a. refs' \in [Packets -> 0 .. 2]
      BY <1>0, <2>4 DEF Typed, TypeOK
    <3>b. ready' \in [Packets -> BOOLEAN]
      BY <1>0, <2>4 DEF Typed, TypeOK
    <3>c. result' \in [Packets -> {"none", "data", "error"}]
      BY <1>0, <2>4 DEF Typed, TypeOK
    <3>1. pool' \in SUBSET Packets
      BY <2>1, <2>4
    <3>2. io'.batch \in Seq(Packets) /\ Len(io'.batch) <= BatchSize /\ io'.queued \in BOOLEAN
      BY <1>a, <2>2, <2>5 DEF IoType
    <3> QED
      BY <1>0, <2>4, <2>5, <3>a, <3>b, <3>c, <3>1, <3>2 DEF Typed, TypeOK, IoPcs
  <2>8. Shape'
    BY <1>0, <2>2, <2>4, <2>5 DEF Shape
  <2>9. Owners'
    BY <1>0, <2>1, <2>3, <2>4, <2>5 DEF Owners, Reachable, WithReader, WithWorker
  <2>10. ASSUME NEW p \in Packets
         PROVE  /\ OutputOwned(p)' <=> OutputOwned(p)
                /\ DecryptOwned(p)' <=> DecryptOwned(p)
                /\ Reachable(p)' <=> Reachable(p) \/ p \in ToSet(b)
                /\ OutputOwned(p) \/ DecryptOwned(p) => Reachable(p)
    BY <2>4, <2>5, <2>6
       DEF OutputOwned, DecryptOwned, Reachable, InIoLoop, WithReader, WithWorker
  <2>11. Counted'
    BY <1>0, <2>2, <2>3, <2>4, <2>10 DEF Counted
  <2>12. /\ \A p \in ToSet(decryptChan) : p \notin ToSet(b)
         /\ \A w \in Workers : worker[w].pkt \notin ToSet(b)
         /\ \A r \in Readers : reader[r].pkt \notin ToSet(b)
    BY <2>3 DEF Reachable, WithWorker, WithReader
  <2>13. /\ \A p \in Packets : p \notin ToSet(b) => ready'[p] = ready[p] /\ result'[p] = result[p]
         /\ \A p \in ToSet(b) : ~ready'[p]
    BY <2>3, <2>4
  <2>a. ToSet(decryptChan) \subseteq Packets
    BY <1>0 DEF Typed, TypeOK, ToSet
  <2>b. \A w \in Workers : worker[w].pc \in {"process", "signal"} => worker[w].pkt \in Packets
    BY <1>0 DEF Typed, TypeOK, Shape
  <2>14. ReadyLast'
    BY <1>0, <1>b, <2>3, <2>4, <2>5, <2>12, <2>13, <2>a, <2>b DEF ReadyLast, Shape
  <2>15. Pending = {} /\ Pending' = {}
    BY <2>4, <2>5 DEF Pending
  <2>16. Ordered'
    BY <1>0, <2>4, <2>5, <2>15 DEF Ordered
  <2> QED
    BY <2>7, <2>8, <2>9, <2>11, <2>14, <2>16 DEF PipelineInv
<1>2. CASE IoExit
  <2>1. /\ io.pc = "acquire" /\ io' = [io EXCEPT !.pc = "exit"]
        /\ UNCHANGED <<pool, refs, ready, result, datagram, received, outputChan, decryptChan,
                       worker, reader, delivered, closed>>
    BY <1>2 DEF IoExit, fields, chans
  <2>2. io' \in IoType /\ io'.pc = "exit" /\ io'.batch = io.batch
    BY <1>a, <2>1 DEF IoType, IoPcs
  <2>3. Typed'
    BY <1>0, <2>1, <2>2 DEF Typed, TypeOK, IoType
  <2>4. Shape'
    BY <1>0, <2>1, <2>2 DEF Shape
  <2>5. Owners' /\ Counted'
    BY <1>0, <2>1, <2>2 DEF Owners, Counted, OutputOwned, DecryptOwned, Reachable, InIoLoop,
                            WithReader, WithWorker, Current
  <2>6. ReadyLast'
    BY <1>0, <2>1, <2>2 DEF ReadyLast, Current
  <2>7. Pending = {} /\ Pending' = {}
    BY <2>1, <2>2 DEF Pending
  <2>8. Ordered'
    BY <1>0, <2>1, <2>2, <2>7 DEF Ordered
  <2> QED
    BY <2>3, <2>4, <2>5, <2>6, <2>8 DEF PipelineInv
<1>3. CASE IoReadError
  <2>1. /\ io.pc = "read" /\ io' = [io EXCEPT !.pc = "acquire", !.batch = <<>>]
        /\ pool' = pool \cup ToSet(io.batch)
        /\ UNCHANGED <<refs, ready, result, datagram, received, outputChan, decryptChan,
                       worker, reader, delivered, closed>>
    BY <1>3 DEF IoReadError, fields, chans
  <2>2. io' \in IoType /\ io'.pc = "acquire" /\ io'.batch = <<>>
    <3>1. <<>> \in Seq(Packets)
      OBVIOUS
    <3> QED
      BY <1>a, <2>1, <3>1 DEF IoType, IoPcs
  <2>3. ToSet(io.batch) \subseteq Packets
    BY <1>0 DEF Typed, TypeOK, ToSet
  <2>4. Typed'
    BY <1>0, <2>1, <2>2, <2>3 DEF Typed, TypeOK, IoType
  <2>5. Shape'
    BY <1>0, <2>1, <2>2 DEF Shape
  <2>6. Owners'
    BY <1>0, <1>c, <2>1, <2>2 DEF Owners, WithReader, WithWorker
  <2>7. ASSUME NEW p \in Packets
        PROVE  /\ OutputOwned(p)' <=> OutputOwned(p)
               /\ DecryptOwned(p)' <=> DecryptOwned(p)
               /\ Reachable(p)' <=> Reachable(p) /\ p \notin ToSet(io.batch)
    BY <1>0, <1>c, <2>1, <2>2
       DEF Owners, OutputOwned, DecryptOwned, Reachable, InIoLoop, WithReader, WithWorker
  <2>8. Counted'
    BY <1>0, <2>1, <2>3, <2>7 DEF Counted
  <2>9. ReadyLast'
    BY <1>0, <1>c, <2>1, <2>2 DEF ReadyLast
  <2>10. Pending = {} /\ Pending' = {}
    BY <2>1, <2>2 DEF Pending
  <2>11. Ordered'
    BY <1>0, <2>1, <2>2, <2>10 DEF Ordered
  <2> QED
    BY <2>4, <2>5, <2>6, <2>8, <2>9, <2>11 DEF PipelineInv
<1>4. ASSUME NEW n \in 1 .. BatchSize, IoRead(n) PROVE PipelineInv'
  <2> DEFINE s == io.batch
             a == SubSeq(io.batch, 1, n)
             b == SubSeq(io.batch, n + 1, Len(io.batch))
  <2>1. /\ io.pc = "read" /\ io' = [io EXCEPT !.pc = "dispatch", !.batch = a]
        /\ received + n <= MaxDatagrams /\ received' = received + n
        /\ datagram' = [p \in Packets |->
             IF \E k \in 1 .. n : s[k] = p
             THEN received + (CHOOSE k \in 1 .. n : s[k] = p)
             ELSE datagram[p]]
        /\ pool' = pool \cup ToSet(b)
        /\ UNCHANGED <<refs, ready, result, outputChan, decryptChan, worker, reader, delivered,
                       closed>>
    BY <1>4 DEF IoRead, chans
  <2>2. s \in Seq(Packets) /\ Len(s) = BatchSize /\ n \in 0 .. Len(s) /\ Distinct(s)
    BY <1>0, <2>1 DEF Shape, Typed, TypeOK, Owners
  <2>3. /\ a \in Seq(Packets) /\ Len(a) = n
        /\ \A k \in 1 .. n : a[k] = s[k]
        /\ ToSet(s) = ToSet(a) \cup ToSet(b)
        /\ Distinct(a) /\ ToSet(a) \cap ToSet(b) = {}
    <3> HIDE DEF s
    <3>1. /\ SubSeq(s, 1, n) \in Seq(Packets) /\ Len(SubSeq(s, 1, n)) = n
          /\ \A k \in 1 .. n : SubSeq(s, 1, n)[k] = s[k]
      BY <2>2, SplitElements
    <3>2. ToSet(s) = ToSet(SubSeq(s, 1, n)) \cup ToSet(SubSeq(s, n + 1, Len(s)))
      BY <2>2, SplitElements
    <3>3. /\ Distinct(SubSeq(s, 1, n))
          /\ ToSet(SubSeq(s, 1, n)) \cap ToSet(SubSeq(s, n + 1, Len(s))) = {}
      BY <2>2, SplitElements
    <3> QED
      BY <3>1, <3>2, <3>3 DEF s
  <2>4. ToSet(s) \subseteq Packets
    BY <2>2 DEF ToSet
  <2>5. io' \in IoType /\ io'.pc = "dispatch" /\ io'.batch = a
    BY <1>a, <2>1, <2>3 DEF IoType, IoPcs
  <2> HIDE DEF a, b
  <2>6. a # <<>>
    BY <2>3
  <2>7. /\ received \in 0 .. MaxDatagrams /\ n \in Nat /\ n > 0
        /\ \A p \in Packets : datagram[p] \in 0 .. MaxDatagrams
    BY <1>0 DEF Typed, TypeOK
  <2>8. \A k \in 1 .. n : datagram'[s[k]] = received + k
    <3>1. SUFFICES ASSUME NEW k \in 1 .. n PROVE datagram'[s[k]] = received + k
      OBVIOUS
    <3>2. s[k] \in Packets /\ DOMAIN s = 1 .. BatchSize /\ k \in DOMAIN s
      BY <2>2, <2>7
    <3>3. (CHOOSE i \in 1 .. n : s[i] = s[k]) \in 1 .. n /\ s[CHOOSE i \in 1 .. n : s[i] = s[k]] = s[k]
      OBVIOUS
    <3>4. (CHOOSE i \in 1 .. n : s[i] = s[k]) = k
      BY <2>2, <2>7, <3>2, <3>3 DEF Distinct
    <3> QED
      BY <2>1, <3>2, <3>4
  <2>9. \A p \in Packets : p \notin ToSet(a) => datagram'[p] = datagram[p]
    <3>1. \A k \in 1 .. n : s[k] \in ToSet(a)
      BY <2>3 DEF ToSet
    <3> QED
      BY <2>1, <3>1
  <2>10. \A p \in ToSet(a) : \E k \in 1 .. n : p = s[k] /\ datagram'[p] = received + k
    BY <2>3, <2>8 DEF ToSet
  <2>11. datagram' \in [Packets -> 0 .. MaxDatagrams]
    <3>1. \A p \in Packets : datagram'[p] \in 0 .. MaxDatagrams
      BY <2>1, <2>7, <2>9, <2>10
    <3> QED
      BY <2>1, <3>1
  <2>12. Typed'
    <3>1. io'.batch \in Seq(Packets) /\ Len(io'.batch) <= BatchSize /\ io'.queued \in BOOLEAN
      BY <1>a, <2>3, <2>5 DEF IoType
    <3>2. received' \in 0 .. MaxDatagrams /\ pool' \in SUBSET Packets
      BY <1>0, <2>1, <2>3, <2>4, <2>7 DEF Typed, TypeOK
    <3> QED
      BY <1>0, <2>1, <2>5, <2>11, <3>1, <3>2 DEF Typed, TypeOK, IoPcs
  <2>13. Shape'
    BY <1>0, <2>1, <2>5, <2>6 DEF Shape
  <2>14. Owners'
    BY <1>0, <2>1, <2>3, <2>5 DEF Owners, WithReader, WithWorker
  <2>15. ASSUME NEW p \in Packets
         PROVE  /\ OutputOwned(p)' <=> OutputOwned(p)
                /\ DecryptOwned(p)' <=> DecryptOwned(p)
                /\ Reachable(p)' <=> Reachable(p) /\ p \notin ToSet(b)
    BY <1>0, <2>1, <2>3, <2>5
       DEF Owners, OutputOwned, DecryptOwned, Reachable, InIoLoop, WithReader, WithWorker
  <2>16. Counted'
    BY <1>0, <2>1, <2>3, <2>4, <2>15 DEF Counted
  <2>17. ReadyLast'
    BY <1>0, <2>1, <2>3, <2>5 DEF ReadyLast
  <2>18. Pending = {} /\ Pending' = ToSet(a)
    BY <2>1, <2>5 DEF Pending
  <2>19. \A p \in ToSet(outputChan) : p \in Packets /\ p \notin ToSet(a)
    <3>1. ToSet(outputChan) \subseteq Packets
      BY <1>0 DEF Typed, TypeOK, ToSet
    <3> QED
      BY <1>0, <2>1, <2>3, <3>1 DEF Owners
  <2>20. \A r \in Readers : reader[r].pkt # NoPacket =>
            reader[r].pkt \in Packets /\ reader[r].pkt \notin ToSet(a)
    BY <1>0, <1>b, <2>1, <2>3 DEF Owners, WithReader
  <2>21. Rising(datagram', a)
    <3>1. DOMAIN a = 1 .. n
      BY <2>3
    <3> QED
      BY <2>3, <2>7, <2>8, <3>1 DEF Rising
  <2>22. Rising(datagram', outputChan)
    <3>1. \A i \in DOMAIN outputChan : datagram'[outputChan[i]] = datagram[outputChan[i]]
      BY <2>9, <2>19 DEF ToSet
    <3> QED
      BY <1>0, <3>1 DEF Ordered, Rising
  <2>23. \A p \in ToSet(a) : datagram'[p] \in 1 .. received' /\ datagram'[p] > received
    BY <2>1, <2>7, <2>10
  <2>24. \A i \in DOMAIN delivered : delivered[i] <= received /\ delivered[i] \in Nat
    BY <1>0 DEF Ordered, Typed, TypeOK
  <2>25. Ordered'
    <3>1. \A p \in ToSet(outputChan) \cup ToSet(a) : datagram'[p] \in 1 .. received'
      BY <1>0, <2>1, <2>7, <2>9, <2>19, <2>23 DEF Ordered
    <3>2. \A p \in ToSet(outputChan), q \in ToSet(a) : datagram'[p] < datagram'[q]
      BY <1>0, <2>1, <2>7, <2>9, <2>19, <2>23 DEF Ordered
    <3>3. \A r \in Readers : reader[r].pkt # NoPacket =>
            /\ datagram'[reader[r].pkt] \in 1 .. received'
            /\ \A p \in ToSet(outputChan) \cup ToSet(a) : datagram'[reader[r].pkt] < datagram'[p]
      <4>1. SUFFICES ASSUME NEW r \in Readers, reader[r].pkt # NoPacket
                     PROVE  /\ datagram'[reader[r].pkt] \in 1 .. received'
                            /\ \A p \in ToSet(outputChan) : datagram'[reader[r].pkt] < datagram'[p]
                            /\ \A p \in ToSet(a) : datagram'[reader[r].pkt] < datagram'[p]
        OBVIOUS
      <4>2. datagram'[reader[r].pkt] = datagram[reader[r].pkt]
        BY <2>9, <2>20, <4>1
      <4>3. /\ datagram[reader[r].pkt] \in 1 .. received
            /\ \A p \in ToSet(outputChan) : datagram[reader[r].pkt] < datagram[p]
        BY <1>0, <4>1 DEF Ordered
      <4>4. \A p \in ToSet(outputChan) : datagram'[p] = datagram[p]
        BY <2>9, <2>19
      <4> DEFINE d == datagram[reader[r].pkt]
      <4>5. d \in 1 .. received /\ datagram'[reader[r].pkt] = d
        BY <4>2, <4>3
      <4> HIDE DEF d
      <4>6. received \in Nat /\ received' = received + n /\ n \in Nat
        BY <2>1, <2>7
      <4>7. d \in 1 .. received' /\ d \in Nat /\ d <= received
        BY <4>5, <4>6
      <4>8. ASSUME NEW p \in ToSet(a)
            PROVE  d < datagram'[p]
        <5>1. datagram'[p] \in Int /\ datagram'[p] > received
          BY <2>23
        <5> QED
          BY <4>6, <4>7, <5>1
      <4> QED
        BY <4>3, <4>4, <4>5, <4>7, <4>8 DEF d
    <3>4. \A i \in DOMAIN delivered :
            /\ delivered[i] <= received'
            /\ \A p \in ToSet(outputChan) \cup ToSet(a) : delivered[i] < datagram'[p]
      BY <1>0, <2>1, <2>7, <2>9, <2>19, <2>23, <2>24 DEF Ordered
    <3>5. Cardinality(Readers) = 1 =>
            \A r \in Readers : reader[r].pc \in {"wait", "copy"} =>
              \A i \in DOMAIN delivered : delivered[i] < datagram'[reader[r].pkt]
      BY <1>0, <2>9, <2>20 DEF Ordered, Shape
    <3> QED
      BY <1>0, <2>1, <2>5, <2>18, <2>21, <2>22, <3>1, <3>2, <3>3, <3>4, <3>5 DEF Ordered
  <2> QED
    BY <2>12, <2>13, <2>14, <2>16, <2>17, <2>25 DEF PipelineInv
<1> QED
  BY <1>1, <1>2, <1>3, <1>4

(* dispatchToChannels, for every outcome of its two non-blocking sends, keeps the
   invariant. *)
LEMMA DispatchKeepsInv ==
  ASSUME PipelineInv,
         \/ IoDropEmpty \/ DispatchBegin
         \/ DispatchOutput \/ DispatchOutputClosed \/ DispatchOutputFull
         \/ DispatchDecrypt \/ DispatchDecryptDrop \/ DispatchUnref
  PROVE  PipelineInv'
<1> USE PipelineAssumption, NoPacketAssumption
<1> DEFINE c == Current
<1>0. Typed /\ Shape /\ Owners /\ Counted /\ ReadyLast /\ Ordered
  BY DEF PipelineInv
<1>a. io.pc \in {"dispatch", "output", "decrypt", "unref"} /\ io \in IoType
  BY <1>0 DEF IoDropEmpty, DispatchBegin, DispatchOutput, DispatchOutputClosed,
     DispatchOutputFull, DispatchDecrypt, DispatchDecryptDrop, DispatchUnref, Typed
<1>b. /\ io.batch \in Seq(Packets) /\ io.batch # <<>>
      /\ c \in Packets /\ c \in ToSet(io.batch)
      /\ ToSet(io.batch) = {c} \cup ToSet(Tail(io.batch))
      /\ c \notin ToSet(Tail(io.batch))
      /\ \A q \in ToSet(Tail(io.batch)) : datagram[c] < datagram[q]
      /\ Pending = IF io.pc \in {"dispatch", "output"} THEN ToSet(io.batch)
                   ELSE ToSet(Tail(io.batch))
  BY <1>a, CurrentFacts
<1>c. /\ c \notin ToSet(decryptChan) /\ ~WithWorker(c)
      /\ io.pc \in {"dispatch", "output"} => c \notin ToSet(outputChan) /\ ~WithReader(c)
  BY <1>0, <1>b DEF Owners
<1>d. /\ \A p \in Packets : refs[p] \in 0 .. 2
      /\ refs \in [Packets -> 0 .. 2] /\ pool \subseteq Packets
  BY <1>0 DEF Typed, TypeOK
<1>e. ASSUME NEW p \in Packets
      PROVE  /\ refs[p] = (IF OutputOwned(p) THEN 1 ELSE 0) + (IF DecryptOwned(p) THEN 1 ELSE 0)
             /\ p \in pool <=> ~Reachable(p)
             /\ Reachable(p) <=> InIoLoop(p) \/ OutputOwned(p) \/ DecryptOwned(p)
  BY <1>0, <1>b DEF Counted, Reachable, InIoLoop, OutputOwned, DecryptOwned
<1>f. ASSUME io' \in IoType, Len(io'.batch) <= BatchSize, pool' \subseteq Packets,
             refs' \in [Packets -> 0 .. 2],
             outputChan' \in Seq(Packets), Len(outputChan') <= OutputCap,
             decryptChan' \in Seq(Packets), Len(decryptChan') <= DecryptCap,
             ready' \in [Packets -> BOOLEAN], result' \in [Packets -> {"none", "data", "error"}],
             UNCHANGED <<datagram, received, worker, reader, delivered, closed>>
      PROVE  Typed'
  <2>1. io'.pc \in IoPcs /\ io'.batch \in Seq(Packets) /\ io'.queued \in BOOLEAN
    BY <1>f DEF IoType
  <2> QED
    BY <1>0, <1>f, <2>1 DEF Typed, TypeOK, IoPcs
<1>g. /\ outputChan \in Seq(Packets) /\ Len(outputChan) <= OutputCap
      /\ decryptChan \in Seq(Packets) /\ Len(decryptChan) <= DecryptCap
      /\ ready \in [Packets -> BOOLEAN] /\ result \in [Packets -> {"none", "data", "error"}]
      /\ Len(io.batch) <= BatchSize
  BY <1>0 DEF Typed, TypeOK
(* The current packet is given up, with every reference it has *)
<1>1. ASSUME NextPacket, pool' = pool \cup {c},
             UNCHANGED <<outputChan, decryptChan, worker, reader, delivered, closed,
                         datagram, received, result, ready>>,
             refs' \in [Packets -> 0 .. 2], \A q \in Packets : q # c => refs'[q] = refs[q],
             refs'[c] = 0, c \notin ToSet(outputChan), ~WithReader(c)
      PROVE  PipelineInv'
  <2>1. io' \in IoType /\ Len(io'.batch) <= BatchSize
    BY <1>1, <1>a, NextPacketFacts
  <2>2. Typed'
    BY <1>1, <1>b, <1>d, <1>f, <1>g, <2>1
  <2>3. /\ Shape' /\ Ordered' /\ Owners' /\ ReadyLast'
        /\ \A q \in Packets :
             /\ OutputOwned(q)' <=> q \in ToSet(outputChan) \/ WithReader(q)
             /\ DecryptOwned(q)' <=> q \in ToSet(decryptChan') \/ WithWorker(q)
             /\ InIoLoop(q)' <=> InIoLoop(q) /\ q # Current
    BY <1>1, <1>a, AdvanceKeeps
  <2>4. Counted'
    <3>1. SUFFICES ASSUME NEW q \in Packets
                   PROVE  /\ refs'[q] = (IF OutputOwned(q)' THEN 1 ELSE 0)
                                        + (IF DecryptOwned(q)' THEN 1 ELSE 0)
                          /\ q \in pool' <=> ~Reachable(q)'
      BY DEF Counted
    <3>2. Reachable(q)' <=> InIoLoop(q)' \/ q \in ToSet(outputChan) \/ q \in ToSet(decryptChan)
                            \/ WithWorker(q) \/ WithReader(q)
      BY <1>1 DEF Reachable, WithWorker, WithReader
    <3>3. CASE q = c
      BY <1>1, <1>c, <2>3, <3>2, <3>3
    <3>4. CASE q # c
      <4>1. OutputOwned(q)' <=> OutputOwned(q)
        BY <2>3, <3>4 DEF OutputOwned
      <4>2. DecryptOwned(q)' <=> DecryptOwned(q)
        BY <1>1, <2>3, <3>4 DEF DecryptOwned
      <4>3. InIoLoop(q)' <=> InIoLoop(q)
        BY <2>3, <3>4
      <4>4. Reachable(q)' <=> Reachable(q)
        BY <3>2, <4>3 DEF Reachable
      <4> QED
        BY <1>1, <1>e, <3>4, <4>1, <4>2, <4>4
    <3> QED
      BY <3>3, <3>4
  <2> QED
    BY <2>2, <2>3, <2>4 DEF PipelineInv
<1>2. CASE IoDropEmpty \/ (DispatchBegin /\ closed)
  <2>1. /\ io.pc = "dispatch" /\ NextPacket /\ pool' = pool \cup {c}
        /\ UNCHANGED <<refs, outputChan, decryptChan, worker, reader, delivered, closed,
                       datagram, received, result, ready>>
    BY <1>2 DEF IoDropEmpty, DispatchBegin, fields, chans
  <2>2. ~OutputOwned(c) /\ ~DecryptOwned(c)
    BY <1>c, <2>1 DEF OutputOwned, DecryptOwned
  <2>3. refs[c] = 0
    BY <1>b, <1>e, <2>2
  <2> QED
    BY <1>1, <1>c, <1>d, <2>1, <2>3
<1>3. CASE DispatchOutputClosed
  <2>1. /\ io.pc = "output" /\ NextPacket
        /\ refs' = [refs EXCEPT ![c] = @ - 2]
        /\ pool' = IF refs[c] = 2 THEN pool \cup {c} ELSE pool
        /\ UNCHANGED <<outputChan, decryptChan, worker, reader, delivered, closed,
                       datagram, received, result, ready>>
    BY <1>3 DEF DispatchOutputClosed, Unref, fields, chans
  <2>2. OutputOwned(c) /\ DecryptOwned(c)
    BY <2>1 DEF OutputOwned, DecryptOwned
  <2>3. refs[c] = 2
    BY <1>b, <1>e, <2>2
  <2>4. /\ refs' \in [Packets -> 0 .. 2] /\ refs'[c] = 0
        /\ \A q \in Packets : q # c => refs'[q] = refs[q]
    BY <1>b, <1>d, <2>1, <2>3
  <2> QED
    BY <1>1, <1>c, <2>1, <2>3, <2>4
<1>4. CASE DispatchBegin /\ ~closed
  <2>1. /\ io.pc = "dispatch" /\ io' = [io EXCEPT !.pc = "output"]
        /\ refs' = [refs EXCEPT ![c] = 2]
        /\ UNCHANGED <<pool, outputChan, decryptChan, worker, reader, delivered, closed,
                       datagram, received, result, ready>>
    BY <1>4 DEF DispatchBegin, fields, chans
  <2>2. io' \in IoType /\ io'.pc = "output" /\ io'.batch = io.batch
    BY <1>a, <2>1 DEF IoType, IoPcs
  <2>3. /\ refs' \in [Packets -> 0 .. 2] /\ refs'[c] = 2
        /\ \A q \in Packets : q # c => refs'[q] = refs[q]
    BY <1>b, <1>d, <2>1
  <2>4. Typed'
    BY <1>d, <1>f, <1>g, <2>1, <2>2, <2>3
  <2>5. Shape'
    BY <1>0, <2>1, <2>2 DEF Shape
  <2>6. Owners'
    BY <1>0, <2>1, <2>2 DEF Owners, WithReader, WithWorker, Current
  <2>7. ASSUME NEW q \in Packets
        PROVE  /\ OutputOwned(q)' <=> OutputOwned(q) \/ q = c
               /\ DecryptOwned(q)' <=> DecryptOwned(q) \/ q = c
               /\ Reachable(q)' <=> Reachable(q)
    BY <2>1, <2>2 DEF OutputOwned, DecryptOwned, Reachable, InIoLoop, WithReader, WithWorker,
                      Current
  <2>8. Counted'
    BY <1>0, <1>b, <2>1, <2>3, <2>7 DEF Counted
  <2>9. ReadyLast'
    BY <1>0, <2>1, <2>2 DEF ReadyLast, Current
  <2>10. Pending' = Pending
    BY <1>b, <2>1, <2>2 DEF Pending
  <2>11. Ordered'
    BY <1>0, <2>1, <2>2, <2>10 DEF Ordered
  <2> QED
    BY <2>4, <2>5, <2>6, <2>8, <2>9, <2>11 DEF PipelineInv
<1>5. CASE DispatchOutput
  <2>1. /\ io.pc = "output" /\ io' = [io EXCEPT !.pc = "decrypt", !.queued = TRUE]
        /\ Len(outputChan) < OutputCap /\ outputChan' = Append(outputChan, c)
        /\ UNCHANGED <<pool, refs, decryptChan, worker, reader, delivered, closed,
                       datagram, received, result, ready>>
    BY <1>5 DEF DispatchOutput, fields
  <2>2. io' \in IoType /\ io'.pc = "decrypt" /\ io'.batch = io.batch
    BY <1>a, <2>1 DEF IoType, IoPcs
  <2>3. /\ outputChan' \in Seq(Packets) /\ Len(outputChan') = Len(outputChan) + 1
        /\ ToSet(outputChan') = ToSet(outputChan) \cup {c}
        /\ Distinct(outputChan')
    BY <1>0, <1>b, <1>c, <1>g, <2>1, AppendElements DEF Owners
  <2>4. Len(outputChan') <= OutputCap
    <3>1. Len(outputChan) \in Nat
      BY <1>g
    <3> QED
      BY <2>1, <2>3, <3>1
  <2>5. Typed'
    BY <1>d, <1>f, <1>g, <2>1, <2>2, <2>3, <2>4
  <2>6. Shape'
    BY <1>0, <2>1, <2>2 DEF Shape
  <2>7. Owners'
    BY <1>0, <1>b, <1>c, <2>1, <2>2, <2>3 DEF Owners, WithReader, WithWorker, Current
  <2>8. ASSUME NEW q \in Packets
        PROVE  /\ OutputOwned(q)' <=> OutputOwned(q)
               /\ DecryptOwned(q)' <=> DecryptOwned(q)
               /\ Reachable(q)' <=> Reachable(q)
    BY <1>b, <2>1, <2>2, <2>3
       DEF OutputOwned, DecryptOwned, Reachable, InIoLoop, WithReader, WithWorker, Current
  <2>9. Counted'
    BY <1>0, <2>1, <2>8 DEF Counted
  <2>10. ReadyLast'
    BY <1>0, <2>1, <2>2 DEF ReadyLast, Current
  <2>11. Pending = ToSet(io.batch) /\ Pending' = ToSet(Tail(io.batch))
    BY <1>b, <2>1, <2>2 DEF Pending
  <2>12. Rising(datagram, outputChan')
    BY <1>0, <1>b, <1>g, <2>1, <2>11, RisingAppend DEF Ordered
  <2>13. /\ Pending = {c} \cup Pending'
         /\ ToSet(outputChan') \cup Pending' = ToSet(outputChan) \cup Pending
         /\ \A q \in Pending' : datagram[c] < datagram[q]
    BY <1>b, <2>3, <2>11
  <2>14. Ordered'
    BY <1>0, <2>1, <2>2, <2>3, <2>12, <2>13 DEF Ordered
  <2> QED
    BY <2>5, <2>6, <2>7, <2>9, <2>10, <2>14 DEF PipelineInv
<1>6. CASE DispatchOutputFull
  <2>1. /\ io.pc = "output" /\ io' = [io EXCEPT !.pc = "decrypt", !.queued = FALSE]
        /\ refs' = [refs EXCEPT ![c] = @ - 1]
        /\ pool' = IF refs[c] = 1 THEN pool \cup {c} ELSE pool
        /\ UNCHANGED <<outputChan, decryptChan, worker, reader, delivered, closed,
                       datagram, received, result, ready>>
    BY <1>6 DEF DispatchOutputFull, Unref, fields, chans
  <2>2. io' \in IoType /\ io'.pc = "decrypt" /\ io'.batch = io.batch
    BY <1>a, <2>1 DEF IoType, IoPcs
  <2>3. OutputOwned(c) /\ DecryptOwned(c)
    BY <2>1 DEF OutputOwned, DecryptOwned
  <2>4. refs[c] = 2 /\ pool' = pool
    BY <1>b, <1>e, <2>1, <2>3
  <2>5. /\ refs' \in [Packets -> 0 .. 2] /\ refs'[c] = 1
        /\ \A q \in Packets : q # c => refs'[q] = refs[q]
    BY <1>b, <1>d, <2>1, <2>4
  <2>6. Typed'
    BY <1>d, <1>f, <1>g, <2>1, <2>2, <2>4, <2>5
  <2>7. Shape'
    BY <1>0, <2>1, <2>2 DEF Shape
  <2>8. Owners'
    BY <1>0, <2>1, <2>2 DEF Owners, WithReader, WithWorker, Current
  <2>9. ASSUME NEW q \in Packets
        PROVE  /\ OutputOwned(q)' <=> OutputOwned(q) /\ q # c
               /\ DecryptOwned(q)' <=> DecryptOwned(q)
               /\ Reachable(q)' <=> Reachable(q)
    BY <1>c, <2>1, <2>2
       DEF OutputOwned, DecryptOwned, Reachable, InIoLoop, WithReader, WithWorker, Current
  <2>10. Counted'
    BY <1>0, <1>b, <2>1, <2>3, <2>4, <2>5, <2>9 DEF Counted
  <2>11. ReadyLast'
    BY <1>0, <2>1, <2>2 DEF ReadyLast, Current
  <2>12. Pending' \subseteq Pending
    BY <1>b, <2>1, <2>2 DEF Pending
  <2>13. Ordered'
    BY <1>0, <2>1, <2>2, <2>12 DEF Ordered
  <2> QED
    BY <2>6, <2>7, <2>8, <2>10, <2>11, <2>13 DEF PipelineInv
<1>7. CASE DispatchDecrypt
  <2>1. /\ io.pc = "decrypt" /\ NextPacket
        /\ Len(decryptChan) < DecryptCap /\ decryptChan' = Append(decryptChan, c)
        /\ UNCHANGED <<pool, refs, outputChan, worker, reader, delivered, closed,
                       datagram, received, result, ready>>
    BY <1>7 DEF DispatchDecrypt, fields
  <2>2. /\ io' \in IoType /\ Len(io'.batch) <= BatchSize /\ io'.batch = Tail(io.batch)
        /\ io'.pc \in {"acquire", "dispatch"}
    BY <1>a, <2>1, NextPacketFacts
  <2>3. /\ decryptChan' \in Seq(Packets) /\ Len(decryptChan') = Len(decryptChan) + 1
        /\ ToSet(decryptChan') = ToSet(decryptChan) \cup {c}
        /\ Distinct(decryptChan')
    BY <1>0, <1>b, <1>c, <1>g, <2>1, AppendElements DEF Owners
  <2>4. Len(decryptChan') <= DecryptCap
    <3>1. Len(decryptChan) \in Nat
      BY <1>g
    <3> QED
      BY <2>1, <2>3, <3>1
  <2>5. Typed'
    BY <1>d, <1>f, <1>g, <2>1, <2>2, <2>3, <2>4
  <2>6. /\ Shape' /\ Ordered'
        /\ \A q \in Packets :
             /\ OutputOwned(q)' <=> q \in ToSet(outputChan) \/ WithReader(q)
             /\ DecryptOwned(q)' <=> q \in ToSet(decryptChan') \/ WithWorker(q)
             /\ InIoLoop(q)' <=> InIoLoop(q) /\ q # Current
    BY <1>a, <2>1, AdvanceKeeps
  <2>7. Distinct(Tail(io.batch))
    BY <1>a, CurrentFacts
  <2>8. Owners'
    BY <1>0, <1>b, <1>c, <2>1, <2>2, <2>3, <2>7 DEF Owners, WithReader, WithWorker
  <2>9. ASSUME NEW q \in Packets
        PROVE  /\ OutputOwned(q)' <=> OutputOwned(q)
               /\ DecryptOwned(q)' <=> DecryptOwned(q)
               /\ Reachable(q)' <=> Reachable(q)
    <3>1. /\ OutputOwned(q)' <=> OutputOwned(q)
          /\ DecryptOwned(q)' <=> DecryptOwned(q)
      BY <2>1, <2>3, <2>6 DEF OutputOwned, DecryptOwned
    <3>2. Reachable(q)' <=> InIoLoop(q)' \/ q \in ToSet(outputChan) \/ q \in ToSet(decryptChan')
                            \/ WithWorker(q) \/ WithReader(q)
      BY <2>1 DEF Reachable, WithWorker, WithReader
    <3>3. InIoLoop(c)
      BY <1>b DEF InIoLoop
    <3> QED
      BY <2>3, <2>6, <3>1, <3>2, <3>3 DEF Reachable
  <2>10. Counted'
    BY <1>0, <2>1, <2>9 DEF Counted
  <2>11. ~ready[c]
    BY <1>0, <1>b, <2>1 DEF ReadyLast
  <2>12. ReadyLast'
    BY <1>0, <1>b, <2>1, <2>2, <2>3, <2>11 DEF ReadyLast
  <2> QED
    BY <2>5, <2>6, <2>8, <2>10, <2>12 DEF PipelineInv
<1>8. CASE DispatchDecryptDrop
  <2>1. /\ io.pc = "decrypt" /\ io' = [io EXCEPT !.pc = "unref"]
        /\ UNCHANGED <<pool, refs, outputChan, decryptChan, worker, reader, delivered, closed,
                       datagram, received>>
    BY <1>8 DEF DispatchDecryptDrop, chans
  <2>2. io' \in IoType /\ io'.pc = "unref" /\ io'.batch = io.batch
    BY <1>a, <2>1 DEF IoType, IoPcs
  <2>3. \/ UNCHANGED <<ready, result>>
        \/ result' = [result EXCEPT ![c] = "error"] /\ ready' = [ready EXCEPT ![c] = TRUE]
    BY <1>8 DEF DispatchDecryptDrop
  <2>4. /\ ready' \in [Packets -> BOOLEAN] /\ result' \in [Packets -> {"none", "data", "error"}]
        /\ \A q \in Packets : q # c => ready'[q] = ready[q] /\ result'[q] = result[q]
        /\ ready[c] => ready'[c]
        /\ ready'[c] => result'[c] # "none" \/ ready[c]
    BY <1>b, <1>g, <2>3
  <2>5. Typed'
    BY <1>d, <1>f, <1>g, <2>1, <2>2, <2>4
  <2>6. Shape'
    BY <1>0, <2>1, <2>2 DEF Shape
  <2>7. Owners' /\ Counted'
    BY <1>0, <2>1, <2>2 DEF Owners, Counted, OutputOwned, DecryptOwned, Reachable, InIoLoop,
                            WithReader, WithWorker, Current
  <2>8. ~ready[c]
    BY <1>0, <1>b, <2>1 DEF ReadyLast
  <2>9. /\ \A w \in Workers : worker[w].pkt # c
        /\ ToSet(decryptChan) \subseteq Packets
        /\ ToSet(io.batch) \subseteq Packets
    BY <1>b, <1>c, <1>g DEF WithWorker, ToSet
  <2>10. /\ \A w \in Workers : worker[w].pc \in {"process", "signal"} => worker[w].pkt \in Packets
         /\ \A r \in Readers : reader[r].pc = "copy" => reader[r].pkt \in Packets
    BY <1>0 DEF Typed, TypeOK, Shape
  <2>11. ReadyLast'
    BY <1>0, <1>b, <1>c, <2>1, <2>2, <2>4, <2>8, <2>9, <2>10 DEF ReadyLast, Current
  <2>12. Pending' = Pending
    BY <1>b, <2>1, <2>2 DEF Pending
  <2>13. Ordered'
    BY <1>0, <2>1, <2>2, <2>12 DEF Ordered
  <2> QED
    BY <2>5, <2>6, <2>7, <2>11, <2>13 DEF PipelineInv
<1>9. CASE DispatchUnref
  <2>1. /\ io.pc = "unref" /\ NextPacket
        /\ refs' = [refs EXCEPT ![c] = @ - 1]
        /\ pool' = IF refs[c] = 1 THEN pool \cup {c} ELSE pool
        /\ UNCHANGED <<outputChan, decryptChan, worker, reader, delivered, closed,
                       datagram, received, result, ready>>
    BY <1>9 DEF DispatchUnref, Unref, fields, chans
  <2>2. DecryptOwned(c)
    BY <2>1 DEF DecryptOwned
  <2>3. refs[c] = 1 + (IF OutputOwned(c) THEN 1 ELSE 0)
    BY <1>b, <1>e, <2>2
  <2>4. OutputOwned(c) <=> c \in ToSet(outputChan) \/ WithReader(c)
    BY <2>1 DEF OutputOwned
  <2>5. /\ refs' \in [Packets -> 0 .. 2] /\ refs'[c] = refs[c] - 1
        /\ \A q \in Packets : q # c => refs'[q] = refs[q]
    BY <1>b, <1>d, <2>1, <2>3
  <2>6. CASE ~OutputOwned(c)
    BY <1>1, <2>1, <2>3, <2>4, <2>5, <2>6
  <2>7. CASE OutputOwned(c)
    <3>1. pool' = pool /\ refs'[c] = 1
      BY <2>1, <2>3, <2>5, <2>7
    <3>2. io' \in IoType /\ Len(io'.batch) <= BatchSize
      BY <1>a, <2>1, NextPacketFacts
    <3>3. Typed'
      BY <1>d, <1>f, <1>g, <2>1, <2>5, <3>1, <3>2
    <3>4. /\ Shape' /\ Ordered' /\ Owners' /\ ReadyLast'
          /\ \A q \in Packets :
               /\ OutputOwned(q)' <=> q \in ToSet(outputChan) \/ WithReader(q)
               /\ DecryptOwned(q)' <=> q \in ToSet(decryptChan') \/ WithWorker(q)
               /\ InIoLoop(q)' <=> InIoLoop(q) /\ q # Current
      BY <1>a, <2>1, AdvanceKeeps
    <3>5. ASSUME NEW q \in Packets
          PROVE  /\ OutputOwned(q)' <=> OutputOwned(q)
                 /\ DecryptOwned(q)' <=> DecryptOwned(q) /\ q # c
                 /\ Reachable(q)' <=> Reachable(q)
      <4>1. OutputOwned(q)' <=> OutputOwned(q)
        BY <2>1, <3>4 DEF OutputOwned
      <4>2. DecryptOwned(q)' <=> DecryptOwned(q) /\ q # c
        BY <1>c, <2>1, <3>4 DEF DecryptOwned
      <4>3. Reachable(q)' <=> InIoLoop(q)' \/ q \in ToSet(outputChan) \/ q \in ToSet(decryptChan)
                              \/ WithWorker(q) \/ WithReader(q)
        BY <2>1 DEF Reachable, WithWorker, WithReader
      <4> QED
        BY <2>4, <2>7, <3>4, <4>1, <4>2, <4>3 DEF Reachable
    <3>6. Counted'
      BY <1>0, <1>b, <2>2, <2>3, <2>5, <2>7, <3>1, <3>5 DEF Counted
    <3> QED
      BY <3>3, <3>4, <3>6 DEF PipelineInv
  <2> QED
    BY <2>6, <2>7
<1> QED
  BY <1>2, <1>3, <1>4, <1>5, <1>6, <1>7, <1>8, <1>9

-----------------------------------------------------------------------------
(* The pipeline starts in the invariant. *)
LEMMA PipelineInit == Init => PipelineInv
<1> USE PipelineAssumption, NoPacketAssumption
<1> SUFFICES ASSUME Init PROVE PipelineInv
  OBVIOUS
<1>1. <<>> \in Seq(Packets) /\ Len(<<>>) = 0 /\ <<>> \in Seq(1 .. MaxDatagrams)
  OBVIOUS
<1>2. ToSet(<<>>) = {} /\ Distinct(<<>>) /\ Rising(datagram, <<>>) /\ DOMAIN <<>> = {}
  BY DEF ToSet, Distinct, Rising
<1>3. io = [pc |-> "acquire", batch |-> <<>>, queued |-> FALSE]
      /\ outputChan = <<>> /\ decryptChan = <<>> /\ delivered = <<>>
  BY DEF Init
<1>4. io \in IoType /\ io.pc = "acquire" /\ io.batch = <<>> /\ io.queued = FALSE
  BY <1>1, <1>3 DEF IoType, IoPcs
<1>5. Typed
  <2>a. refs \in [Packets -> 0 .. 2]
    BY DEF Init
  <2>b. datagram \in [Packets -> 0 .. MaxDatagrams] /\ received \in 0 .. MaxDatagrams
    BY DEF Init
  <2>1. ready \in [Packets -> BOOLEAN] /\ pool \in SUBSET Packets /\ closed \in BOOLEAN
    BY DEF Init
  <2>2. result \in [Packets -> {"none", "data", "error"}]
    BY DEF Init
  <2>3. worker \in [Workers -> [pc : WorkerPcs, pkt : Packets \cup {NoPacket}]]
    BY DEF Init, WorkerPcs
  <2>4. reader \in [Readers -> [pc : ReaderPcs, pkt : Packets \cup {NoPacket}]]
    BY DEF Init, ReaderPcs
  <2>5. /\ outputChan \in Seq(Packets) /\ Len(outputChan) <= OutputCap
        /\ decryptChan \in Seq(Packets) /\ Len(decryptChan) <= DecryptCap
        /\ io.batch \in Seq(Packets) /\ Len(io.batch) <= BatchSize
        /\ delivered \in Seq(1 .. MaxDatagrams)
    BY <1>1, <1>3, <1>4
  <2> QED
    BY <1>4, <2>a, <2>b, <2>1, <2>2, <2>3, <2>4, <2>5 DEF Typed, TypeOK, WorkerPcs, ReaderPcs
<1>6. \A w \in Workers : worker[w].pc = "select" /\ worker[w].pkt = NoPacket
  BY DEF Init
<1>7. \A r \in Readers : reader[r].pc = "idle" /\ reader[r].pkt = NoPacket
  BY DEF Init
<1>8. Shape
  BY <1>4, <1>6, <1>7 DEF Shape
<1>9. Owners
  BY <1>2, <1>3, <1>4, <1>6, <1>7 DEF Owners
<1>10. Counted
  BY <1>2, <1>3, <1>4, <1>6, <1>7
     DEF Counted, OutputOwned, DecryptOwned, Reachable, InIoLoop, WithReader, WithWorker, Init
<1>11. ReadyLast
  BY <1>2, <1>3, <1>4, <1>6, <1>7 DEF ReadyLast, Init
<1>12. Pending = {}
  BY <1>4 DEF Pending
<1>13. Ordered
  BY <1>2, <1>3, <1>4, <1>7, <1>12 DEF Ordered
<1> QED
  BY <1>5, <1>8, <1>9, <1>10, <1>11, <1>13 DEF PipelineInv

(* Every step of every goroutine, and Close at any moment, keeps the invariant. *)
LEMMA PipelineStep == PipelineInv /\ [Next]_vars => PipelineInv'
<1> SUFFICES ASSUME PipelineInv, [Next]_vars PROVE PipelineInv'
  OBVIOUS
<1>1. CASE IoStep
  BY <1>1, BatchKeepsInv, DispatchKeepsInv DEF IoStep
<1>2. ASSUME NEW w \in Workers, WorkerStep(w) PROVE PipelineInv'
  BY <1>2, WorkerKeepsInv
<1>3. ASSUME NEW r \in Readers, ReadCall(r) \/ ReadStep(r) PROVE PipelineInv'
  BY <1>3, ReaderKeepsInv
<1>4. CASE Close \/ UNCHANGED vars
  <2>1. /\ closed' \in BOOLEAN
        /\ UNCHANGED <<pool, refs, ready, result, datagram, received, outputChan, decryptChan,
                       io, worker, reader, delivered>>
    BY <1>4 DEF Close, fields, chans, vars, PipelineInv, Typed, TypeOK
  <2>2. Typed'
    BY <2>1 DEF PipelineInv, Typed, TypeOK, IoType
  <2>3. Shape' /\ Owners'
    BY <2>1 DEF PipelineInv, Shape, Owners, WithReader, WithWorker, Current
  <2>4. Counted'
    BY <2>1 DEF PipelineInv, Counted, OutputOwned, DecryptOwned, Reachable, InIoLoop,
                WithReader, WithWorker, Current
  <2>5. ReadyLast' /\ Ordered'
    BY <2>1 DEF PipelineInv, ReadyLast, Ordered, Pending, Current
  <2> QED
    BY <2>2, <2>3, <2>4, <2>5 DEF PipelineInv
<1> QED
  BY <1>1, <1>2, <1>3, <1>4 DEF Next

LEMMA PipelineInvariant == Spec => []PipelineInv
BY PipelineInit, PipelineStep, PTL DEF Spec

(* The pipeline keeps its types for any number of packets, workers and readers: in
   particular a count never goes below zero and no queue exceeds its capacity. *)
THEOREM PipelineTypeCorrect == Spec => []TypeOK
<1>1. PipelineInv => TypeOK
  BY DEF PipelineInv, Typed
<1> QED
  BY <1>1, PipelineInvariant, PTL

(* No goroutine uses, queues or releases a packet that was released to the pool, however
   workers, readers, overflowing queues and Close interleave. *)
THEOREM ReleasedNeverUsed == Spec => []NoUseAfterRelease
<1>1. PipelineInv => NoUseAfterRelease
  BY DEF PipelineInv, Counted, NoUseAfterRelease, Typed, TypeOK
<1> QED
  BY <1>1, PipelineInvariant, PTL

(* No packet is lost: whatever is not in the pool is still in somebody's hands. *)
THEOREM PacketsNotLost == Spec => []NoLostPacket
<1>1. PipelineInv => NoLostPacket
  BY DEF PipelineInv, Counted, NoLostPacket
<1> QED
  BY <1>1, PipelineInvariant, PTL

(* The ready channel is closed at most once per use of a packet, and separates the
   worker that fills the packet from the reader that copies it. *)
THEOREM ReadySeparatesAlways == Spec => []ReadySeparates
<1>1. ASSUME PipelineInv PROVE ReadySeparates
  <2>1. Shape /\ ReadyLast /\ Typed /\ Owners
    BY <1>1 DEF PipelineInv
  <2>2. \A w \in Workers : worker[w].pc \in {"process", "signal"} => ~ready[worker[w].pkt]
    BY <2>1 DEF ReadyLast
  <2>3. io.pc = "decrypt" => ~ready[Current]
    BY <1>1, <2>1, CurrentFacts DEF ReadyLast
  <2>4. ASSUME NEW r \in Readers, reader[r].pc = "copy"
        PROVE  /\ result[reader[r].pkt] # "none"
               /\ \A w \in Workers : worker[w].pkt = reader[r].pkt => worker[w].pc = "unref"
    <3>1. ready[reader[r].pkt] /\ reader[r].pkt # NoPacket /\ reader[r].pkt \in Packets
      BY <2>1, <2>4 DEF ReadyLast, Shape, Typed, TypeOK
    <3>2. result[reader[r].pkt] # "none"
      BY <2>1, <3>1 DEF ReadyLast
    <3>3. ASSUME NEW w \in Workers, worker[w].pkt = reader[r].pkt PROVE worker[w].pc = "unref"
      <4>1. worker[w].pc \in WorkerPcs
        BY <2>1 DEF Typed, TypeOK, WorkerPcs
      <4>2. worker[w].pc \notin {"select", "exit"}
        BY <2>1, <3>1, <3>3 DEF Shape
      <4>3. worker[w].pc \notin {"process", "signal"}
        BY <2>2, <3>1, <3>3
      <4> QED
        BY <4>1, <4>2, <4>3 DEF WorkerPcs
    <3> QED
      BY <3>2, <3>3
  <2> QED
    BY <2>2, <2>3, <2>4 DEF ReadySeparates
<1> QED
  BY <1>1, PipelineInvariant, PTL

(* A single ReadPacket caller gets the datagrams in the order of their arrival and none
   of them twice, although any number of workers decrypt them in any order. *)
THEOREM SingleReaderInOrder == Spec => []DeliveredInOrder
<1>1. PipelineInv => DeliveredInOrder
  BY DEF PipelineInv, Ordered, DeliveredInOrder
<1> QED
  BY <1>1, PipelineInvariant, PTL
=============================================================================
