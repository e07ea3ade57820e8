--------------------------- MODULE PacketPipeline ---------------------------
(***************************************************************************)
(* The receive pipeline of core.UDP (pkg/giznet/internal/core/udp.go):     *)
(* ioLoop takes packet structs from a pool, reads datagrams into them and  *)
(* dispatches each packet to outputChan and decryptChan; decrypt workers   *)
(* fill it in and close its ready channel; ReadPacket callers take it from *)
(* outputChan, wait for ready and copy it out.  A packet goes back to the  *)
(* pool, to be reused for another datagram, when its last reference is     *)
(* dropped.                                                                *)
(*                                                                         *)
(* One action is one step that another goroutine can observe: an atomic    *)
(* operation, a channel operation, or the use of a packet's fields.        *)
(***************************************************************************)
EXTENDS Integers, Sequences, FiniteSets, SequencesExt

CONSTANTS Packets,        \* packet structs
          Workers,        \* decrypt workers
          Readers,        \* callers of ReadPacket
          BatchSize,      \* packets acquired per read: DefaultBatchSize, or 1
          OutputCap,      \* capacity of outputChan
          DecryptCap,     \* capacity of decryptChan
          MaxDatagrams    \* bound on datagrams received

ASSUME PipelineAssumption ==
  /\ BatchSize \in Nat \ {0}
  /\ OutputCap \in Nat
  /\ DecryptCap \in Nat
  /\ MaxDatagrams \in Nat
  /\ IsFiniteSet(Readers)

CONSTANT NoPacket
ASSUME NoPacketAssumption == NoPacket \notin Packets

VARIABLES
  pool,         \* packets in packetPool
  refs,         \* packet.refs
  ready,        \* packet.ready is closed
  result,       \* what the packet's output fields hold: "none", "data" or "error"
  datagram,     \* the datagram in the packet's buffer
  received,     \* datagrams received so far
  outputChan, decryptChan,
  io,           \* the ioLoop goroutine
  worker,       \* decrypt workers
  reader,       \* ReadPacket callers
  delivered,    \* datagrams returned by ReadPacket, in order
  closed        \* u.closed, with closeChan closed

vars == <<pool, refs, ready, result, datagram, received, outputChan, decryptChan,
          io, worker, reader, delivered, closed>>

fields == <<ready, result, datagram>>
chans == <<outputChan, decryptChan>>

Init ==
  /\ pool = Packets
  /\ refs = [p \in Packets |-> 0]
  /\ ready = [p \in Packets |-> FALSE]
  /\ result = [p \in Packets |-> "none"]
  /\ datagram = [p \in Packets |-> 0]
  /\ received = 0
  /\ outputChan = <<>>
  /\ decryptChan = <<>>
  /\ io = [pc |-> "acquire", batch |-> <<>>, queued |-> FALSE]
  /\ worker = [w \in Workers |-> [pc |-> "select", pkt |-> NoPacket]]
  /\ reader = [r \in Readers |-> [pc |-> "idle", pkt |-> NoPacket]]
  /\ delivered = <<>>
  /\ closed = FALSE

-----------------------------------------------------------------------------
(* Reference counting *)

(* refs.Add(-n); the caller whose decrement reaches zero releases *)
Unref(p, n) ==
  /\ refs' = [refs EXCEPT ![p] = @ - n]
  /\ pool' = IF refs[p] = n THEN pool \cup {p} ELSE pool

-----------------------------------------------------------------------------
(* ioLoop *)

(* acquirePacket for a whole batch, each with a fresh ready channel *)
IoAcquire(batch) ==
  /\ io.pc = "acquire"
  /\ ~closed
  /\ pool' = pool \ ToSet(batch)
  /\ refs' = [p \in Packets |-> IF p \in ToSet(batch) THEN 0 ELSE refs[p]]
  /\ ready' = [p \in Packets |-> IF p \in ToSet(batch) THEN FALSE ELSE ready[p]]
  /\ result' = [p \in Packets |-> IF p \in ToSet(batch) THEN "none" ELSE result[p]]
  /\ io' = [io EXCEPT !.pc = "read", !.batch = batch]
  /\ UNCHANGED <<datagram, received, chans, worker, reader, delivered, closed>>

IoExit ==
  /\ io.pc = "acquire"
  /\ closed
  /\ io' = [io EXCEPT !.pc = "exit"]
  /\ UNCHANGED <<pool, refs, fields, received, chans, worker, reader, delivered, closed>>

(* n datagrams arrive, perhaps while Close runs and has not closed the     *)
(* socket yet; the packets of the batch that got none are released.        *)
IoRead(n) ==
  /\ io.pc = "read"
  /\ received + n <= MaxDatagrams
  /\ received' = received + n
  /\ datagram' = [p \in Packets |->
       IF \E k \in 1 .. n : io.batch[k] = p
       THEN received + (CHOOSE k \in 1 .. n : io.batch[k] = p)
       ELSE datagram[p]]
  /\ pool' = pool \cup ToSet(SubSeq(io.batch, n + 1, Len(io.batch)))
  /\ io' = [io EXCEPT !.pc = "dispatch", !.batch = SubSeq(io.batch, 1, n)]
  /\ UNCHANGED <<refs, ready, result, chans, worker, reader, delivered, closed>>

(* The read fails, because the socket was closed or for another reason:    *)
(* the whole batch is released.                                            *)
IoReadError ==
  /\ io.pc = "read"
  /\ pool' = pool \cup ToSet(io.batch)
  /\ io' = [io EXCEPT !.pc = "acquire", !.batch = <<>>]
  /\ UNCHANGED <<refs, fields, received, chans, worker, reader, delivered, closed>>

(* The packet being dispatched, and what follows it *)
Current == Head(io.batch)
NextPacket ==
  io' = [pc |-> IF Len(io.batch) = 1 THEN "acquire" ELSE "dispatch",
         batch |-> Tail(io.batch), queued |-> FALSE]

(* An empty datagram is not dispatched *)
IoDropEmpty ==
  /\ io.pc = "dispatch"
  /\ pool' = pool \cup {Current}
  /\ NextPacket
  /\ UNCHANGED <<refs, fields, received, chans, worker, reader, delivered, closed>>

(* A dispatch that reserves the output reference only after enqueueing *)
DispatchBeginOneRef ==
  /\ io.pc = "dispatch"
  /\ IF closed
     THEN /\ pool' = pool \cup {Current}
          /\ NextPacket
          /\ UNCHANGED refs
     ELSE /\ refs' = [refs EXCEPT ![Current] = 1]
          /\ io' = [io EXCEPT !.pc = "output"]
          /\ UNCHANGED pool
  /\ UNCHANGED <<fields, received, chans, worker, reader, delivered, closed>>

(* dispatchToChannels: the closeChan check, then one reference for the     *)
(* decrypt path and one reserved for the output path.                      *)
DispatchBegin ==
  /\ io.pc = "dispatch"
  /\ IF closed
     THEN /\ pool' = pool \cup {Current}
          /\ NextPacket
          /\ UNCHANGED refs
     ELSE /\ refs' = [refs EXCEPT ![Current] = 2]
          /\ io' = [io EXCEPT !.pc = "output"]
          /\ UNCHANGED pool
  /\ UNCHANGED <<fields, received, chans, worker, reader, delivered, closed>>

DispatchOutput ==
  /\ io.pc = "output"
  /\ Len(outputChan) < OutputCap
  /\ outputChan' = Append(outputChan, Current)
  /\ io' = [io EXCEPT !.pc = "decrypt", !.queued = TRUE]
  /\ UNCHANGED <<pool, refs, fields, received, decryptChan, worker, reader, delivered, closed>>

(* closeChan is ready: both references are dropped *)
DispatchOutputClosed ==
  /\ io.pc = "output"
  /\ closed
  /\ Unref(Current, 2)
  /\ NextPacket
  /\ UNCHANGED <<fields, received, chans, worker, reader, delivered, closed>>

(* The default case, which forgets to drop the output reference *)
DispatchOutputFullKeep ==
  /\ io.pc = "output"
  /\ Len(outputChan) >= OutputCap /\ ~closed
  /\ io' = [io EXCEPT !.pc = "decrypt", !.queued = FALSE]
  /\ UNCHANGED <<pool, refs, fields, received, chans, worker, reader, delivered, closed>>

(* The default case: outputChan is full and closeChan is open *)
DispatchOutputFull ==
  /\ io.pc = "output"
  /\ Len(outputChan) >= OutputCap /\ ~closed
  /\ Unref(Current, 1)
  /\ io' = [io EXCEPT !.pc = "decrypt", !.queued = FALSE]
  /\ UNCHANGED <<fields, received, chans, worker, reader, delivered, closed>>

DispatchDecrypt ==
  /\ io.pc = "decrypt"
  /\ Len(decryptChan) < DecryptCap
  /\ decryptChan' = Append(decryptChan, Current)
  /\ NextPacket
  /\ UNCHANGED <<pool, refs, fields, received, outputChan, worker, reader, delivered, closed>>

(* A packet that cannot be decrypted is not marked ready *)
DispatchDecryptDropSilent ==
  /\ io.pc = "decrypt"
  /\ closed \/ Len(decryptChan) >= DecryptCap
  /\ UNCHANGED <<ready, result>>
  /\ io' = [io EXCEPT !.pc = "unref"]
  /\ UNCHANGED <<pool, refs, datagram, received, chans, worker, reader, delivered, closed>>

(* closeChan, or the default case: a packet already in outputChan is       *)
(* marked with an error and made ready for whoever reads it.               *)
DispatchDecryptDrop ==
  /\ io.pc = "decrypt"
  /\ closed \/ Len(decryptChan) >= DecryptCap
  /\ IF io.queued
     THEN /\ result' = [result EXCEPT ![Current] = "error"]
          /\ ready' = [ready EXCEPT ![Current] = TRUE]
     ELSE UNCHANGED <<ready, result>>
  /\ io' = [io EXCEPT !.pc = "unref"]
  /\ UNCHANGED <<pool, refs, datagram, received, chans, worker, reader, delivered, closed>>

(* then the decrypt reference is dropped *)
DispatchUnref ==
  /\ io.pc = "unref"
  /\ Unref(Current, 1)
  /\ NextPacket
  /\ UNCHANGED <<fields, received, chans, worker, reader, delivered, closed>>

-----------------------------------------------------------------------------
(* decryptWorker *)

WorkerTake(w) ==
  /\ worker[w].pc = "select"
  /\ decryptChan # <<>>
  /\ worker' = [worker EXCEPT ![w] = [pc |-> "process", pkt |-> Head(decryptChan)]]
  /\ decryptChan' = Tail(decryptChan)
  /\ UNCHANGED <<pool, refs, fields, received, outputChan, io, reader, delivered, closed>>

WorkerExit(w) ==
  /\ worker[w].pc = "select"
  /\ closed
  /\ worker' = [worker EXCEPT ![w].pc = "exit"]
  /\ UNCHANGED <<pool, refs, fields, received, chans, io, reader, delivered, closed>>

(* processPacket: data for the reader, or pkt.err for everything else *)
WorkerProcess(w, res) ==
  /\ worker[w].pc = "process"
  /\ result' = [result EXCEPT ![worker[w].pkt] = res]
  /\ worker' = [worker EXCEPT ![w].pc = "signal"]
  /\ UNCHANGED <<pool, refs, ready, datagram, received, chans, io, reader, delivered, closed>>

(* close(pkt.ready) *)
WorkerSignal(w) ==
  /\ worker[w].pc = "signal"
  /\ ready' = [ready EXCEPT ![worker[w].pkt] = TRUE]
  /\ worker' = [worker EXCEPT ![w].pc = "unref"]
  /\ UNCHANGED <<pool, refs, result, datagram, received, chans, io, reader, delivered, closed>>

WorkerUnref(w) ==
  /\ worker[w].pc = "unref"
  /\ Unref(worker[w].pkt, 1)
  /\ worker' = [worker EXCEPT ![w] = [pc |-> "select", pkt |-> NoPacket]]
  /\ UNCHANGED <<fields, received, chans, io, reader, delivered, closed>>

-----------------------------------------------------------------------------
(* ReadPacket *)

ReadCall(r) ==
  /\ reader[r].pc = "idle"
  /\ ~closed
  /\ reader' = [reader EXCEPT ![r].pc = "select"]
  /\ UNCHANGED <<pool, refs, fields, received, chans, io, worker, delivered, closed>>

ReadTake(r) ==
  /\ reader[r].pc = "select"
  /\ outputChan # <<>>
  /\ reader' = [reader EXCEPT ![r] = [pc |-> "wait", pkt |-> Head(outputChan)]]
  /\ outputChan' = Tail(outputChan)
  /\ UNCHANGED <<pool, refs, fields, received, decryptChan, io, worker, delivered, closed>>

(* ErrClosed from the first select *)
ReadClosed(r) ==
  /\ reader[r].pc = "select"
  /\ closed
  /\ reader' = [reader EXCEPT ![r].pc = "idle"]
  /\ UNCHANGED <<pool, refs, fields, received, chans, io, worker, delivered, closed>>

(* A reader that uses the packet without waiting for ready *)
ReadReadyEarly(r) ==
  /\ reader[r].pc = "wait"
  /\ reader' = [reader EXCEPT ![r].pc = "copy"]
  /\ UNCHANGED <<pool, refs, fields, received, chans, io, worker, delivered, closed>>

ReadReady(r) ==
  /\ reader[r].pc = "wait"
  /\ ready[reader[r].pkt]
  /\ reader' = [reader EXCEPT ![r].pc = "copy"]
  /\ UNCHANGED <<pool, refs, fields, received, chans, io, worker, delivered, closed>>

(* closeChan while waiting: the output reference is dropped *)
ReadWaitClosed(r) ==
  /\ reader[r].pc = "wait"
  /\ closed
  /\ Unref(reader[r].pkt, 1)
  /\ reader' = [reader EXCEPT ![r] = [pc |-> "idle", pkt |-> NoPacket]]
  /\ UNCHANGED <<fields, received, chans, io, worker, delivered, closed>>

(* pkt.err is checked and the payload copied out; then the output          *)
(* reference is dropped.  After an error the loop starts over.             *)
ReadCopy(r) ==
  LET p == reader[r].pkt
  IN  /\ reader[r].pc = "copy"
      /\ IF result[p] = "error"
         THEN UNCHANGED delivered
         ELSE delivered' = Append(delivered, datagram[p])
      /\ reader' = [reader EXCEPT ![r].pc = IF result[p] = "error" THEN "retry" ELSE "return"]
      /\ UNCHANGED <<pool, refs, fields, received, chans, io, worker, closed>>

ReadUnref(r) ==
  /\ reader[r].pc \in {"retry", "return"}
  /\ Unref(reader[r].pkt, 1)
  /\ reader' = [reader EXCEPT ![r] =
       [pc |-> IF reader[r].pc = "retry" /\ ~closed THEN "select" ELSE "idle",
        pkt |-> NoPacket]]
  /\ UNCHANGED <<fields, received, chans, io, worker, delivered, closed>>

-----------------------------------------------------------------------------
(* UDP.Close: closed and closeChan, then the socket *)
Close ==
  /\ ~closed
  /\ closed' = TRUE
  /\ UNCHANGED <<pool, refs, fields, received, chans, io, worker, reader, delivered>>

Batches == {b \in [1 .. BatchSize -> pool] : IsInjective(b)}

IoStep ==
  \/ \E b \in Batches : IoAcquire(b)
  \/ IoExit
  \/ \E n \in 1 .. BatchSize : IoRead(n)
  \/ IoReadError \/ IoDropEmpty
  \/ DispatchBegin
  \/ DispatchOutput \/ DispatchOutputClosed \/ DispatchOutputFull
  \/ DispatchDecrypt \/ DispatchDecryptDrop
  \/ DispatchUnref

WorkerStep(w) ==
  \/ WorkerTake(w) \/ WorkerExit(w)
  \/ \E res \in {"data", "error"} : WorkerProcess(w, res)
  \/ WorkerSignal(w) \/ WorkerUnref(w)

ReadStep(r) ==
  \/ ReadTake(r) \/ ReadClosed(r)
  \/ ReadReady(r) \/ ReadWaitClosed(r)
  \/ ReadCopy(r) \/ ReadUnref(r)

Next ==
  \/ IoStep
  \/ \E w \in Workers : WorkerStep(w)
  \/ \E r \in Readers : ReadCall(r) \/ ReadStep(r)
  \/ Close

Spec == Init /\ [][Next]_vars

(* Dispatch, the workers and a ReadPacket under way keep being scheduled;  *)
(* datagrams need never arrive and Close need never be called.             *)
Fairness ==
  /\ WF_vars(DispatchBegin \/ DispatchOutput \/ DispatchOutputClosed \/ DispatchOutputFull
             \/ DispatchDecrypt \/ DispatchDecryptDrop \/ DispatchUnref)
  /\ \A w \in Workers : WF_vars(WorkerStep(w))
  /\ \A r \in Readers : WF_vars(ReadStep(r))

FairSpec == Spec /\ Fairness

-----------------------------------------------------------------------------
(* Properties *)

TypeOK ==
  /\ pool \in SUBSET Packets
  /\ refs \in [Packets -> 0 .. 2]
  /\ ready \in [Packets -> BOOLEAN]
  /\ result \in [Packets -> {"none", "data", "error"}]
  /\ datagram \in [Packets -> 0 .. MaxDatagrams]
  /\ received \in 0 .. MaxDatagrams
  /\ outputChan \in Seq(Packets) /\ Len(outputChan) <= OutputCap
  /\ decryptChan \in Seq(Packets) /\ Len(decryptChan) <= DecryptCap
  /\ io.pc \in {"acquire", "read", "dispatch", "output", "decrypt", "unref", "exit"}
  /\ io.batch \in Seq(Packets) /\ Len(io.batch) <= BatchSize
  /\ io.queued \in BOOLEAN
  /\ worker \in [Workers -> [pc : {"select", "process", "signal", "unref", "exit"},
                             pkt : Packets \cup {NoPacket}]]
  /\ reader \in [Readers -> [pc : {"idle", "select", "wait", "copy", "retry", "return"},
                             pkt : Packets \cup {NoPacket}]]
  /\ delivered \in Seq(1 .. MaxDatagrams)
  /\ closed \in BOOLEAN

(* Who can still touch packet p *)
InIoLoop(p) == p \in ToSet(io.batch)
WithWorker(p) == \E w \in Workers : worker[w].pkt = p
WithReader(p) == \E r \in Readers : reader[r].pkt = p
Reachable(p) ==
  InIoLoop(p) \/ p \in ToSet(outputChan) \/ p \in ToSet(decryptChan)
  \/ WithWorker(p) \/ WithReader(p)

(* A packet in the pool is in nobody's hands: no goroutine uses, queues or *)
(* releases a packet that may already carry another datagram               *)
(* (unrefPacket, releasePacket, ownership model of dispatchToChannels).    *)
NoUseAfterRelease == \A p \in pool : ~Reachable(p)

(* A packet outside the pool is in somebody's hands: on no path, queue     *)
(* full or shutdown included, is the last reference forgotten              *)
(* (dispatchToChannels, decryptWorker, ReadPacket).                        *)
NoLostPacket == \A p \in Packets \ pool : Reachable(p)

(* The ready channel separates the goroutine that fills a packet from the  *)
(* one that reads it: it is closed once, since closing it again panics,    *)
(* and a reader looks at a packet only when its fields are complete and    *)
(* nobody is writing them (dispatchToChannels, decryptWorker, ReadPacket). *)
ReadySeparates ==
  /\ \A w \in Workers : worker[w].pc \in {"process", "signal"} => ~ready[worker[w].pkt]
  /\ io.pc = "decrypt" => ~ready[Current]
  /\ \A r \in Readers : reader[r].pc = "copy" =>
       /\ result[reader[r].pkt] # "none"
       /\ \A w \in Workers : worker[w].pkt = reader[r].pkt => worker[w].pc = "unref"

(* With one reader, datagrams are returned in the order they arrived, each *)
(* at most once, although workers decrypt them in any order (outputChan    *)
(* holds the packets in arrival order).                                    *)
DeliveredInOrder ==
  Cardinality(Readers) = 1 =>
    \A i, j \in DOMAIN delivered : i < j => delivered[i] < delivered[j]

(* A reader that took a packet does not wait forever: the packet is made   *)
(* ready even when the decrypt queue was full (dispatchToChannels).        *)
ReaderNotStuck == \A r \in Readers : reader[r].pc = "wait" ~> reader[r].pc # "wait"
=============================================================================
