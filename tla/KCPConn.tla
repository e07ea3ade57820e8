------------------------------- MODULE KCPConn -------------------------------
(***************************************************************************)
(* kcp.KCPConn (pkg/giznet/internal/kcp/conn.go): a stream connection whose *)
(* KCP instance is owned by one goroutine, runLoop.  Input and Write reach  *)
(* runLoop through channels; Read waits on a condition variable for the     *)
(* receive buffer that runLoop fills; Close, an idle timeout and deadlines  *)
(* wake everybody up.                                                       *)
(*                                                                         *)
(* sync.Cond is modelled as Go implements it: Wait takes its ticket while   *)
(* the mutex is held and Broadcast wakes the goroutines that hold a ticket. *)
(* Broadcast does not need the mutex, and only drainRecv's caller is        *)
(* ordered with the reader's test by it.                                    *)
(*                                                                          *)
(* The KCP library is external: a FIFO of messages from Input to Recv, and  *)
(* a log of what was given to Send.  Its Recv returns a whole message or,   *)
(* when the message is longer than the buffer it is given, an error; its    *)
(* Send refuses a message of too many fragments.                            *)
(***************************************************************************)
EXTENDS Integers, Sequences, FiniteSets, SequencesExt

CONSTANTS Readers, Writers, Inputters, Closers,  \* goroutines, by method they call
          InputCap, WriteCap,                    \* capacities of inputCh and writeCh
          MaxUnits,                              \* bound on data units given to Input
          MaxWrites,                             \* bound on Write calls per writer
          MaxTime,                               \* bound on the clock, which starts at 1
          LargeUnits                             \* units longer than drainRecv's buffer

ASSUME ConnAssumption ==
  /\ InputCap \in Nat \ {0} /\ WriteCap \in Nat \ {0}
  /\ MaxUnits \in Nat /\ MaxWrites \in Nat /\ MaxTime \in Nat \ {0}
  /\ LargeUnits \subseteq 1 .. MaxUnits

VARIABLES
  now,           \* the clock that deadlines are compared with
  inputCh,       \* units queued by Input
  units,         \* units accepted by Input so far; unit n is the n-th
  kcpRecv,       \* units inside KCP, in order, not yet taken by Recv
  recvBuf,       \* units ready for Read
  readLog,       \* units returned by Read
  recvMu,        \* a reader that holds recvMu, or "free"
  tickets,       \* readers waiting on recvCond
  rpc,           \* readers
  timer,         \* deadline of the goroutine a waiting Read started, or 0
  readDeadline,  \* 0: none
  dpc,           \* the goroutine that calls SetReadDeadline, once
  writeCh,       \* write requests <<writer, k>>
  sent,          \* requests given to kcp.Send, in order
  written,       \* results <<request, ok>> sent by runLoop
  wpc, wcount,   \* writers and the number of their current call
  accepted,      \* requests for which Write returned success
  ipc,           \* inputters
  run,           \* runLoop
  received,      \* drainRecv appended something
  closed,        \* c.closed
  closeChan,     \* closeCh is closed
  once,          \* closeOnce: "free", "busy" or "done"
  cpc            \* closers, runLoop's own closeInternal included

vars == <<now, inputCh, units, kcpRecv, recvBuf, readLog, recvMu, tickets, rpc, timer,
          readDeadline, dpc, writeCh, sent, written, wpc, wcount, accepted, ipc, run,
          received, closed, closeChan, once, cpc>>

readVars == <<recvBuf, readLog, recvMu, tickets, rpc, timer>>
deadlineVars == <<now, readDeadline, dpc>>
writeVars == <<writeCh, sent, written, wpc, wcount, accepted>>
inputVars == <<inputCh, units, kcpRecv, ipc>>
runVars == <<run, received>>
closeVars == <<closed, closeChan, once, cpc>>

Init ==
  /\ now = 1
  /\ inputCh = <<>>
  /\ units = 0
  /\ kcpRecv = <<>>
  /\ recvBuf = <<>>
  /\ readLog = <<>>
  /\ recvMu = "free"
  /\ tickets = {}
  /\ rpc = [r \in Readers |-> "idle"]
  /\ timer = [r \in Readers |-> 0]
  /\ readDeadline = 0
  /\ dpc = "idle"
  /\ writeCh = <<>>
  /\ sent = <<>>
  /\ written = {}
  /\ wpc = [w \in Writers |-> "idle"]
  /\ wcount = [w \in Writers |-> 0]
  /\ accepted = {}
  /\ ipc = [i \in Inputters |-> "idle"]
  /\ run = "select"
  /\ received = FALSE
  /\ closed = FALSE
  /\ closeChan = FALSE
  /\ once = "free"
  /\ cpc = [c \in Closers |-> "idle"]

Expired(dl) == dl # 0 /\ now > dl

(* recvCond.Broadcast: every ticket holder goes on to take recvMu again *)
Broadcast ==
  /\ rpc' = [r \in Readers |-> IF r \in tickets THEN "relock" ELSE rpc[r]]
  /\ tickets' = {}

-----------------------------------------------------------------------------
(* Read *)

ReadCall(r) ==
  /\ rpc[r] = "idle"
  /\ rpc' = [rpc EXCEPT ![r] = "lock"]
  /\ UNCHANGED <<recvBuf, readLog, recvMu, tickets, timer, deadlineVars, writeVars,
                 inputVars, runVars, closeVars>>

(* recvMu.Lock, at the start or inside Wait; after Wait close(done) ends   *)
(* the deadline goroutine.                                                 *)
ReadLock(r) ==
  /\ rpc[r] \in {"lock", "relock"}
  /\ recvMu = "free"
  /\ recvMu' = r
  /\ timer' = [timer EXCEPT ![r] = 0]
  /\ rpc' = [rpc EXCEPT ![r] = "test"]
  /\ UNCHANGED <<recvBuf, readLog, tickets, deadlineVars, writeVars, inputVars,
                 runVars, closeVars>>

(* Data: up to the length of the caller's buffer is copied out *)
ReadData(r, n) ==
  /\ rpc[r] = "test"
  /\ n \in 1 .. Len(recvBuf)
  /\ readLog' = readLog \o SubSeq(recvBuf, 1, n)
  /\ recvBuf' = SubSeq(recvBuf, n + 1, Len(recvBuf))
  /\ recvMu' = "free"
  /\ rpc' = [rpc EXCEPT ![r] = "idle"]
  /\ UNCHANGED <<tickets, timer, deadlineVars, writeVars, inputVars, runVars, closeVars>>

(* No data, and closed or past the deadline: an error is returned *)
ReadError(r) ==
  /\ rpc[r] = "test"
  /\ recvBuf = <<>>
  /\ closed \/ Expired(readDeadline)
  /\ recvMu' = "free"
  /\ rpc' = [rpc EXCEPT ![r] = "idle"]
  /\ UNCHANGED <<recvBuf, readLog, tickets, timer, deadlineVars, writeVars, inputVars,
                 runVars, closeVars>>

(* No data and no reason to return: the deadline goroutine is started *)
ReadMustWait(r) ==
  /\ rpc[r] = "test"
  /\ recvBuf = <<>>
  /\ ~closed /\ ~Expired(readDeadline)
  /\ timer' = [timer EXCEPT ![r] = readDeadline]
  /\ rpc' = [rpc EXCEPT ![r] = "wait"]
  /\ UNCHANGED <<recvBuf, readLog, recvMu, tickets, deadlineVars, writeVars, inputVars,
                 runVars, closeVars>>

(* recvCond.Wait: the ticket is taken, then recvMu released *)
ReadWait(r) ==
  /\ rpc[r] = "wait"
  /\ tickets' = tickets \cup {r}
  /\ recvMu' = "free"
  /\ rpc' = [rpc EXCEPT ![r] = "parked"]
  /\ UNCHANGED <<recvBuf, readLog, timer, deadlineVars, writeVars, inputVars, runVars,
                 closeVars>>

(* The deadline goroutine's timer fires *)
TimerFire(r) ==
  /\ timer[r] # 0
  /\ now > timer[r]
  /\ timer' = [timer EXCEPT ![r] = 0]
  /\ Broadcast
  /\ UNCHANGED <<recvBuf, readLog, recvMu, deadlineVars, writeVars, inputVars, runVars,
                 closeVars>>

Tick ==
  /\ now < MaxTime
  /\ now' = now + 1
  /\ UNCHANGED <<readVars, readDeadline, dpc, writeVars, inputVars, runVars, closeVars>>

SetReadDeadline(dl) ==
  /\ dpc = "idle"
  /\ readDeadline' = dl
  /\ dpc' = "broadcast"
  /\ UNCHANGED <<now, readVars, writeVars, inputVars, runVars, closeVars>>

SetReadDeadlineBroadcast ==
  /\ dpc = "broadcast"
  /\ dpc' = "returned"
  /\ Broadcast
  /\ UNCHANGED <<now, readDeadline, recvBuf, readLog, recvMu, timer, writeVars, inputVars,
                 runVars, closeVars>>

-----------------------------------------------------------------------------
(* Write *)

(* The request of writer w's current call *)
Request(w) == <<w, wcount[w]>>

WriteCall(w) ==
  /\ wpc[w] = "idle"
  /\ wcount[w] < MaxWrites
  /\ ~closed
  /\ wcount' = [wcount EXCEPT ![w] = @ + 1]
  /\ wpc' = [wpc EXCEPT ![w] = "enqueue"]
  /\ UNCHANGED <<writeCh, sent, written, accepted, readVars, deadlineVars, inputVars,
                 runVars, closeVars>>

WriteEnqueue(w) ==
  /\ wpc[w] = "enqueue"
  /\ Len(writeCh) < WriteCap
  /\ writeCh' = Append(writeCh, Request(w))
  /\ wpc' = [wpc EXCEPT ![w] = "await"]
  /\ UNCHANGED <<sent, written, wcount, accepted, readVars, deadlineVars, inputVars,
                 runVars, closeVars>>

WriteDone(w) ==
  /\ wpc[w] = "await"
  /\ \E ok \in BOOLEAN :
       /\ <<Request(w), ok>> \in written
       /\ accepted' = IF ok THEN accepted \cup {Request(w)} ELSE accepted
  /\ wpc' = [wpc EXCEPT ![w] = "idle"]
  /\ UNCHANGED <<writeCh, sent, written, wcount, readVars, deadlineVars, inputVars,
                 runVars, closeVars>>

(* closeCh or the write deadline, in either select: the request may still  *)
(* be in writeCh.                                                          *)
WriteAbandon(w, timeout) ==
  /\ wpc[w] \in {"enqueue", "await"}
  /\ closeChan \/ timeout
  /\ wpc' = [wpc EXCEPT ![w] = "idle"]
  /\ UNCHANGED <<writeCh, sent, written, wcount, accepted, readVars, deadlineVars, inputVars,
                 runVars, closeVars>>

-----------------------------------------------------------------------------
(* Input *)

InputCall(i) ==
  /\ ipc[i] = "idle"
  /\ units < MaxUnits
  /\ ~closed
  /\ ipc' = [ipc EXCEPT ![i] = "select"]
  /\ UNCHANGED <<inputCh, units, kcpRecv, readVars, deadlineVars, writeVars, runVars,
                 closeVars>>

InputEnqueue(i) ==
  /\ ipc[i] = "select"
  /\ Len(inputCh) < InputCap
  /\ units < MaxUnits
  /\ units' = units + 1
  /\ inputCh' = Append(inputCh, units + 1)
  /\ ipc' = [ipc EXCEPT ![i] = "idle"]
  /\ UNCHANGED <<kcpRecv, readVars, deadlineVars, writeVars, runVars, closeVars>>

InputClosed(i) ==
  /\ ipc[i] = "select"
  /\ closeChan
  /\ ipc' = [ipc EXCEPT ![i] = "idle"]
  /\ UNCHANGED <<inputCh, units, kcpRecv, readVars, deadlineVars, writeVars, runVars,
                 closeVars>>

-----------------------------------------------------------------------------
(* runLoop.  Its poll timer (Update, drainRecv) is a stuttering step here:  *)
(* back at the select, KCP holds nothing that drainRecv could take.         *)

(* Everything queued is given to KCP as one batch *)
drainInputChAndProcess ==
  /\ kcpRecv' = kcpRecv \o inputCh
  /\ inputCh' = <<>>

(* case data := <-inputCh *)
RunInput ==
  /\ run = "select"
  /\ inputCh # <<>>
  /\ drainInputChAndProcess
  /\ run' = "drain"
  /\ UNCHANGED <<units, ipc, received, readVars, deadlineVars, writeVars, closeVars>>

(* A runLoop that reports success without looking at what Send returned *)
RunWriteUnchecked(ok) ==
  /\ run = "select"
  /\ writeCh # <<>>
  /\ sent' = IF ok THEN Append(sent, Head(writeCh)) ELSE sent
  /\ written' = written \cup {<<Head(writeCh), TRUE>>}
  /\ writeCh' = Tail(writeCh)
  /\ run' = "drain"
  /\ UNCHANGED <<wpc, wcount, accepted, received, readVars, deadlineVars, inputVars,
                 closeVars>>

(* case req := <-writeCh: Send, which may refuse the message, then the     *)
(* result (capacity 1, never blocks)                                       *)
RunWrite(ok) ==
  /\ run = "select"
  /\ writeCh # <<>>
  /\ sent' = IF ok THEN Append(sent, Head(writeCh)) ELSE sent
  /\ written' = written \cup {<<Head(writeCh), ok>>}
  /\ writeCh' = Tail(writeCh)
  /\ run' = "drain"
  /\ UNCHANGED <<wpc, wcount, accepted, received, readVars, deadlineVars, inputVars,
                 closeVars>>

(* A drain that overwrites what readers have not taken yet *)
DrainRecvReplace ==
  /\ run = "drain"
  /\ kcpRecv # <<>>
  /\ recvMu = "free"
  /\ recvBuf' = <<Head(kcpRecv)>>
  /\ kcpRecv' = Tail(kcpRecv)
  /\ received' = TRUE
  /\ UNCHANGED <<run, inputCh, units, ipc, readLog, recvMu, tickets, rpc, timer, deadlineVars,
                 writeVars, closeVars>>

(* Recv has a message that fits the buffer *)
RecvReady == kcpRecv # <<>> /\ Head(kcpRecv) \notin LargeUnits

(* drainRecv: one Recv and the append under recvMu *)
DrainRecv ==
  /\ run = "drain"
  /\ RecvReady
  /\ recvMu = "free"
  /\ recvBuf' = Append(recvBuf, Head(kcpRecv))
  /\ kcpRecv' = Tail(kcpRecv)
  /\ received' = TRUE
  /\ UNCHANGED <<run, inputCh, units, ipc, readLog, recvMu, tickets, rpc, timer, deadlineVars,
                 writeVars, closeVars>>

(* A drain that returns without waking the readers *)
DrainDoneSilent ==
  /\ run = "drain"
  /\ ~RecvReady
  /\ UNCHANGED <<rpc, tickets>>
  /\ received' = FALSE
  /\ run' = "select"
  /\ UNCHANGED <<recvBuf, readLog, recvMu, timer, deadlineVars, writeVars, inputVars, closeVars>>

DrainDone ==
  /\ run = "drain"
  /\ ~RecvReady
  /\ IF received THEN Broadcast ELSE UNCHANGED <<rpc, tickets>>
  /\ received' = FALSE
  /\ run' = "select"
  /\ UNCHANGED <<recvBuf, readLog, recvMu, timer, deadlineVars, writeVars, inputVars, closeVars>>

(* A runLoop that, timed out, closes with closeWithReason: it waits for    *)
(* itself to return.                                                       *)
RunIdleTimeoutWait ==
  /\ run = "select"
  /\ run' = "closeWait"
  /\ UNCHANGED <<received, readVars, deadlineVars, writeVars, inputVars, closeVars>>

(* The idle timeout: closeInternal, which only signals *)
RunIdleTimeout ==
  /\ run = "select"
  /\ run' = "close"
  /\ UNCHANGED <<received, readVars, deadlineVars, writeVars, inputVars, closeVars>>

RunClosed ==
  /\ run = "select"
  /\ closeChan
  /\ run' = "exit"
  /\ UNCHANGED <<received, readVars, deadlineVars, writeVars, inputVars, closeVars>>

-----------------------------------------------------------------------------
(* closeSignal, by Close, closeWithReason or runLoop; closeOnce makes later *)
(* callers wait until the first is through                                  *)

CloseCall(c) ==
  /\ cpc[c] = "idle"
  /\ cpc' = [cpc EXCEPT ![c] = "signal"]
  /\ UNCHANGED <<closed, closeChan, once, readVars, deadlineVars, writeVars, inputVars, runVars>>

(* The steps inside closeOnce.Do for the goroutine that got in *)
OnceMark(before, after) ==
  /\ before
  /\ once = "free"
  /\ once' = "busy"
  /\ closed' = TRUE
  /\ after

OnceCloseChan ==
  /\ once = "busy"
  /\ ~closeChan
  /\ closeChan' = TRUE
  /\ UNCHANGED <<closed, once, cpc, readVars, deadlineVars, writeVars, inputVars, runVars>>

OnceBroadcast ==
  /\ once = "busy"
  /\ closeChan
  /\ once' = "done"
  /\ Broadcast
  /\ UNCHANGED <<closed, closeChan, cpc, recvBuf, readLog, recvMu, timer, deadlineVars,
                 writeVars, inputVars, runVars>>

CloseMark(c) ==
  /\ OnceMark(cpc[c] = "signal", cpc' = [cpc EXCEPT ![c] = "once"])
  /\ UNCHANGED <<closeChan, readVars, deadlineVars, writeVars, inputVars, runVars>>

RunMark ==
  /\ OnceMark(run = "close", run' = "once")
  /\ UNCHANGED <<closeChan, cpc, received, readVars, deadlineVars, writeVars, inputVars>>

(* closeOnce.Do returns, then finalizeClose waits for runLoop *)
CloseReturn(c) ==
  /\ cpc[c] \in {"signal", "once"}
  /\ once = "done"
  /\ run = "exit"
  /\ cpc' = [cpc EXCEPT ![c] = "returned"]
  /\ UNCHANGED <<closed, closeChan, once, readVars, deadlineVars, writeVars, inputVars, runVars>>

RunReturn ==
  /\ run \in {"close", "once"}
  /\ once = "done"
  /\ run' = "exit"
  /\ UNCHANGED <<received, readVars, deadlineVars, writeVars, inputVars, closeVars>>

-----------------------------------------------------------------------------
ReadStep(r) ==
  ReadLock(r) \/ (\E n \in 1 .. MaxUnits : ReadData(r, n)) \/ ReadError(r)
  \/ ReadMustWait(r) \/ ReadWait(r)

WriteStep(w) == WriteEnqueue(w) \/ WriteDone(w) \/ WriteAbandon(w, FALSE)

InputStep(i) == InputEnqueue(i) \/ InputClosed(i)

RunStep ==
  \/ RunInput
  \/ \E ok \in BOOLEAN : RunWrite(ok)
  \/ DrainRecv \/ DrainDone
  \/ RunClosed \/ RunMark \/ RunReturn

CloseStep(c) == CloseMark(c) \/ CloseReturn(c)

Next ==
  \/ \E r \in Readers : ReadCall(r) \/ ReadStep(r) \/ TimerFire(r)
  \/ Tick
  \/ \E dl \in 1 .. MaxTime - 1 : SetReadDeadline(dl)
  \/ SetReadDeadlineBroadcast
  \/ \E w \in Writers : WriteCall(w) \/ WriteStep(w) \/ WriteAbandon(w, TRUE)
  \/ \E i \in Inputters : InputCall(i) \/ InputStep(i)
  \/ RunStep \/ RunIdleTimeout
  \/ \E c \in Closers : CloseCall(c) \/ CloseStep(c)
  \/ OnceCloseChan \/ OnceBroadcast

Spec == Init /\ [][Next]_vars

(* Every goroutine inside a call keeps being scheduled and armed timers    *)
(* fire; runLoop, which competes with readers for recvMu, gets it in the   *)
(* end because Go's mutex is starvation-free.  With finitely many units    *)
(* and writes no stronger assumption is needed about select.  Nobody has   *)
(* to call anything, the clock may stop and no idle timeout has to occur.  *)
Fairness ==
  /\ \A r \in Readers : WF_vars(ReadStep(r)) /\ WF_vars(TimerFire(r))
  /\ WF_vars(SetReadDeadlineBroadcast)
  /\ \A w \in Writers : WF_vars(WriteStep(w))
  /\ \A i \in Inputters : WF_vars(InputStep(i))
  /\ WF_vars(RunStep) /\ SF_vars(DrainRecv)
  /\ \A c \in Closers : WF_vars(CloseStep(c))
  /\ WF_vars(OnceCloseChan \/ OnceBroadcast)

FairSpec == Spec /\ Fairness

-----------------------------------------------------------------------------
(* Properties *)

TypeOK ==
  /\ now \in 1 .. MaxTime /\ readDeadline \in 0 .. MaxTime - 1
  /\ units \in 0 .. MaxUnits
  /\ \A s \in {inputCh, kcpRecv, recvBuf, readLog} : s \in Seq(1 .. MaxUnits)
  /\ recvMu \in Readers \cup {"free"}
  /\ tickets \in SUBSET Readers
  /\ rpc \in [Readers -> {"idle", "lock", "test", "wait", "parked", "relock"}]
  /\ timer \in [Readers -> 0 .. MaxTime - 1]
  /\ dpc \in {"idle", "broadcast", "returned"}
  /\ \A s \in {writeCh, sent} : s \in Seq(Writers \X (1 .. MaxWrites))
  /\ written \subseteq (Writers \X (1 .. MaxWrites)) \X BOOLEAN
  /\ accepted \subseteq Writers \X (1 .. MaxWrites)
  /\ wpc \in [Writers -> {"idle", "enqueue", "await"}]
  /\ wcount \in [Writers -> 0 .. MaxWrites]
  /\ ipc \in [Inputters -> {"idle", "select"}]
  /\ run \in {"select", "drain", "close", "once", "exit"}
  /\ received \in BOOLEAN /\ closed \in BOOLEAN /\ closeChan \in BOOLEAN
  /\ once \in {"free", "busy", "done"}
  /\ cpc \in [Closers -> {"idle", "signal", "once", "returned"}]

(* What Input accepted is, in order, what Read returned followed by what   *)
(* is still on its way: nothing is lost, repeated or reordered by          *)
(* concurrent Reads of any size, batching or a Close                       *)
(* (drainInputChAndProcess, drainRecv, Read).                              *)
StreamConserved ==
  readLog \o recvBuf \o kcpRecv \o inputCh = [n \in 1 .. units |-> n]

(* A Write that returned success was sent, no request is sent twice, and   *)
(* one writer's requests are sent in the order of its calls, those it gave *)
(* up on included (Write, runLoop).                                        *)
WritesInOrder ==
  /\ accepted \subseteq ToSet(sent)
  /\ \A i, j \in DOMAIN sent :
       i < j /\ sent[i][1] = sent[j][1] => sent[i][2] < sent[j][2]

(* A reader parked while there is data is woken: the data reaches some     *)
(* reader (drainRecv, Read).                                               *)
DataWakesReader ==
  \A r \in Readers :
    (rpc[r] = "parked" /\ recvBuf # <<>>) ~> (rpc[r] # "parked" \/ recvBuf = <<>>)

(* A call under way returns.  Close does because runLoop always comes back *)
(* to see closeCh, also when it is runLoop that closes on an idle timeout  *)
(* (finalizeClose, closeInternal); Write does even if runLoop exits        *)
(* between its two selects.                                                *)
CallsReturn ==
  /\ \A c \in Closers : cpc[c] = "signal" ~> cpc[c] = "returned"
  /\ \A w \in Writers : wpc[w] # "idle" ~> wpc[w] = "idle"

(* "drainRecv moves all available data from KCP recv queue into recvBuf":  *)
(* back at its select, runLoop has left nothing in KCP.                    *)
RecvDrained == run = "select" => kcpRecv = <<>>

(* "Blocks until data is available, the deadline expires, or the conn is   *)
(* closed" (Read): a Read under way when the conn is closed returns.       *)
CloseWakesReader ==
  \A r \in Readers : (closed /\ rpc[r] # "idle") ~> (rpc[r] = "idle")
=============================================================================
