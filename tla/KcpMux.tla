------------------------------- MODULE KcpMux -------------------------------
(***************************************************************************)
(* One KcpMux (kcp/kcp_mux.go): the streams of one service of one peer.    *)
(* The application opens, accepts and closes streams, the decrypt workers  *)
(* hand in frames, idle timers fire, and StopAccepting and Close run, each *)
(* in its own goroutine; a step is one critical section of KcpMux.mu.      *)
(*                                                                         *)
(* The remote mux is the environment: any frame may arrive at any time, so *)
(* loss, duplication and reordering need no action of their own.  Frames   *)
(* sent to it are not recorded.  An entry is named by its incarnation, the *)
(* identity of its *streamEntry, because callbacks that captured a stream  *)
(* id may find another entry under it.                                     *)
(***************************************************************************)
EXTENDS Integers, Sequences, FiniteSets

CONSTANTS
  IdSpace,           \* stream ids are computed modulo this (2^32 in the code)
  AcceptBacklog,     \* capacity of acceptCh
  MaxActiveStreams,  \* remote opens are refused at this many active streams
  MaxInc,            \* bound: stream entries created in one behaviour
  MaxFired,          \* bound: idle callbacks waiting for the lock at once
  Accepters, FrameWorkers, StreamClosers

ASSUME KcpMuxAssumption ==
  /\ IdSpace \in Nat \ {0} /\ AcceptBacklog \in Nat /\ MaxActiveStreams \in Nat
  /\ MaxInc \in Nat /\ MaxFired \in Nat
  /\ IsFiniteSet(Accepters) /\ IsFiniteSet(FrameWorkers) /\ IsFiniteSet(StreamClosers)

Ids == 0 .. (IdSpace - 1)
Incs == 1 .. MaxInc
NoInc == 0

(* This mux is the client: its own ids are odd, the remote's even *)
isRemoteStreamID(id) == id % 2 = 0

VARIABLES
  streams,       \* id -> incarnation, or NoInc
  entry,         \* incarnation -> the fields of its streamEntry
  created,       \* incarnations created so far
  nextLocal,     \* nextLocalStreamID
  activeStreams,
  acceptCh,      \* queue of stream ids
  accepting,     \* acceptingRemote
  stopped,       \* acceptStopCh is closed
  phase,         \* closing and closed; closeCh is closed unless "open"
  fired,         \* entries whose idle timer fired and waits for the lock
  handed,        \* ids of streams the application was given
  acc,           \* accepter -> where its Accept is
  inp,           \* inputter -> where its Input is
  clo,           \* closer -> where its stream Close is
  opening,       \* entries whose OPEN frame is not sent yet
  todo,          \* ids the mux Close has still to close
  stopping       \* StopAccepting is between its unlock and the close of acceptStopCh

table == <<streams, entry, created, activeStreams>>
ctl == <<accepting, stopped, phase, todo, stopping>>
muxVars == <<table, nextLocal, acceptCh, ctl, fired, handed, acc, inp, clo, opening>>

(* acked: closeAckCh is closed *)
Entry == [id: Ids, active: BOOLEAN, queued: BOOLEAN, localClose: BOOLEAN, acked: BOOLEAN]
NewEntry(id) == [id |-> id, active |-> FALSE, queued |-> FALSE, localClose |-> FALSE,
                 acked |-> FALSE]

Idle == [at |-> "idle"]

MuxInit ==
  /\ streams = [id \in Ids |-> NoInc]
  /\ entry = [i \in Incs |-> NewEntry(0)]
  /\ created = 0
  /\ nextLocal = 1 % IdSpace
  /\ activeStreams = 0
  /\ acceptCh = <<>>
  /\ accepting = TRUE
  /\ stopped = FALSE
  /\ phase = "open"
  /\ fired = {}
  /\ handed = {}
  /\ acc = [a \in Accepters |-> Idle]
  /\ inp = [i \in FrameWorkers |-> Idle]
  /\ clo = [c \in StreamClosers |-> Idle]
  /\ opening = {}
  /\ todo = {}
  /\ stopping = FALSE

-----------------------------------------------------------------------------
(* Helpers that run inside the lock *)

Present(id) == streams[id] # NoInc
ActiveIds == {id \in Ids : Present(id) /\ entry[streams[id]].active}
QueuedIds == {id \in Ids : Present(id) /\ entry[streams[id]].queued}

(* The closeAckCh of a removed entry, if any, is closed *)
Released(e) == [e EXCEPT !.active = FALSE, !.queued = FALSE, !.acked = e.acked \/ e.localClose]

(* mutant: activeStreams also counts streams that were never accepted down *)
removeStreamsQueued(ids) ==
  /\ streams' = [id \in Ids |-> IF id \in ids THEN NoInc ELSE streams[id]]
  /\ entry' = [i \in Incs |->
                 IF \E id \in ids : streams[id] = i THEN Released(entry[i]) ELSE entry[i]]
  /\ activeStreams' = activeStreams - Cardinality({id \in ids : Present(id)})
  /\ UNCHANGED created

removeStreams(ids) ==
  /\ streams' = [id \in Ids |-> IF id \in ids THEN NoInc ELSE streams[id]]
  /\ entry' = [i \in Incs |->
                 IF \E id \in ids : streams[id] = i THEN Released(entry[i]) ELSE entry[i]]
  /\ activeStreams' = activeStreams - Cardinality(ActiveIds \cap ids)
  /\ UNCHANGED created

removeStream(id) == removeStreams({id})

newStreamEntry(id, e) ==
  /\ created < MaxInc
  /\ created' = created + 1
  /\ streams' = [streams EXCEPT ![id] = created + 1]
  /\ entry' = [entry EXCEPT ![created + 1] = e]

(* mutant: the room in acceptCh is not checked before the entry is made *)
handleOpenNoRoom(id) ==
  IF phase # "open" \/ ~accepting \/ Present(id) \/ activeStreams >= MaxActiveStreams
    THEN UNCHANGED <<table, acceptCh>>
    ELSE /\ newStreamEntry(id, [NewEntry(id) EXCEPT !.queued = TRUE])
         /\ acceptCh' = IF Len(acceptCh) < AcceptBacklog THEN Append(acceptCh, id) ELSE acceptCh
         /\ UNCHANGED activeStreams

(* mutant: closing and closed are not checked again *)
handleOpenClosing(id) ==
  IF \/ (~accepting /\ phase = "open") \/ Present(id)
     \/ activeStreams >= MaxActiveStreams \/ Len(acceptCh) >= AcceptBacklog
    THEN UNCHANGED <<table, acceptCh>>
    ELSE /\ newStreamEntry(id, [NewEntry(id) EXCEPT !.queued = TRUE])
         /\ acceptCh' = Append(acceptCh, id)
         /\ UNCHANGED activeStreams

(* The OPEN of a remote stream, also implied by its first DATA frame *)
handleOpen(id) ==
  IF \/ phase # "open" \/ ~accepting \/ Present(id)
     \/ activeStreams >= MaxActiveStreams
     \/ Len(acceptCh) >= AcceptBacklog
    THEN UNCHANGED <<table, acceptCh>>
    ELSE /\ newStreamEntry(id, [NewEntry(id) EXCEPT !.queued = TRUE])
         /\ acceptCh' = Append(acceptCh, id)
         /\ UNCHANGED activeStreams

-----------------------------------------------------------------------------
(* The application *)

(* The n-th id that allocateLocalStreamIDLocked tries *)
Candidate(n) == (nextLocal + 2 * n) % IdSpace

Open ==
  /\ phase = "open"
  /\ \E n \in 0 .. (IdSpace \div 2 - 1) :
       LET id == Candidate(n) IN
       /\ ~Present(id) /\ \A k \in 0 .. (n - 1) : Present(Candidate(k))
       /\ newStreamEntry(id, [NewEntry(id) EXCEPT !.active = TRUE])
       /\ nextLocal' = (id + 2) % IdSpace
       /\ activeStreams' = activeStreams + 1
       /\ opening' = opening \cup {created + 1}
  /\ UNCHANGED <<acceptCh, fired, handed, acc, inp, clo, ctl>>

OpenSent(k) ==
  /\ k \in opening
  /\ opening' = opening \ {k}
  /\ handed' = handed \cup {entry[k].id}
  /\ UNCHANGED <<table, nextLocal, acceptCh, fired, acc, inp, clo, ctl>>

OpenSendFails(k) ==
  /\ k \in opening
  /\ opening' = opening \ {k}
  /\ removeStream(entry[k].id)
  /\ UNCHANGED <<nextLocal, acceptCh, fired, handed, acc, inp, clo, ctl>>

AcceptCall(a) ==
  /\ acc[a].at = "idle"
  /\ acc' = [acc EXCEPT ![a] = [at |-> "select"]]
  /\ UNCHANGED <<table, nextLocal, acceptCh, fired, handed, inp, clo, opening, ctl>>

AcceptPop(a) ==
  /\ acc[a].at = "select" /\ acceptCh # <<>>
  /\ acc' = [acc EXCEPT ![a] = [at |-> "popped", id |-> Head(acceptCh)]]
  /\ acceptCh' = Tail(acceptCh)
  /\ UNCHANGED <<table, nextLocal, fired, handed, inp, clo, opening, ctl>>

AcceptStopped(a) ==
  /\ acc[a].at = "select" /\ (stopped \/ phase # "open")
  /\ acc' = [acc EXCEPT ![a] = [at |-> "refused"]]
  /\ UNCHANGED <<table, nextLocal, acceptCh, fired, handed, inp, clo, opening, ctl>>

acceptQueued(a) ==
  LET id == acc[a].id IN
  /\ acc[a].at = "popped"
  /\ \/ /\ phase # "open" \/ ~accepting
        /\ acc' = [acc EXCEPT ![a] = [at |-> "refused"]]
        /\ UNCHANGED <<table, handed>>
     \/ /\ phase = "open" /\ accepting /\ id \notin QueuedIds
        /\ acc' = [acc EXCEPT ![a] = [at |-> "select"]]
        /\ UNCHANGED <<table, handed>>
     \/ /\ phase = "open" /\ accepting /\ id \in QueuedIds
        /\ acc' = [acc EXCEPT ![a] = Idle]
        /\ entry' = [entry EXCEPT ![streams[id]] =
                       [@ EXCEPT !.queued = FALSE, !.active = TRUE]]
        /\ activeStreams' = activeStreams + 1
        /\ handed' = handed \cup {id}
        /\ UNCHANGED <<streams, created>>
  /\ UNCHANGED <<nextLocal, acceptCh, fired, inp, clo, opening, ctl>>

(* The first half of closeStream: mark the entry and take its closeAckCh *)
CloseLocal(id) ==
  /\ entry' = [entry EXCEPT ![streams[id]] =
                 IF @.localClose THEN @
                 ELSE [@ EXCEPT !.localClose = TRUE]]
  /\ UNCHANGED <<streams, created, activeStreams>>

closeStream(c, id) ==
  /\ clo[c].at = "idle" /\ id \in handed
  /\ IF phase = "closed" \/ ~Present(id)
       THEN UNCHANGED <<table, clo>>
       ELSE /\ CloseLocal(id)
            /\ clo' = [clo EXCEPT ![c] = [at |-> "wait", inc |-> streams[id]]]
  /\ UNCHANGED <<nextLocal, acceptCh, fired, handed, acc, inp, opening, ctl>>

(* waitForCloseAck: the acknowledgement, or closeCh *)
CloseWakes(c) ==
  /\ clo[c].at = "wait"
  /\ entry[clo[c].inc].acked \/ phase # "open"
  /\ clo' = [clo EXCEPT ![c] = Idle]
  /\ UNCHANGED <<table, nextLocal, acceptCh, fired, handed, acc, inp, opening, ctl>>

(* mutant: the stream stays in the table *)
CloseTimesOutKeeps(c) ==
  /\ clo[c].at = "wait"
  /\ clo' = [clo EXCEPT ![c] = Idle]
  /\ UNCHANGED <<table, nextLocal, acceptCh, fired, handed, acc, inp, opening, ctl>>

(* waitForCloseAck: CloseAckTimeout has passed *)
CloseTimesOut(c) ==
  /\ clo[c].at = "wait"
  /\ removeStream(entry[clo[c].inc].id)
  /\ clo' = [clo EXCEPT ![c] = Idle]
  /\ UNCHANGED <<nextLocal, acceptCh, fired, handed, acc, inp, opening, ctl>>

-----------------------------------------------------------------------------
(* Frames from the remote mux *)

(* Input checks that the mux is open and looks the stream up, in two critical
   sections that are one step here: a Close between them can only remove the entry.
   Which frame it is is chosen when it is acted on. *)
InputBegin(i, id) ==
  /\ inp[i].at = "idle" /\ phase = "open"
  /\ inp' = [inp EXCEPT ![i] = [at |-> "frame", id |-> id, inc |-> streams[id]]]
  /\ UNCHANGED <<table, nextLocal, acceptCh, fired, handed, acc, clo, opening, ctl>>

InputCloseAck(i) ==
  LET w == inp[i] IN
  /\ w.at = "frame"
  /\ IF w.inc # NoInc /\ entry[w.inc].localClose
       THEN /\ entry' = [entry EXCEPT ![w.inc].acked = TRUE]
            /\ inp' = [inp EXCEPT ![i].at = "remove"]
       ELSE inp' = [inp EXCEPT ![i] = Idle] /\ UNCHANGED entry
  /\ UNCHANGED <<streams, created, activeStreams, nextLocal, acceptCh, fired, handed,
                 acc, clo, opening, ctl>>

(* CLOSE, an invalid frame, the clean-up after CLOSE_ACK, and a KCP Input error
   remove whatever entry has the id now *)
InputRemove(i) ==
  LET w == inp[i] IN
  /\ w.at \in {"frame", "remove"}
  /\ IF w.inc # NoInc THEN removeStream(w.id) ELSE UNCHANGED table
  /\ inp' = [inp EXCEPT ![i] = Idle]
  /\ UNCHANGED <<nextLocal, acceptCh, fired, handed, acc, clo, opening, ctl>>

InputOpen(i) ==
  LET w == inp[i] IN
  /\ w.at = "frame"
  /\ IF w.inc = NoInc /\ isRemoteStreamID(w.id) THEN handleOpen(w.id)
     ELSE UNCHANGED <<table, acceptCh>>
  /\ inp' = [inp EXCEPT ![i] = Idle]
  /\ UNCHANGED <<nextLocal, fired, handed, acc, clo, opening, ctl>>

(* DATA for a remote stream that is not there opens it, then looks it up again *)
InputDataOpens(i) ==
  LET w == inp[i] IN
  /\ w.at = "frame" /\ w.inc = NoInc /\ isRemoteStreamID(w.id)
  /\ handleOpen(w.id)
  /\ inp' = [inp EXCEPT ![i] = [at |-> "lookup", id |-> w.id]]
  /\ UNCHANGED <<nextLocal, fired, handed, acc, clo, opening, ctl>>

InputLookup(i) ==
  LET w == inp[i] IN
  /\ w.at = "lookup"
  /\ inp' = [inp EXCEPT ![i] = [at |-> "again", id |-> w.id, inc |-> streams[w.id]]]
  /\ UNCHANGED <<table, nextLocal, acceptCh, fired, handed, acc, clo, opening, ctl>>

(* KCPConn.Input takes the packet, or fails because the connection is closed *)
InputData(i) ==
  LET w == inp[i] IN
  /\ w.at \in {"frame", "again"}
  /\ \/ inp' = [inp EXCEPT ![i] = Idle]
     \/ w.inc # NoInc /\ inp' = [inp EXCEPT ![i].at = "remove"]
  /\ UNCHANGED <<table, nextLocal, acceptCh, fired, handed, acc, clo, opening, ctl>>

-----------------------------------------------------------------------------
(* Idle timers.  Time is not modelled, so touchStream and resetIdleTimerLocked,
   which postpone the expiry, change nothing: the timer of an entry may fire as long
   as the entry is there.  The callback runs in its own goroutine and knows only the
   stream id. *)

IdleFires(k) ==
  /\ streams[entry[k].id] = k /\ Cardinality(fired) < MaxFired
  /\ fired' = fired \cup {k}
  /\ UNCHANGED <<table, nextLocal, acceptCh, handed, acc, inp, clo, opening, ctl>>

IdleRemoves(k) ==
  /\ k \in fired
  /\ fired' = fired \ {k}
  /\ removeStream(entry[k].id)
  /\ UNCHANGED <<nextLocal, acceptCh, handed, acc, inp, clo, opening, ctl>>

-----------------------------------------------------------------------------
(* StopAccepting and Close *)

StopAccepting ==
  /\ phase = "open" /\ accepting
  /\ accepting' = FALSE
  /\ removeStreams({id \in QueuedIds : ~entry[streams[id]].active})
  /\ stopping' = TRUE
  /\ UNCHANGED <<nextLocal, acceptCh, stopped, phase, fired, handed, acc, inp, clo,
                 opening, todo>>

(* mutant: acceptStopCh is left open *)
StopSignalNone ==
  /\ stopping
  /\ stopping' = FALSE
  /\ UNCHANGED <<table, nextLocal, acceptCh, accepting, stopped, phase, fired, handed,
                 acc, inp, clo, opening, todo>>

StopSignal ==
  /\ stopping
  /\ stopping' = FALSE /\ stopped' = TRUE
  /\ UNCHANGED <<table, nextLocal, acceptCh, accepting, phase, fired, handed, acc, inp,
                 clo, opening, todo>>

CloseBegin ==
  /\ phase = "open"
  /\ phase' = "closing" /\ accepting' = FALSE /\ stopped' = TRUE
  /\ todo' = {id \in Ids : Present(id)}
  /\ UNCHANGED <<table, nextLocal, acceptCh, fired, handed, acc, inp, clo, opening,
                 stopping>>

(* closeStream of each snapshotted id; closeCh is closed, so it does not wait *)
CloseNextStream ==
  /\ phase = "closing"
  /\ \E id \in todo :
       /\ todo' = todo \ {id}
       /\ IF Present(id) THEN CloseLocal(id) ELSE UNCHANGED table
  /\ UNCHANGED <<nextLocal, acceptCh, accepting, stopped, phase, fired, handed, acc,
                 inp, clo, opening, stopping>>

CloseFinish ==
  /\ phase = "closing" /\ todo = {}
  /\ removeStreams(Ids)
  /\ phase' = "closed"
  /\ UNCHANGED <<nextLocal, acceptCh, accepting, stopped, fired, handed, acc, inp, clo,
                 opening, todo, stopping>>

-----------------------------------------------------------------------------
AppNext ==
  \/ Open
  \/ \E k \in Incs : OpenSent(k) \/ OpenSendFails(k)
  \/ \E a \in Accepters : AcceptCall(a) \/ AcceptPop(a) \/ AcceptStopped(a) \/ acceptQueued(a)
  \/ \E c \in StreamClosers : (\E id \in Ids : closeStream(c, id)) \/ CloseWakes(c) \/ CloseTimesOut(c)

InputNext(i) ==
  \/ \E id \in Ids : InputBegin(i, id)
  \/ InputCloseAck(i) \/ InputRemove(i) \/ InputOpen(i)
  \/ InputDataOpens(i) \/ InputLookup(i) \/ InputData(i)

MuxNext ==
  \/ AppNext
  \/ \E i \in FrameWorkers : InputNext(i)
  \/ \E k \in Incs : IdleFires(k) \/ IdleRemoves(k)
  \/ StopAccepting \/ StopSignal \/ CloseBegin \/ CloseNextStream \/ CloseFinish

(* A goroutine that can run runs, timers expire, and whoever began Close or
   StopAccepting finishes; nothing makes the remote send *)
MuxFairness ==
  /\ \A c \in StreamClosers : WF_muxVars(CloseWakes(c) \/ CloseTimesOut(c))
  /\ \A a \in Accepters : WF_muxVars(AcceptPop(a) \/ AcceptStopped(a) \/ acceptQueued(a))
  /\ \A i \in FrameWorkers : WF_muxVars(inp[i].at = "remove" /\ InputRemove(i))
  /\ WF_muxVars(StopSignal) /\ WF_muxVars(CloseNextStream \/ CloseFinish)

MuxSpec == MuxInit /\ [][MuxNext]_muxVars
MuxFairSpec == MuxSpec /\ MuxFairness

-----------------------------------------------------------------------------
(* Every variable has its type, and a stream id names an entry that was created. *)
MuxTypeOK ==
  /\ streams \in [Ids -> 0 .. created]
  /\ entry \in [Incs -> Entry]
  /\ created \in 0 .. MaxInc
  /\ nextLocal \in Ids
  /\ activeStreams \in Nat
  /\ acceptCh \in Seq(Ids)
  /\ accepting \in BOOLEAN /\ stopped \in BOOLEAN /\ stopping \in BOOLEAN
  /\ phase \in {"open", "closing", "closed"}
  /\ fired \subseteq Incs /\ opening \subseteq Incs /\ handed \subseteq Ids /\ todo \subseteq Ids

(* activeStreams, which admission control compares with MaxActiveStreams, is the
   number of streams that are open or accepted: no path that removes a stream
   (remote close, acknowledgement, timeouts, a failed send) counts it twice or not
   at all.  A drift upwards would refuse remote streams for ever. *)
ActiveExact == activeStreams = Cardinality(ActiveIds)

(* While the mux accepts, a stream waiting to be accepted has its id in acceptCh or
   in the hands of a running Accept, even when its id was queued, removed and queued
   again: no accepted OPEN is forgotten. *)
QueuedReachable ==
  phase = "open" /\ accepting =>
    \A id \in QueuedIds :
      \/ \E k \in DOMAIN acceptCh : acceptCh[k] = id
      \/ \E a \in Accepters : acc[a].at = "popped" /\ acc[a].id = id

(* Once Close has finished no stream is left, although Opens, frames and stream
   Closes race with it. *)
ClosedEmpty == phase = "closed" => \A id \in Ids : ~Present(id)

(* Streams that were closed here leave the table, again and again: acknowledged,
   timed out, idle, or removed by the mux Close, whichever comes first. *)
ClosedStreamsLeave ==
  []<>(\A id \in Ids : Present(id) => ~entry[streams[id]].localClose)

(* An Accept that waits when the mux stops accepting, or is closed, returns. *)
AcceptReturns ==
  \A a \in Accepters :
    (acc[a].at = "select" /\ (stopping \/ phase # "open")) ~> acc[a].at \in {"refused", "idle"}
=============================================================================
