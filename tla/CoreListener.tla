---------------------------- MODULE CoreListener ----------------------------
(***************************************************************************)
(* Listener (core/listener.go): its receive loop answers handshake         *)
(* initiations, each with a new Conn, and routes transport packets, while  *)
(* the application accepts, closes and removes Conns and closes the        *)
(* listener.  Established sessions are kept in the SessionManager, which   *)
(* the application uses too.  A local index is random, so two Conns may    *)
(* get the same one.                                                       *)
(***************************************************************************)
EXTENDS SessionManager, Sequences

CONSTANTS
  ReadyQueue,   \* AcceptQueueSize
  MaxConns      \* bound: Conns the receive loop creates

ASSUME ListenerAssumption == ReadyQueue \in Nat /\ MaxConns \in Nat

ConnIds == 1 .. MaxConns
NoConn == 0

VARIABLES
  lconns,       \* index -> Conn, or NoConn
  lconn,        \* Conn -> its index, key, and whether it and its inbound are closed
  nconns,       \* Conns created so far
  ready,        \* queue of Conns that wait for Accept
  taken,        \* Conns the application was given
  loop,         \* where the receive loop is
  lclose,       \* where Close is: "no", "inbound", "conn" or "done"; l.mu is held between
  panicked      \* a channel was closed twice, or sent on after its close

routes == <<lconns, lconn, nconns>>
listenerVars == <<managerVars, routes, ready, taken, loop, lclose, panicked>>

Reading == [at |-> "read"]
Locked == lclose \in {"inbound", "conn"}

ListenerInit ==
  /\ NewSessionManager
  /\ lconns = [i \in Indexes |-> NoConn]
  /\ lconn = [c \in ConnIds |-> [idx |-> 1, key |-> NoKey, inboundClosed |-> FALSE, open |-> FALSE]]
  /\ nconns = 0
  /\ ready = <<>>
  /\ taken = {}
  /\ loop = Reading
  /\ lclose = "no"
  /\ panicked = FALSE

-----------------------------------------------------------------------------
(* handleHandshakeInit: a Conn is made, the handshake and the response succeed,
   and it is registered.  A failure of either leaves nothing behind. *)
InitAccepted(i, k) ==
  /\ loop.at = "read" /\ lclose # "done" /\ nconns < MaxConns
  /\ nconns' = nconns + 1
  /\ lconn' = [lconn EXCEPT ![nconns + 1] =
                 [idx |-> i, key |-> k, inboundClosed |-> FALSE, open |-> TRUE]]
  /\ loop' = [at |-> "register", conn |-> nconns + 1]
  /\ UNCHANGED <<managerVars, lconns, ready, taken, lclose, panicked>>

RegisterConn ==
  /\ loop.at = "register" /\ ~Locked
  /\ lconns' = [lconns EXCEPT ![lconn[loop.conn].idx] = loop.conn]
  /\ loop' = [loop EXCEPT !.at = "session"]
  /\ UNCHANGED <<managerVars, lconn, nconns, ready, taken, lclose, panicked>>

RegisterConnSession ==
  /\ loop.at = "session"
  /\ RegisterSession(lconn[loop.conn].idx, lconn[loop.conn].key)
  /\ loop' = [loop EXCEPT !.at = "queue"]
  /\ UNCHANGED <<routes, ready, taken, lclose, panicked>>

QueueConn ==
  /\ loop.at = "queue" /\ Len(ready) < ReadyQueue
  /\ ready' = Append(ready, loop.conn)
  /\ loop' = Reading
  /\ UNCHANGED <<managerVars, routes, taken, lclose, panicked>>

(* The queue is full: undo, one lock after the other *)
QueueFull ==
  /\ loop.at = "queue" /\ Len(ready) = ReadyQueue
  /\ ~Locked
  /\ lconns' = [lconns EXCEPT ![lconn[loop.conn].idx] = NoConn]
  /\ loop' = [loop EXCEPT !.at = "unregister"]
  /\ UNCHANGED <<managerVars, lconn, nconns, ready, taken, lclose, panicked>>

UnregisterSession ==
  /\ loop.at = "unregister"
  /\ RemoveSession(lconn[loop.conn].idx)
  /\ loop' = [loop EXCEPT !.at = "drop"]
  /\ UNCHANGED <<routes, ready, taken, lclose, panicked>>

DropConn ==
  /\ loop.at = "drop"
  /\ panicked' = (panicked \/ lconn[loop.conn].inboundClosed)
  /\ lconn' = [lconn EXCEPT ![loop.conn].inboundClosed = TRUE, ![loop.conn].open = FALSE]
  /\ loop' = Reading
  /\ UNCHANGED <<managerVars, lconns, nconns, ready, taken, lclose>>

(* handleTransport, and deliverPacket: inbound and state are read under Conn.mu,
   which is released before the send *)
RouteTransport(i) ==
  /\ loop.at = "read" /\ lclose # "done" /\ ~Locked /\ lconns[i] # NoConn
  /\ loop' = [at |-> "deliver", conn |-> lconns[i]]
  /\ UNCHANGED <<managerVars, routes, ready, taken, lclose, panicked>>

DeliverCheck ==
  /\ loop.at = "deliver"
  /\ loop' = IF lconn[loop.conn].open THEN [loop EXCEPT !.at = "send"] ELSE Reading
  /\ UNCHANGED <<managerVars, routes, ready, taken, lclose, panicked>>

DeliverSend ==
  /\ loop.at = "send"
  /\ panicked' = (panicked \/ lconn[loop.conn].inboundClosed)
  /\ loop' = Reading
  /\ UNCHANGED <<managerVars, routes, ready, taken, lclose>>

-----------------------------------------------------------------------------
(* The application *)

ListenerAccept ==
  /\ ready # <<>>
  /\ taken' = taken \cup {Head(ready)}
  /\ ready' = Tail(ready)
  /\ UNCHANGED <<managerVars, routes, loop, lclose, panicked>>

ConnClose(c) ==
  /\ c \in taken
  /\ lconn' = [lconn EXCEPT ![c].open = FALSE]
  /\ UNCHANGED <<managerVars, lconns, nconns, ready, taken, loop, lclose, panicked>>

RemoveConn(i) ==
  /\ ~Locked
  /\ lconns' = [lconns EXCEPT ![i] = NoConn]
  /\ UNCHANGED <<managerVars, lconn, nconns, ready, taken, loop, lclose, panicked>>

UseManager ==
  /\ ManagerNext
  /\ UNCHANGED <<routes, ready, taken, loop, lclose, panicked>>

(* Close holds l.mu: for every Conn it closes inbound, then the Conn *)
Routed == {i \in Indexes : lconns[i] # NoConn}

ListenerClose ==
  /\ lclose = "no"
  /\ lclose' = "inbound"
  /\ UNCHANGED <<managerVars, routes, ready, taken, loop, panicked>>

CloseInbound(i) ==
  /\ lclose = "inbound" /\ i \in Routed
  /\ panicked' = (panicked \/ lconn[lconns[i]].inboundClosed)
  /\ lconn' = [lconn EXCEPT ![lconns[i]].inboundClosed = TRUE]
  /\ lclose' = "conn"
  /\ UNCHANGED <<managerVars, lconns, nconns, ready, taken, loop>>

CloseConn(i) ==
  /\ lclose = "conn" /\ i \in Routed /\ lconn[lconns[i]].inboundClosed
  /\ lconn' = [lconn EXCEPT ![lconns[i]].open = FALSE]
  /\ lconns' = [lconns EXCEPT ![i] = NoConn]
  /\ lclose' = "inbound"
  /\ UNCHANGED <<managerVars, nconns, ready, taken, loop, panicked>>

ListenerCloseDone ==
  /\ lclose = "inbound" /\ Routed = {}
  /\ lclose' = "done"
  /\ UNCHANGED <<managerVars, routes, ready, taken, loop, panicked>>

-----------------------------------------------------------------------------
LoopNext ==
  \/ \E i \in Indexes, k \in Keys : InitAccepted(i, k)
  \/ \E i \in Indexes : RouteTransport(i)
  \/ RegisterConn \/ RegisterConnSession \/ QueueConn
  \/ QueueFull \/ UnregisterSession \/ DropConn
  \/ DeliverCheck \/ DeliverSend

(* A panic ends the process *)
ListenerNext ==
  /\ ~panicked
  /\ \/ LoopNext
     \/ ListenerAccept \/ UseManager
     \/ \E c \in ConnIds : ConnClose(c)
     \/ \E i \in Indexes : RemoveConn(i) \/ CloseInbound(i) \/ CloseConn(i)
     \/ ListenerClose \/ ListenerCloseDone

ListenerSpec == ListenerInit /\ [][ListenerNext]_listenerVars

-----------------------------------------------------------------------------
(* Types of the listener's own state. *)
ListenerTypeOK ==
  /\ lconns \in [Indexes -> ConnIds \cup {NoConn}]
  /\ nconns \in 0 .. MaxConns
  /\ taken \subseteq ConnIds
  /\ lclose \in {"no", "inbound", "conn", "done"}

(* deliverPacket "Returns false if the channel is full or the connection is closed":
   it, and the closes of inbound, never panic. *)
DeliverNeverPanics == ~panicked
=============================================================================
