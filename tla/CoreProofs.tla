----------------------------- MODULE CoreProofs -----------------------------
(***************************************************************************)
(* Proofs about the connection layers between the UDP stack and the        *)
(* application, one section each: the session manager and the listener of  *)
(* package core, for every set of keys, index space and accept queue;      *)
(* core.Conn, for any number of handshakes; the giznet listener, for any   *)
(* number of peers and callers; the service mux, for any number of         *)
(* services and callers.                                                   *)
(***************************************************************************)
EXTENDS CoreListener, CoreConn, ServiceMux, GiznetListener, TLAPS

(* The invariant of the session manager alone *)
ManagerInv == ManagerTypeOK /\ MapsInverse

(* Every index that CreateSession tries is one it may hand out: the counter
   wraps to 1 and never to the reserved 0 (allocateIndex). *)
LEMMA IndexAfterInRange ==
  ASSUME NEW i \in Indexes, NEW n \in Nat
  PROVE  IndexAfter(i, n) \in Indexes
<1>1. MaxIndex \in Nat /\ MaxIndex > 0
  BY SessionManagerAssumption
<1>2. i - 1 + n \in Nat
  BY DEF Indexes
<1>3. (i - 1 + n) % MaxIndex \in 0 .. (MaxIndex - 1)
  BY <1>1, <1>2
<1> QED
  BY <1>1, <1>3 DEF IndexAfter, Indexes

(* Putting a session under a free index, in place of its peer's earlier one,
   keeps the two maps inverse to each other. *)
LEMMA ReplaceKeepsInverse ==
  ASSUME ManagerInv, NEW i \in Indexes, NEW k \in Keys,
         byIndex[i] = NoKey, Replace(i, k)
  PROVE  /\ byIndex' \in [Indexes -> Keys \cup {NoKey}]
         /\ byPubkey' \in [Keys -> Indexes \cup {NoIndex}]
         /\ MapsInverse'
<1> USE SessionManagerAssumption
<1>1. byIndex' \in [Indexes -> Keys \cup {NoKey}]
  BY DEF ManagerInv, ManagerTypeOK, Replace
<1>2. byPubkey' \in [Keys -> Indexes \cup {NoIndex}]
  BY DEF ManagerInv, ManagerTypeOK, Replace
<1>3. ASSUME NEW j \in Indexes, NEW q \in Keys
      PROVE  byIndex'[j] = q <=> byPubkey'[q] = j
  <2>1. byIndex[j] = q <=> byPubkey[q] = j
    BY DEF ManagerInv, MapsInverse
  <2>2. byIndex[i] = q <=> byPubkey[q] = i
    BY DEF ManagerInv, MapsInverse
  <2>3. byIndex[j] = k <=> byPubkey[k] = j
    BY DEF ManagerInv, MapsInverse
  <2>4. byIndex'[j] = IF j = i THEN k ELSE IF j = byPubkey[k] THEN NoKey ELSE byIndex[j]
    BY DEF Replace
  <2>5. byPubkey'[q] = IF q = k THEN i ELSE byPubkey[q]
    BY DEF Replace, ManagerInv, ManagerTypeOK
  <2> QED
    BY <2>1, <2>2, <2>3, <2>4, <2>5
<1> QED
  BY <1>1, <1>2, <1>3 DEF MapsInverse

(* Removing the sessions with some indexes, whichever they are, keeps the maps
   inverse to each other: RemoveSession, RemoveByPubkey and ExpireSessions. *)
LEMMA ForgetKeepsInverse ==
  ASSUME ManagerInv, NEW is \in SUBSET Indexes, Forget(is)
  PROVE  ManagerInv'
<1> USE SessionManagerAssumption
<1>1. ManagerTypeOK'
  BY DEF ManagerInv, ManagerTypeOK, Forget
<1>2. ASSUME NEW j \in Indexes, NEW q \in Keys
      PROVE  byIndex'[j] = q <=> byPubkey'[q] = j
  <2>1. \A i \in Indexes : byIndex[i] = q <=> byPubkey[q] = i
    BY DEF ManagerInv, MapsInverse
  <2>2. byIndex'[j] = IF j \in is THEN NoKey ELSE byIndex[j]
    BY DEF Forget
  <2>3. byPubkey'[q] = IF \E i \in is : byIndex[i] = q THEN NoIndex ELSE byPubkey[q]
    BY DEF Forget
  <2>4. NoIndex \notin Indexes
    BY DEF NoIndex, Indexes
  <2> QED
    BY <2>1, <2>2, <2>3, <2>4
<1> QED
  BY <1>1, <1>2 DEF ManagerInv, MapsInverse

(* Every operation of the manager keeps its invariant. *)
LEMMA ManagerStep ==
  ASSUME ManagerInv, ManagerNext
  PROVE  ManagerInv'
<1> USE SessionManagerAssumption
<1>1. ASSUME NEW k \in Keys, CreateSession(k)
      PROVE  ManagerInv'
  <2>1. CASE \A i \in Indexes : byIndex[i] # NoKey
    BY <1>1, <2>1 DEF CreateSession, managerVars, ManagerInv, ManagerTypeOK, MapsInverse
  <2>2. CASE ~ \A i \in Indexes : byIndex[i] # NoKey
    <3>1. PICK n \in 0 .. (MaxIndex - 1) :
            /\ byIndex[IndexAfter(nextIndex, n)] = NoKey
            /\ nextIndex' = IndexAfter(nextIndex, n + 1)
            /\ Replace(IndexAfter(nextIndex, n), k)
      BY <1>1, <2>2 DEF CreateSession
    <3>2. nextIndex \in Indexes /\ n \in Nat /\ n + 1 \in Nat
      BY DEF ManagerInv, ManagerTypeOK
    <3>3. IndexAfter(nextIndex, n) \in Indexes /\ nextIndex' \in Indexes
      BY <3>1, <3>2, IndexAfterInRange
    <3> QED
      BY <3>1, <3>3, ReplaceKeepsInverse DEF ManagerInv, ManagerTypeOK
  <2> QED
    BY <2>1, <2>2
<1>2. ASSUME NEW k \in Keys, RemoveByPubkey(k)
      PROVE  ManagerInv'
  BY <1>2, ForgetKeepsInverse DEF RemoveByPubkey, ManagerInv, ManagerTypeOK
<1>3. ASSUME NEW i \in Indexes, NEW k \in Keys, RegisterSession(i, k)
      PROVE  ManagerInv'
  <2>1. CASE byIndex[i] # NoKey
    BY <1>3, <2>1 DEF RegisterSession, ManagerInv, ManagerTypeOK, MapsInverse
  <2>2. CASE byIndex[i] = NoKey
    BY <1>3, <2>2, ReplaceKeepsInverse DEF RegisterSession, ManagerInv, ManagerTypeOK
  <2> QED
    BY <2>1, <2>2
<1>4. ASSUME NEW i \in Indexes, RemoveSession(i)
      PROVE  ManagerInv'
  BY <1>4, ForgetKeepsInverse DEF RemoveSession
<1>5. ASSUME NEW is \in SUBSET Indexes, ExpireSessions(is)
      PROVE  ManagerInv'
  BY <1>5, ForgetKeepsInverse DEF ExpireSessions
<1>6. CASE Clear
  BY <1>6 DEF Clear, ManagerInv, ManagerTypeOK, MapsInverse, Indexes, NoIndex
<1> QED
  BY <1>1, <1>2, <1>3, <1>4, <1>5, <1>6 DEF ManagerNext

(* The empty manager satisfies the invariant. *)
LEMMA ManagerStart == NewSessionManager => ManagerInv
BY SessionManagerAssumption
   DEF NewSessionManager, ManagerInv, ManagerTypeOK, MapsInverse, Indexes, NoIndex

(* Whatever the application does with a SessionManager, its two maps stay each
   other's inverse: a session found by its key is found by its index too. *)
THEOREM ManagerMapsInverse == ManagerSpec => []MapsInverse
<1>1. ManagerInv /\ [ManagerNext]_managerVars => ManagerInv'
  BY ManagerStep DEF managerVars, ManagerInv, ManagerTypeOK, MapsInverse
<1>2. ManagerInv => MapsInverse
  BY DEF ManagerInv
<1> QED
  BY ManagerStart, <1>1, <1>2, PTL DEF ManagerSpec

-----------------------------------------------------------------------------
(* What the receive loop holds: while it is about to register or undo a Conn, the
   Conn has the key of its peer; every Conn has an index the manager can hold. *)
LoopConn == [idx : Indexes, key : Keys \cup {NoKey}, inboundClosed : BOOLEAN, open : BOOLEAN]

LoopAt == {"register", "session", "queue", "unregister", "drop", "deliver", "send"}

LoopTypeOK ==
  /\ lconn \in [ConnIds -> LoopConn]
  /\ ready \in Seq(ConnIds)
  /\ loop \in {Reading} \cup [at : LoopAt, conn : ConnIds]
  /\ loop \in [at : LoopAt \ {"deliver", "send"}, conn : ConnIds] =>
        lconn[loop.conn].key \in Keys

ListenerInv == ManagerInv /\ ListenerTypeOK /\ LoopTypeOK

(* The steps of the receive loop keep the invariant. *)
LEMMA LoopStep ==
  ASSUME ListenerInv, LoopNext
  PROVE  ListenerInv'
<1> USE SessionManagerAssumption, ListenerAssumption
<1> USE DEF ConnIds, NoConn, LoopConn, LoopAt, Reading
<1> DEFINE Holds(at) == loop.at = at /\ loop.conn \in ConnIds
                          /\ loop \in [at : LoopAt, conn : ConnIds]
<1>1. ASSUME NEW i \in Indexes, NEW k \in Keys, InitAccepted(i, k)
      PROVE  ListenerInv'
  <2>1. nconns + 1 \in ConnIds
    BY <1>1 DEF InitAccepted, ListenerInv, ListenerTypeOK
  <2>2. ManagerInv'
    BY <1>1 DEF InitAccepted, ListenerInv, ManagerInv, ManagerTypeOK, MapsInverse, managerVars
  <2>3. ListenerTypeOK'
    BY <1>1 DEF InitAccepted, ListenerInv, ListenerTypeOK
  <2>4. LoopTypeOK'
    BY <1>1, <2>1 DEF InitAccepted, ListenerInv, LoopTypeOK
  <2> QED
    BY <2>2, <2>3, <2>4 DEF ListenerInv
<1>2. ASSUME NEW i \in Indexes, RouteTransport(i)
      PROVE  ListenerInv'
  <2>1. lconns[i] \in ConnIds
    BY <1>2 DEF RouteTransport, ListenerInv, ListenerTypeOK
  <2>2. ManagerInv' /\ ListenerTypeOK'
    BY <1>2 DEF RouteTransport, ListenerInv, ListenerTypeOK, ManagerInv, ManagerTypeOK,
                MapsInverse, managerVars, routes
  <2>3. LoopTypeOK'
    BY <1>2, <2>1 DEF RouteTransport, ListenerInv, LoopTypeOK, routes
  <2> QED
    BY <2>2, <2>3 DEF ListenerInv
<1>3. CASE RegisterConn
  <2>1. Holds("register")
    BY <1>3 DEF RegisterConn, ListenerInv, LoopTypeOK
  <2>2. ManagerInv' /\ ListenerTypeOK'
    BY <1>3, <2>1 DEF RegisterConn, ListenerInv, ListenerTypeOK, ManagerInv, ManagerTypeOK,
                MapsInverse, managerVars
  <2>3. LoopTypeOK'
    BY <1>3, <2>1 DEF RegisterConn, ListenerInv, LoopTypeOK
  <2> QED
    BY <2>2, <2>3 DEF ListenerInv
<1>4. CASE RegisterConnSession
  <2>1. Holds("session")
    BY <1>4 DEF RegisterConnSession, ListenerInv, LoopTypeOK
  <2>2. lconn[loop.conn].idx \in Indexes /\ lconn[loop.conn].key \in Keys
    BY <2>1 DEF ListenerInv, LoopTypeOK
  <2>3. ManagerInv'
    BY <1>4, <2>2, ManagerStep DEF RegisterConnSession, ListenerInv, ManagerNext
  <2>4. ListenerTypeOK'
    BY <1>4 DEF RegisterConnSession, ListenerInv, ListenerTypeOK, routes
  <2>5. LoopTypeOK'
    BY <1>4, <2>1 DEF RegisterConnSession, ListenerInv, LoopTypeOK, routes
  <2> QED
    BY <2>3, <2>4, <2>5 DEF ListenerInv
<1>5. CASE QueueConn
  <2>1. Holds("queue")
    BY <1>5 DEF QueueConn, ListenerInv, LoopTypeOK
  <2>2. ManagerInv' /\ ListenerTypeOK'
    BY <1>5 DEF QueueConn, ListenerInv, ListenerTypeOK, ManagerInv, ManagerTypeOK,
                MapsInverse, managerVars, routes
  <2>3. LoopTypeOK'
    BY <1>5, <2>1 DEF QueueConn, ListenerInv, LoopTypeOK, routes
  <2> QED
    BY <2>2, <2>3 DEF ListenerInv
<1>6. CASE QueueFull
  <2>1. Holds("queue")
    BY <1>6 DEF QueueFull, ListenerInv, LoopTypeOK
  <2>2. ManagerInv' /\ ListenerTypeOK'
    BY <1>6, <2>1 DEF QueueFull, ListenerInv, ListenerTypeOK, ManagerInv, ManagerTypeOK,
                MapsInverse, managerVars
  <2>3. LoopTypeOK'
    BY <1>6, <2>1 DEF QueueFull, ListenerInv, LoopTypeOK
  <2> QED
    BY <2>2, <2>3 DEF ListenerInv
<1>7. CASE UnregisterSession
  <2>1. Holds("unregister")
    BY <1>7 DEF UnregisterSession, ListenerInv, LoopTypeOK
  <2>2. lconn[loop.conn].idx \in Indexes
    BY <2>1 DEF ListenerInv, LoopTypeOK
  <2>3. ManagerInv'
    BY <1>7, <2>2, ManagerStep DEF UnregisterSession, ListenerInv, ManagerNext
  <2>4. ListenerTypeOK'
    BY <1>7 DEF UnregisterSession, ListenerInv, ListenerTypeOK, routes
  <2>5. LoopTypeOK'
    BY <1>7, <2>1 DEF UnregisterSession, ListenerInv, LoopTypeOK, routes
  <2> QED
    BY <2>3, <2>4, <2>5 DEF ListenerInv
<1>8. CASE DropConn
  <2>1. Holds("drop")
    BY <1>8 DEF DropConn, ListenerInv, LoopTypeOK
  <2>2. ManagerInv' /\ ListenerTypeOK'
    <3>1. UNCHANGED <<byIndex, byPubkey, nextIndex, lconns, nconns, taken, lclose>>
      BY <1>8 DEF DropConn, managerVars
    <3>2. ManagerInv'
      BY <3>1 DEF ListenerInv, ManagerInv, ManagerTypeOK, MapsInverse
    <3> QED
      BY <3>1, <3>2 DEF ListenerInv, ListenerTypeOK
  <2>3. lconn' \in [ConnIds -> LoopConn]
    <3> DEFINE mid == [lconn EXCEPT ![loop.conn].inboundClosed = TRUE]
    <3>1. mid \in [ConnIds -> LoopConn]
      <4>1. lconn \in [ConnIds -> LoopConn] /\ loop.conn \in ConnIds
        BY <2>1 DEF ListenerInv, LoopTypeOK
      <4> DEFINE finished == [lconn[loop.conn] EXCEPT !.inboundClosed = TRUE]
      <4>2. finished \in LoopConn
        BY <4>1
      <4>3. mid = [lconn EXCEPT ![loop.conn] = finished]
        BY <4>1
      <4> HIDE DEF finished
      <4> QED
        BY <4>1, <4>2, <4>3
    <3>2. lconn' = [mid EXCEPT ![loop.conn].open = FALSE]
      BY <1>8 DEF DropConn
    <3> HIDE DEF mid
    <3> QED
      BY <2>1, <3>1, <3>2
  <2>4. loop' = Reading /\ ready' = ready
    BY <1>8 DEF DropConn
  <2>5. LoopTypeOK'
    BY <2>3, <2>4 DEF ListenerInv, LoopTypeOK
  <2> QED
    BY <2>2, <2>5 DEF ListenerInv
<1>9. CASE DeliverCheck \/ DeliverSend
  <2>1. loop \in [at : LoopAt, conn : ConnIds]
    BY <1>9 DEF DeliverCheck, DeliverSend, ListenerInv, LoopTypeOK
  <2>2. ManagerInv' /\ ListenerTypeOK'
    BY <1>9 DEF DeliverCheck, DeliverSend, ListenerInv, ListenerTypeOK, ManagerInv,
                ManagerTypeOK, MapsInverse, managerVars, routes
  <2>3. LoopTypeOK'
    BY <1>9, <2>1 DEF DeliverCheck, DeliverSend, ListenerInv, LoopTypeOK, routes
  <2> QED
    BY <2>2, <2>3 DEF ListenerInv
<1> QED
  BY <1>1, <1>2, <1>3, <1>4, <1>5, <1>6, <1>7, <1>8, <1>9 DEF LoopNext

(* The application's calls keep the invariant. *)
LEMMA ListenerStep ==
  ASSUME ListenerInv, ListenerNext
  PROVE  ListenerInv'
<1> USE SessionManagerAssumption, ListenerAssumption
<1> USE DEF ConnIds, NoConn, LoopConn, LoopAt, Reading
<1>1. CASE LoopNext
  BY <1>1, LoopStep
<1>2. CASE ListenerAccept
  <2>1. Head(ready) \in ConnIds /\ Tail(ready) \in Seq(ConnIds)
    BY <1>2 DEF ListenerAccept, ListenerInv, LoopTypeOK
  <2>2. ManagerInv' /\ ListenerTypeOK'
    <3>1. UNCHANGED <<byIndex, byPubkey, nextIndex, lconns, nconns, lclose>>
          /\ taken' \subseteq ConnIds
      BY <1>2, <2>1 DEF ListenerAccept, ListenerInv, ListenerTypeOK, managerVars, routes
    <3>2. ManagerInv'
      BY <3>1 DEF ListenerInv, ManagerInv, ManagerTypeOK, MapsInverse
    <3> QED
      BY <3>1, <3>2 DEF ListenerInv, ListenerTypeOK
  <2>3. LoopTypeOK'
    BY <1>2, <2>1 DEF ListenerAccept, ListenerInv, LoopTypeOK, routes
  <2> QED
    BY <2>2, <2>3 DEF ListenerInv
<1>3. CASE UseManager
  <2>1. ManagerInv'
    BY <1>3, ManagerStep DEF UseManager, ListenerInv
  <2> QED
    BY <1>3, <2>1 DEF UseManager, ListenerInv, LoopTypeOK, ListenerTypeOK, routes
<1>4. ASSUME NEW c \in ConnIds, ConnClose(c)
      PROVE  ListenerInv'
  <2>1. ManagerInv' /\ ListenerTypeOK'
    BY <1>4 DEF ConnClose, ListenerInv, ListenerTypeOK, ManagerInv, ManagerTypeOK,
                MapsInverse, managerVars
  <2>2. lconn' \in [ConnIds -> LoopConn]
    BY <1>4 DEF ConnClose, ListenerInv, LoopTypeOK
  <2>3. \A d \in ConnIds : lconn'[d].key = lconn[d].key
    BY <1>4 DEF ConnClose, ListenerInv, LoopTypeOK
  <2>4. LoopTypeOK'
    BY <1>4, <2>2, <2>3 DEF ConnClose, ListenerInv, LoopTypeOK
  <2> QED
    BY <2>1, <2>4 DEF ListenerInv
<1>5. ASSUME NEW i \in Indexes, RemoveConn(i)
      PROVE  ListenerInv'
  BY <1>5 DEF RemoveConn, ListenerInv, LoopTypeOK, ListenerTypeOK, ManagerInv,
              ManagerTypeOK, MapsInverse, managerVars
<1>6. ASSUME NEW i \in Indexes, CloseInbound(i) \/ CloseConn(i)
      PROVE  ListenerInv'
  <2>1. lconns[i] \in ConnIds
    BY <1>6 DEF CloseInbound, CloseConn, Routed, ListenerInv, ListenerTypeOK
  <2>2. ManagerInv' /\ ListenerTypeOK'
    BY <1>6, <2>1 DEF CloseInbound, CloseConn, ListenerInv, ListenerTypeOK,
              ManagerInv, ManagerTypeOK, MapsInverse, managerVars
  <2>3. \/ lconn' = [lconn EXCEPT ![lconns[i]].inboundClosed = TRUE]
        \/ lconn' = [lconn EXCEPT ![lconns[i]].open = FALSE]
    BY <1>6 DEF CloseInbound, CloseConn
  <2>4. lconn' \in [ConnIds -> LoopConn] /\ \A d \in ConnIds : lconn'[d].key = lconn[d].key
    <3>1. lconn \in [ConnIds -> LoopConn]
      BY DEF ListenerInv, LoopTypeOK
    <3>2. CASE lconn' = [lconn EXCEPT ![lconns[i]].inboundClosed = TRUE]
      BY <2>1, <3>1, <3>2
    <3>3. CASE lconn' = [lconn EXCEPT ![lconns[i]].open = FALSE]
      BY <2>1, <3>1, <3>3
    <3> QED
      BY <2>3, <3>2, <3>3
  <2>5. LoopTypeOK'
    BY <1>6, <2>4 DEF CloseInbound, CloseConn, ListenerInv, LoopTypeOK
  <2> QED
    BY <2>2, <2>5 DEF ListenerInv
<1>7. CASE ListenerClose \/ ListenerCloseDone
  <2>1. ManagerInv' /\ ListenerTypeOK'
    <3>1. /\ UNCHANGED <<byIndex, byPubkey, nextIndex, lconns, nconns, taken>>
          /\ lclose' \in {"inbound", "done"}
      BY <1>7 DEF ListenerClose, ListenerCloseDone, managerVars, routes
    <3>2. ManagerInv'
      BY <3>1 DEF ListenerInv, ManagerInv, ManagerTypeOK, MapsInverse
    <3>3. ListenerTypeOK'
      BY <3>1 DEF ListenerInv, ListenerTypeOK
    <3> QED
      BY <3>2, <3>3
  <2>2. LoopTypeOK'
    BY <1>7 DEF ListenerClose, ListenerCloseDone, ListenerInv, LoopTypeOK, routes
  <2> QED
    BY <2>1, <2>2 DEF ListenerInv
<1> QED
  BY <1>1, <1>2, <1>3, <1>4, <1>5, <1>6, <1>7 DEF ListenerNext

(* The same inside the listener, whose receive loop registers and removes sessions
   one lock at a time while the application uses the manager: no interleaving leaves
   an index or a key that leads to a session the other map has given up. *)
THEOREM ListenerMapsInverse == ListenerSpec => [](MapsInverse /\ ListenerTypeOK)
<1>1. ListenerInit => ListenerInv
  <2> USE SessionManagerAssumption, ListenerAssumption
  <2>1. ListenerInit => ListenerTypeOK
    BY DEF ListenerInit, ListenerTypeOK, ConnIds, NoConn
  <2>2. 1 \in Indexes
    BY DEF Indexes
  <2>3. ListenerInit => LoopTypeOK
    BY <2>2 DEF ListenerInit, LoopTypeOK, LoopConn, LoopAt, Reading, ConnIds
  <2> QED
    BY ManagerStart, <2>1, <2>3 DEF ListenerInit, ListenerInv
<1>2. ListenerInv /\ [ListenerNext]_listenerVars => ListenerInv'
  <2>1. ListenerInv /\ UNCHANGED listenerVars => ListenerInv'
    BY DEF listenerVars, managerVars, routes, ListenerInv, LoopTypeOK, ListenerTypeOK,
           ManagerInv, ManagerTypeOK, MapsInverse, Routed, LoopAt, LoopConn
  <2> QED
    BY <2>1, ListenerStep
<1>3. ListenerInv => MapsInverse /\ ListenerTypeOK
  BY DEF ListenerInv, ManagerInv
<1> QED
  BY <1>1, <1>2, <1>3, PTL DEF ListenerSpec

-----------------------------------------------------------------------------
(* The point-to-point connection.  Each handshake that was made and may still
   become a session has one holder: the Conn, as the pending one; Recv, that
   answered an initiation; the tick; or the background rekey. *)

(* The goroutines' locals *)
LocalsTyped ==
  /\ recver.at = "response" => recver.hs \in Handshakes /\ recver.idx \in 1 .. MaxId
  /\ recver.at = "init" => recver.hs \in Handshakes
  /\ ticker.at \in {"install", "reinstall"} => ticker.hs \in Handshakes
  /\ ticker.at = "resend" => ticker.idx \in 1 .. MaxId
  /\ rekeyer.at = "install" => rekeyer.hs \in Handshakes
  /\ rekeyer.at # "reinstall"
  /\ \A m \in wire : m.hs \in Handshakes /\ m.idx \in 1 .. MaxId
  /\ lastId \in 1 .. MaxId

(* What goroutine p, the tick or the background rekey, has sent and not installed *)
SentBy(p) == IF p.at \in {"install", "reinstall"} THEN p.hs ELSE NoHs

(* What Recv has answered and not installed *)
AnsweredBy(p) == IF p.at = "init" THEN p.hs ELSE NoHs

(* A handshake that has no session yet *)
Unspent(h) == h <= lastId /\ h \notin used

OneHolder ==
  /\ \A h \in used : h \in Handshakes /\ h <= lastId
  /\ hsState # NoHs => Unspent(hsState)
  /\ AnsweredBy(recver) # NoHs => Unspent(AnsweredBy(recver))
  /\ SentBy(ticker) # NoHs => Unspent(SentBy(ticker))
  /\ SentBy(rekeyer) # NoHs => Unspent(SentBy(rekeyer))
  /\ hsState # NoHs => hsState \notin {AnsweredBy(recver), SentBy(ticker), SentBy(rekeyer)}
  /\ AnsweredBy(recver) # NoHs => AnsweredBy(recver) \notin {SentBy(ticker), SentBy(rekeyer)}
  /\ SentBy(ticker) # NoHs => SentBy(ticker) # SentBy(rekeyer)

ConnInv == ConnTypeOK /\ LocalsTyped /\ OneHolder /\ EstablishedHasCurrent

(* An initiation on the wire is never sent again under another index, and what Recv
   goes on with is a response to one under the index it copied *)
Indexed ==
  /\ \A m, n \in wire : m.hs = n.hs => m.idx = n.idx
  /\ \A m \in wire : m.hs <= lastId
  /\ recver.at = "response" /\ recver.answers = recver.hs
       => \E m \in wire : m.hs = recver.hs /\ m.idx = recver.idx
  /\ recver.at = "init" => \A m \in wire : m.hs # recver.hs
  /\ dialer = "start" => wire = {}
  /\ dialer \in {"send", "wait"} => \A m \in wire : m.idx = localIdx
  /\ ~InUse => recver.at = "idle" /\ ticker.at = "idle" /\ rekeyer.at = "idle"

(* What HandshakesNotMixed says of one step: of the handshakes that were used, and of
   the index *)
NewSession == <<current, previous>>' # <<current, previous>> /\ current' # NoSession

NotMixed == NewSession => current'.key \notin used

IndexKept == NewSession => \A m \in wire : m.hs = current'.key => m.idx = current'.local

LEMMA ConnStart == newConn => ConnInv
BY CoreConnAssumption DEF newConn, ConnInv, ConnTypeOK, LocalsTyped, OneHolder, EstablishedHasCurrent,
   FirstIdx, AtRest, SentBy, AnsweredBy, Unspent, NoHs, NoSession, Handshakes

(* A session is never NoSession: its key is a handshake *)
LEMMA SessionIsNew ==
  ASSUME NEW i \in 1 .. MaxId, NEW h \in Handshakes
  PROVE  [local |-> i, key |-> h] \in Session /\ [local |-> i, key |-> h] # NoSession
BY CoreConnAssumption DEF Session, NoSession, Handshakes

(* A new handshake is nobody's, and what was made before it stays below it *)
LEMMA FreshIsNobodys ==
  ASSUME ConnInv, NEW h \in Handshakes, Fresh(h)
  PROVE  /\ h \notin used
         /\ h \notin {hsState, AnsweredBy(recver), SentBy(ticker), SentBy(rekeyer)}
         /\ lastId' = h /\ h # NoHs
         /\ \A k \in used : k <= h
         /\ \A k \in {hsState, AnsweredBy(recver), SentBy(ticker), SentBy(rekeyer)} : k <= h
<1>1. h = lastId + 1 /\ lastId' = h /\ lastId \in Nat /\ lastId >= 1
  BY DEF Fresh, ConnInv, LocalsTyped
<1>2. \A k \in used : k <= lastId
  BY DEF ConnInv, OneHolder
<1>3. used \subseteq Int
  BY DEF ConnInv, OneHolder, Handshakes
<1>4. ASSUME NEW k \in {hsState, AnsweredBy(recver), SentBy(ticker), SentBy(rekeyer)}
      PROVE  k <= lastId /\ k \in Int
  BY <1>1 DEF ConnInv, ConnTypeOK, LocalsTyped, OneHolder, SentBy, AnsweredBy, Unspent, Handshakes, NoHs
<1> QED
  BY <1>1, <1>2, <1>3, <1>4 DEF NoHs

LEMMA DialStep ==
  ASSUME ConnInv, DialNext
  PROVE  ConnInv' /\ NotMixed
<1> USE CoreConnAssumption
<1>1. CASE DialStart
  BY <1>1 DEF DialStart, ConnInv, ConnTypeOK, LocalsTyped, OneHolder, EstablishedHasCurrent, NotMixed, NewSession,
     SentBy, AnsweredBy, Unspent, NoHs
<1>2. CASE DialTimeout
  BY <1>2 DEF DialTimeout, sessionVars, ConnInv, ConnTypeOK, LocalsTyped, OneHolder, EstablishedHasCurrent, NotMixed, NewSession,
     SentBy, AnsweredBy, Unspent, NoHs
<1>3. CASE DialFails
  BY <1>3 DEF DialFails, ConnCloseState, ConnInv, ConnTypeOK, LocalsTyped, OneHolder, EstablishedHasCurrent, NotMixed, NewSession,
     SentBy, AnsweredBy, Unspent, NoHs
<1>4. ASSUME NEW h \in Handshakes, DialSend(h)
      PROVE  ConnInv' /\ NotMixed
  <2>1. ConnTypeOK' /\ EstablishedHasCurrent' /\ LocalsTyped'
    BY <1>4 DEF DialSend, Fresh, ConnInv, ConnTypeOK, LocalsTyped, EstablishedHasCurrent, Handshakes
  <2>2. OneHolder'
    <3>1. Fresh(h) /\ used' = used /\ hsState' = h
      BY <1>4 DEF DialSend
    <3>2. AnsweredBy(recver)' = AnsweredBy(recver) /\ SentBy(ticker)' = SentBy(ticker) /\ SentBy(rekeyer)' = SentBy(rekeyer)
      BY <1>4 DEF DialSend, AnsweredBy, SentBy
    <3> QED
      BY <3>1, <3>2, FreshIsNobodys DEF ConnInv, OneHolder, Unspent, Handshakes
  <2>3. NotMixed
    BY <1>4 DEF DialSend, NotMixed, NewSession
  <2> QED
    BY <2>1, <2>2, <2>3 DEF ConnInv
<1>5. ASSUME NEW h \in Handshakes, accept(h)
      PROVE  ConnInv' /\ NotMixed
  <2>1. current' \in Session /\ current' # NoSession /\ current'.key = h
    BY <1>5, SessionIsNew DEF accept, Rotate, ConnInv, ConnTypeOK
  <2>2. previous' \in Session \cup {NoSession}
    BY <1>5 DEF accept, Rotate, ConnInv, ConnTypeOK
  <2>3. used' = used \cup {h} /\ h = lastId + 1 /\ lastId' = h /\ h \notin used
    BY <1>5 DEF accept, Rotate, Fresh, ConnInv, OneHolder, LocalsTyped
  <2>4. ConnTypeOK' /\ EstablishedHasCurrent' /\ LocalsTyped'
    BY <1>5, <2>1, <2>2 DEF accept, Rotate, Fresh, ConnInv, ConnTypeOK, LocalsTyped,
       EstablishedHasCurrent, Handshakes
  <2>5. OneHolder'
    <3>1. Fresh(h) /\ used' = used \cup {h} /\ hsState' = hsState
      BY <1>5, <2>3 DEF accept
    <3>2. AnsweredBy(recver)' = AnsweredBy(recver) /\ SentBy(ticker)' = SentBy(ticker) /\ SentBy(rekeyer)' = SentBy(rekeyer)
      BY <1>5 DEF accept, AnsweredBy, SentBy
    <3> QED
      BY <3>1, <3>2, FreshIsNobodys DEF ConnInv, OneHolder, Unspent, Handshakes
  <2>6. NotMixed
    BY <1>5, <2>1, <2>3 DEF accept, NotMixed, NewSession
  <2> QED
    BY <2>4, <2>5, <2>6 DEF ConnInv
<1>6. ASSUME NEW m \in wire, DialResponse(m)
      PROVE  ConnInv' /\ NotMixed
  <2>0. hsState \in Handshakes /\ hsState # NoHs
    BY <1>6 DEF DialResponse, ConnInv, LocalsTyped, Handshakes, NoHs
  <2>1. current' \in Session /\ current' # NoSession /\ current'.key = hsState
    BY <1>6, <2>0, SessionIsNew DEF DialResponse, Rotate, ConnInv, ConnTypeOK
  <2>2. previous' \in Session \cup {NoSession}
    BY <1>6 DEF DialResponse, Rotate, ConnInv, ConnTypeOK
  <2>3. used' = used \cup {hsState}
    BY <1>6 DEF DialResponse, Rotate
  <2>4. ConnTypeOK' /\ EstablishedHasCurrent' /\ LocalsTyped'
    BY <1>6, <2>1, <2>2 DEF DialResponse, Rotate, ConnInv, ConnTypeOK, LocalsTyped,
       EstablishedHasCurrent
  <2>5. OneHolder'
    BY <1>6, <2>0, <2>3 DEF DialResponse, ConnInv, LocalsTyped, OneHolder, SentBy, AnsweredBy, Unspent, NoHs
  <2>6. NotMixed
    BY <1>6, <2>0, <2>1 DEF DialResponse, ConnInv, OneHolder, Unspent, NotMixed, NewSession
  <2> QED
    BY <2>4, <2>5, <2>6 DEF ConnInv
<1> QED
  BY <1>1, <1>2, <1>3, <1>4, <1>5, <1>6 DEF DialNext

(* Recv: what is copied, answered and installed *)
LEMMA RecvStep ==
  ASSUME ConnInv, RecvNext
  PROVE  ConnInv' /\ NotMixed
<1> USE CoreConnAssumption
<1>1. CASE RecvCall \/ handleTransportMessage
  <2>1. /\ UNCHANGED <<sessionVars, ticker, lastId, wire, used>>
        /\ recver'.at \in {"read", "idle"}
        /\ rekeyer' = rekeyer \/ rekeyer' = [at |-> "check"]
    BY <1>1 DEF RecvCall, handleTransportMessage, AtRest
  <2>2. AnsweredBy(recver)' = NoHs /\ SentBy(ticker)' = SentBy(ticker)
    BY <2>1 DEF AnsweredBy, SentBy
  <2>3. SentBy(rekeyer)' \in {SentBy(rekeyer), NoHs}
    BY <2>1 DEF SentBy
  <2>4. LocalsTyped' /\ ConnTypeOK' /\ EstablishedHasCurrent' /\ NotMixed
    BY <2>1 DEF sessionVars, ConnInv, ConnTypeOK, LocalsTyped, EstablishedHasCurrent, NotMixed, NewSession
  <2>5. OneHolder'
    BY <2>1, <2>2, <2>3 DEF sessionVars, ConnInv, OneHolder, Unspent
  <2> QED
    BY <2>4, <2>5 DEF ConnInv
<1>2. CASE ResponseFails
  BY <1>2 DEF ResponseFails, resetHandshakeState, AtRest, ConnInv, ConnTypeOK, LocalsTyped, OneHolder,
     EstablishedHasCurrent, NotMixed, NewSession, SentBy, AnsweredBy, Unspent, NoHs
<1>3. CASE ResponseInstall
  <2>1. recver.hs \in Handshakes /\ recver.idx \in 1 .. MaxId /\ recver.hs # NoHs
    BY <1>3 DEF ResponseInstall, ConnInv, LocalsTyped, Handshakes, NoHs
  <2>2. /\ UNCHANGED <<dialer, ticker, rekeyer, lastId, wire>>
        /\ recver'.at = "idle"
    BY <1>3 DEF ResponseInstall, AtRest
  <2>3. LocalsTyped'
    BY <2>2 DEF ConnInv, LocalsTyped
  <2>4. AnsweredBy(recver)' = NoHs /\ SentBy(ticker)' = SentBy(ticker) /\ SentBy(rekeyer)' = SentBy(rekeyer)
    BY <2>2 DEF AnsweredBy, SentBy
  <2>5. CASE hsState # recver.hs
    BY <1>3, <2>2, <2>3, <2>4, <2>5 DEF ResponseInstall, sessionVars, ConnInv, ConnTypeOK,
       OneHolder, EstablishedHasCurrent, NotMixed, NewSession, Unspent
  <2>6. CASE hsState = recver.hs
    <3>1. /\ current' = [local |-> recver.idx, key |-> recver.hs]
          /\ previous' \in {current, previous}
          /\ used' = used \cup {recver.hs}
          /\ cstate' = "established" /\ hsState' = NoHs
          /\ UNCHANGED <<localIdx, pendingPackets>>
      BY <1>3, <2>6 DEF ResponseInstall, Rotate
    <3>2. current' \in Session /\ current' # NoSession /\ current'.key = recver.hs
      BY <2>1, <3>1, SessionIsNew
    <3>3. ConnTypeOK' /\ EstablishedHasCurrent'
      BY <3>1, <3>2 DEF ConnInv, ConnTypeOK, EstablishedHasCurrent
    <3>4. OneHolder'
      BY <2>1, <2>2, <2>4, <2>6, <3>1 DEF ConnInv, OneHolder, Unspent
    <3>5. NotMixed
      BY <2>1, <2>6, <3>1, <3>2 DEF ConnInv, OneHolder, Unspent, NotMixed, NewSession
    <3> QED
      BY <2>3, <3>3, <3>4, <3>5 DEF ConnInv
  <2> QED
    BY <2>5, <2>6
<1>4. CASE InitInstall
  <2>1. recver.hs \in Handshakes /\ recver.hs # NoHs /\ AnsweredBy(recver) = recver.hs
    BY <1>4 DEF InitInstall, ConnInv, LocalsTyped, AnsweredBy, Handshakes, NoHs
  <2>2. /\ UNCHANGED <<hsState, pendingPackets, dialer, ticker, rekeyer, lastId, wire>>
        /\ recver'.at = "idle"
        /\ current' = [local |-> recver.hs, key |-> recver.hs]
        /\ previous' \in {current, previous}
        /\ used' = used \cup {recver.hs}
        /\ cstate' = "established" /\ localIdx' = recver.hs
    BY <1>4 DEF InitInstall, Rotate, AtRest
  <2>3. recver.hs \in 1 .. MaxId
    BY <2>1 DEF Handshakes
  <2>4. current' \in Session /\ current' # NoSession /\ current'.key = recver.hs
    BY <2>1, <2>2, <2>3, SessionIsNew
  <2>5. ConnTypeOK' /\ EstablishedHasCurrent' /\ LocalsTyped'
    BY <2>2, <2>3, <2>4 DEF ConnInv, ConnTypeOK, EstablishedHasCurrent, LocalsTyped
  <2>6. AnsweredBy(recver)' = NoHs /\ SentBy(ticker)' = SentBy(ticker) /\ SentBy(rekeyer)' = SentBy(rekeyer)
    BY <2>2 DEF AnsweredBy, SentBy
  <2>7. OneHolder'
    BY <2>1, <2>2, <2>6 DEF ConnInv, OneHolder, Unspent
  <2>8. NotMixed
    BY <2>1, <2>2, <2>4 DEF ConnInv, OneHolder, Unspent, NotMixed, NewSession
  <2> QED
    BY <2>5, <2>7, <2>8 DEF ConnInv
<1>5. ASSUME NEW m \in Responses, ResponseCopy(m)
      PROVE  ConnInv' /\ NotMixed
  <2>1. /\ UNCHANGED <<sessionVars, dialer, ticker, rekeyer, lastId, wire, used>>
        /\ \/ recver'.at = "idle"
           \/ recver'.at = "response" /\ recver'.hs = hsState /\ recver'.idx = localIdx /\ hsState # NoHs
    BY <1>5 DEF ResponseCopy, AtRest
  <2>2. AnsweredBy(recver)' = NoHs /\ SentBy(ticker)' = SentBy(ticker) /\ SentBy(rekeyer)' = SentBy(rekeyer)
    BY <2>1 DEF AnsweredBy, SentBy
  <2>3. LocalsTyped' /\ ConnTypeOK' /\ EstablishedHasCurrent' /\ NotMixed
    BY <2>1 DEF sessionVars, ConnInv, ConnTypeOK, LocalsTyped, EstablishedHasCurrent, NotMixed, NewSession
  <2>4. OneHolder'
    BY <2>1, <2>2 DEF sessionVars, ConnInv, OneHolder, Unspent
  <2> QED
    BY <2>3, <2>4 DEF ConnInv
<1>6. ASSUME NEW h \in Handshakes, InitAnswer(h)
      PROVE  ConnInv' /\ NotMixed
  <2>1. /\ UNCHANGED <<sessionVars, dialer, ticker, rekeyer, wire, used>>
        /\ recver'.at = "init" /\ recver'.hs = h /\ Fresh(h)
    BY <1>6 DEF InitAnswer
  <2>2. AnsweredBy(recver)' = h /\ SentBy(ticker)' = SentBy(ticker) /\ SentBy(rekeyer)' = SentBy(rekeyer)
    BY <2>1 DEF AnsweredBy, SentBy
  <2>3. LocalsTyped' /\ ConnTypeOK' /\ EstablishedHasCurrent' /\ NotMixed
    BY <2>1 DEF sessionVars, ConnInv, ConnTypeOK, LocalsTyped, EstablishedHasCurrent, NotMixed, NewSession, Fresh, Handshakes
  <2>4. OneHolder'
    BY <2>1, <2>2, FreshIsNobodys DEF sessionVars, ConnInv, OneHolder, Unspent, Handshakes
  <2> QED
    BY <2>3, <2>4 DEF ConnInv
<1> QED
  BY <1>1, <1>2, <1>3, <1>4, <1>5, <1>6 DEF RecvNext

(* initiateRekey, run by the tick *)
LEMMA TickRekeyStep ==
  ASSUME ConnInv, initiateRekey(ticker), UNCHANGED <<dialer, recver, rekeyer, used>>
  PROVE  ConnInv' /\ NotMixed
<1> USE CoreConnAssumption
<1>1. CASE RekeyCheck(ticker) \/ RekeySendFails(ticker)
  <2>1. UNCHANGED <<sessionVars, lastId, wire>> /\ ticker'.at \in {"idle", "send"}
    BY <1>1 DEF RekeyCheck, RekeySendFails, AtRest
  <2>2. /\ AnsweredBy(recver)' = AnsweredBy(recver)
        /\ SentBy(ticker)' = NoHs /\ SentBy(rekeyer)' = SentBy(rekeyer)
    BY <2>1 DEF AnsweredBy, SentBy
  <2>3. LocalsTyped' /\ ConnTypeOK' /\ EstablishedHasCurrent' /\ NotMixed
    BY <2>1 DEF sessionVars, ConnInv, ConnTypeOK, LocalsTyped, EstablishedHasCurrent, NotMixed, NewSession
  <2>4. OneHolder'
    BY <2>1, <2>2 DEF sessionVars, ConnInv, OneHolder, Unspent
  <2> QED
    BY <2>3, <2>4 DEF ConnInv
<1>2. CASE RekeyInstall(ticker)
  <2>1. /\ UNCHANGED <<lastId, wire, cstate, current, previous, pendingPackets>>
        /\ ticker'.at = "idle" /\ SentBy(ticker) = ticker.hs /\ ticker.hs \in Handshakes
        /\ \/ hsState' = hsState /\ localIdx' = localIdx
           \/ hsState = NoHs /\ hsState' = ticker.hs /\ localIdx' = ticker.hs
    BY <1>2 DEF RekeyInstall, sessionVars, AtRest, SentBy, ConnInv, LocalsTyped
  <2>2. /\ AnsweredBy(recver)' = AnsweredBy(recver)
        /\ SentBy(ticker)' = NoHs /\ SentBy(rekeyer)' = SentBy(rekeyer)
    BY <2>1 DEF AnsweredBy, SentBy
  <2>3. LocalsTyped' /\ ConnTypeOK' /\ EstablishedHasCurrent' /\ NotMixed
    BY <2>1 DEF ConnInv, ConnTypeOK, LocalsTyped, EstablishedHasCurrent, NotMixed, NewSession, Handshakes
  <2>4. OneHolder'
    BY <2>1, <2>2 DEF ConnInv, OneHolder, Unspent
  <2> QED
    BY <2>3, <2>4 DEF ConnInv
<1>3. ASSUME NEW h \in Handshakes, RekeySend(ticker, h)
      PROVE  ConnInv' /\ NotMixed
  <2>1. /\ UNCHANGED sessionVars /\ Fresh(h)
        /\ wire' = wire \cup {[hs |-> h, idx |-> h]}
        /\ ticker'.at = "install" /\ ticker'.hs = h
    BY <1>3 DEF RekeySend
  <2>2. /\ AnsweredBy(recver)' = AnsweredBy(recver)
        /\ SentBy(ticker)' = h /\ SentBy(rekeyer)' = SentBy(rekeyer)
    BY <2>1 DEF AnsweredBy, SentBy
  <2>3. LocalsTyped' /\ ConnTypeOK' /\ EstablishedHasCurrent' /\ NotMixed
    BY <2>1 DEF sessionVars, ConnInv, ConnTypeOK, LocalsTyped, EstablishedHasCurrent, NotMixed, NewSession, Fresh, Handshakes
  <2>4. OneHolder'
    BY <2>1, <2>2, FreshIsNobodys DEF sessionVars, ConnInv, OneHolder, Unspent, Handshakes
  <2> QED
    BY <2>3, <2>4 DEF ConnInv
<1> QED
  BY <1>1, <1>2, <1>3 DEF initiateRekey

(* initiateRekey, run in the background for a received packet *)
LEMMA BackgroundRekeyStep ==
  ASSUME ConnInv, initiateRekey(rekeyer), UNCHANGED <<dialer, recver, ticker, used>>
  PROVE  ConnInv' /\ NotMixed
<1> USE CoreConnAssumption
<1>1. CASE RekeyCheck(rekeyer) \/ RekeySendFails(rekeyer)
  <2>1. UNCHANGED <<sessionVars, lastId, wire>> /\ rekeyer'.at \in {"idle", "send"}
    BY <1>1 DEF RekeyCheck, RekeySendFails, AtRest
  <2>2. /\ AnsweredBy(recver)' = AnsweredBy(recver)
        /\ SentBy(rekeyer)' = NoHs /\ SentBy(ticker)' = SentBy(ticker)
    BY <2>1 DEF AnsweredBy, SentBy
  <2>3. LocalsTyped' /\ ConnTypeOK' /\ EstablishedHasCurrent' /\ NotMixed
    BY <2>1 DEF sessionVars, ConnInv, ConnTypeOK, LocalsTyped, EstablishedHasCurrent, NotMixed, NewSession
  <2>4. OneHolder'
    BY <2>1, <2>2 DEF sessionVars, ConnInv, OneHolder, Unspent
  <2> QED
    BY <2>3, <2>4 DEF ConnInv
<1>2. CASE RekeyInstall(rekeyer)
  <2>1. /\ UNCHANGED <<lastId, wire, cstate, current, previous, pendingPackets>>
        /\ rekeyer'.at = "idle" /\ SentBy(rekeyer) = rekeyer.hs /\ rekeyer.hs \in Handshakes
        /\ \/ hsState' = hsState /\ localIdx' = localIdx
           \/ hsState = NoHs /\ hsState' = rekeyer.hs /\ localIdx' = rekeyer.hs
    BY <1>2 DEF RekeyInstall, sessionVars, AtRest, SentBy, ConnInv, LocalsTyped
  <2>2. /\ AnsweredBy(recver)' = AnsweredBy(recver)
        /\ SentBy(rekeyer)' = NoHs /\ SentBy(ticker)' = SentBy(ticker)
    BY <2>1 DEF AnsweredBy, SentBy
  <2>3. LocalsTyped' /\ ConnTypeOK' /\ EstablishedHasCurrent' /\ NotMixed
    BY <2>1 DEF ConnInv, ConnTypeOK, LocalsTyped, EstablishedHasCurrent, NotMixed, NewSession, Handshakes
  <2>4. OneHolder'
    BY <2>1, <2>2 DEF ConnInv, OneHolder, Unspent
  <2> QED
    BY <2>3, <2>4 DEF ConnInv
<1>3. ASSUME NEW h \in Handshakes, RekeySend(rekeyer, h)
      PROVE  ConnInv' /\ NotMixed
  <2>1. /\ UNCHANGED sessionVars /\ Fresh(h)
        /\ wire' = wire \cup {[hs |-> h, idx |-> h]}
        /\ rekeyer'.at = "install" /\ rekeyer'.hs = h
    BY <1>3 DEF RekeySend
  <2>2. /\ AnsweredBy(recver)' = AnsweredBy(recver)
        /\ SentBy(rekeyer)' = h /\ SentBy(ticker)' = SentBy(ticker)
    BY <2>1 DEF AnsweredBy, SentBy
  <2>3. LocalsTyped' /\ ConnTypeOK' /\ EstablishedHasCurrent' /\ NotMixed
    BY <2>1 DEF sessionVars, ConnInv, ConnTypeOK, LocalsTyped, EstablishedHasCurrent, NotMixed, NewSession, Fresh, Handshakes
  <2>4. OneHolder'
    BY <2>1, <2>2, FreshIsNobodys DEF sessionVars, ConnInv, OneHolder, Unspent, Handshakes
  <2> QED
    BY <2>3, <2>4 DEF ConnInv
<1> QED
  BY <1>1, <1>2, <1>3 DEF initiateRekey

(* The tick: cleaning up and retransmitting on a decision that may be stale *)
LEMMA TickStep ==
  ASSUME ConnInv, TickNext
  PROVE  ConnInv' /\ NotMixed
<1> USE CoreConnAssumption
<1>1. CASE doTick \/ RetransmitCopy \/ RetransmitFails
  <2>1. /\ UNCHANGED <<sessionVars, dialer, recver, rekeyer, lastId, wire, used>>
        /\ ticker'.at \in {"cleanup", "copy", "check", "idle", "resend"}
        /\ ticker'.at = "resend" => ticker'.idx = localIdx
    BY <1>1 DEF doTick, TickCleanup, TickRetransmit, TickRekey, RetransmitCopy, RetransmitFails, AtRest
  <2>2. /\ AnsweredBy(recver)' = AnsweredBy(recver)
        /\ SentBy(ticker)' = NoHs /\ SentBy(rekeyer)' = SentBy(rekeyer)
    BY <2>1 DEF AnsweredBy, SentBy
  <2>3. LocalsTyped' /\ ConnTypeOK' /\ EstablishedHasCurrent' /\ NotMixed
    BY <2>1 DEF sessionVars, ConnInv, ConnTypeOK, LocalsTyped, EstablishedHasCurrent, NotMixed, NewSession
  <2>4. OneHolder'
    BY <2>1, <2>2 DEF sessionVars, ConnInv, OneHolder, Unspent
  <2> QED
    BY <2>3, <2>4 DEF ConnInv
<1>2. CASE cleanupSessions
  BY <1>2 DEF cleanupSessions, AtRest, ConnInv, ConnTypeOK, LocalsTyped, OneHolder,
     EstablishedHasCurrent, NotMixed, NewSession, SentBy, AnsweredBy, Unspent, NoHs
<1>3. CASE initiateRekey(ticker) /\ UNCHANGED <<dialer, recver, rekeyer, used>>
  BY <1>3, TickRekeyStep
<1>4. CASE RetransmitInstall
  <2>1. /\ UNCHANGED <<cstate, localIdx, current, previous, pendingPackets, recver, rekeyer, lastId, wire, used>>
        /\ ticker'.at = "idle" /\ SentBy(ticker) = ticker.hs /\ ticker.hs \in Handshakes
        /\ hsState' \in {hsState, ticker.hs}
    BY <1>4 DEF RetransmitInstall, AtRest, SentBy, ConnInv, LocalsTyped
  <2>2. /\ AnsweredBy(recver)' = AnsweredBy(recver)
        /\ SentBy(ticker)' = NoHs /\ SentBy(rekeyer)' = SentBy(rekeyer)
    BY <2>1 DEF AnsweredBy, SentBy
  <2>3. LocalsTyped' /\ ConnTypeOK' /\ EstablishedHasCurrent' /\ NotMixed
    BY <2>1 DEF ConnInv, ConnTypeOK, LocalsTyped, EstablishedHasCurrent, NotMixed, NewSession
  <2>4. OneHolder'
    BY <2>1, <2>2 DEF ConnInv, OneHolder, Unspent
  <2> QED
    BY <2>3, <2>4 DEF ConnInv
<1>5. ASSUME NEW h \in Handshakes, RetransmitSend(h)
      PROVE  ConnInv' /\ NotMixed
  <2>1. /\ UNCHANGED <<sessionVars, dialer, recver, rekeyer, used>> /\ Fresh(h)
        /\ wire' = wire \cup {[hs |-> h, idx |-> ticker.idx]} /\ ticker.at = "resend"
        /\ ticker'.at = "reinstall" /\ ticker'.hs = h
    BY <1>5 DEF RetransmitSend
  <2>2. /\ AnsweredBy(recver)' = AnsweredBy(recver)
        /\ SentBy(ticker)' = h /\ SentBy(rekeyer)' = SentBy(rekeyer)
    BY <2>1 DEF AnsweredBy, SentBy
  <2>3. LocalsTyped' /\ ConnTypeOK' /\ EstablishedHasCurrent' /\ NotMixed
    BY <2>1 DEF sessionVars, ConnInv, ConnTypeOK, LocalsTyped, EstablishedHasCurrent, NotMixed, NewSession, Fresh, Handshakes
  <2>4. OneHolder'
    BY <2>1, <2>2, FreshIsNobodys DEF sessionVars, ConnInv, OneHolder, Unspent, Handshakes
  <2> QED
    BY <2>3, <2>4 DEF ConnInv
<1> QED
  BY <1>1, <1>2, <1>3, <1>4, <1>5 DEF TickNext

LEMMA ConnStep ==
  ASSUME ConnInv, [ConnNext]_connVars
  PROVE  ConnInv' /\ [NotMixed]_connVars
<1>1. CASE DialNext
  BY <1>1, DialStep
<1>2. CASE RecvNext
  BY <1>2, RecvStep
<1>3. CASE TickNext
  BY <1>3, TickStep
<1>4. CASE initiateRekey(rekeyer) /\ UNCHANGED <<dialer, recver, ticker, used>>
  BY <1>4, BackgroundRekeyStep
<1>5. CASE sendPayload
  BY <1>5, CoreConnAssumption DEF sendPayload, ConnInv, ConnTypeOK, LocalsTyped, OneHolder,
     EstablishedHasCurrent, NotMixed, NewSession, SentBy, AnsweredBy, Unspent, NoHs
<1>6. CASE CoreClose
  BY <1>6, CoreConnAssumption DEF CoreClose, ConnCloseState, ConnInv, ConnTypeOK, LocalsTyped, OneHolder,
     EstablishedHasCurrent, NotMixed, NewSession, SentBy, AnsweredBy, Unspent, NoHs
<1>7. CASE UNCHANGED connVars
  BY <1>7 DEF connVars, sessionVars, ConnInv, ConnTypeOK, LocalsTyped, OneHolder,
     EstablishedHasCurrent, NotMixed, NewSession, SentBy, AnsweredBy, Unspent, NoHs
<1> QED
  BY <1>1, <1>2, <1>3, <1>4, <1>5, <1>6, <1>7 DEF ConnNext

(* The state is well typed, and an established Conn has a session to send with, however Dial, Recv, the tick,
   background rekeys, senders and Close overlap, for any number of handshakes. *)
THEOREM EstablishedConnCanSend == ConnSpec => [](ConnTypeOK /\ EstablishedHasCurrent)
<1>1. newConn => ConnInv
  BY ConnStart
<1>2. ConnInv /\ [ConnNext]_connVars => ConnInv'
  BY ConnStep
<1>3. ConnInv => ConnTypeOK /\ EstablishedHasCurrent
  BY DEF ConnInv
<1> QED
  BY <1>1, <1>2, <1>3, PTL DEF ConnSpec

LEMMA IndexedStart == newConn => Indexed
BY DEF newConn, Indexed, AtRest, InUse

(* A new handshake is sent, by a rekey or a retransmission, under some index *)
LEMMA SentIndexed ==
  ASSUME ConnInv, Indexed, InUse, NEW h \in Handshakes, NEW i, Fresh(h),
         wire' = wire \cup {[hs |-> h, idx |-> i]},
         UNCHANGED <<current, previous, recver, dialer>>
  PROVE  Indexed' /\ IndexKept
<1>1. lastId' = h /\ lastId < h /\ \A m \in wire : m.hs < h
  BY DEF Fresh, ConnInv, LocalsTyped, Indexed, Handshakes
<1>2. recver.at = "init" => recver.hs # h
  BY <1>1 DEF ConnInv, LocalsTyped, OneHolder, AnsweredBy, Unspent, Handshakes, NoHs
<1>3. \A m \in wire : m.hs \in Int
  BY DEF ConnInv, LocalsTyped, Handshakes
<1>4. /\ \A m, n \in wire' : m.hs = n.hs => m.idx = n.idx
      /\ \A m \in wire' : m.hs <= lastId'
      /\ recver.at = "init" => \A m \in wire' : m.hs # recver.hs
  BY <1>1, <1>2, <1>3 DEF Indexed, Handshakes
<1> QED
  BY <1>4 DEF Indexed, IndexKept, NewSession, InUse

(* A step of a rekey, the tick's or the background one, sends or only installs *)
LEMMA RekeyIndexed ==
  ASSUME ConnInv, Indexed,
         \/ initiateRekey(ticker) /\ UNCHANGED <<dialer, recver, rekeyer, used>>
         \/ initiateRekey(rekeyer) /\ UNCHANGED <<dialer, recver, ticker, used>>
  PROVE  Indexed' /\ IndexKept
<1>1. InUse /\ UNCHANGED <<current, previous, dialer, recver>>
  BY DEF initiateRekey, RekeyCheck, RekeySendFails, RekeyInstall, RekeySend, sessionVars, Indexed
<1>2. \/ UNCHANGED <<lastId, wire>>
      \/ \E h \in Handshakes : Fresh(h) /\ wire' = wire \cup {[hs |-> h, idx |-> h]}
  BY DEF initiateRekey, RekeyCheck, RekeySendFails, RekeyInstall, RekeySend
<1>3. CASE UNCHANGED <<lastId, wire>>
  BY <1>1, <1>3 DEF Indexed, IndexKept, NewSession, InUse
<1>4. CASE \E h \in Handshakes : Fresh(h) /\ wire' = wire \cup {[hs |-> h, idx |-> h]}
  BY <1>1, <1>4, SentIndexed
<1> QED
  BY <1>2, <1>3, <1>4

(* Recv holds a response only if the Conn compared its index with the one it copied,
   and a new handshake is on the wire under one index *)
LEMMA IndexedStep ==
  ASSUME ConnInv, Indexed, [ConnNext]_connVars
  PROVE  Indexed' /\ [IndexKept]_connVars
<1> USE CoreConnAssumption DEF InUse
<1>1. \A h : Fresh(h) => lastId' = h /\ \A m \in wire : m.hs < h /\ m.hs # h
  BY DEF Fresh, ConnInv, LocalsTyped, Indexed, Handshakes
<1>2. CASE UNCHANGED connVars
  BY <1>2 DEF connVars, sessionVars, Indexed
<1>3. CASE DialNext
  <2>1. CASE DialStart \/ DialTimeout \/ DialFails
    BY <1>3, <2>1 DEF DialStart, DialTimeout, DialFails, ConnCloseState, sessionVars, Indexed,
       IndexKept, NewSession
  <2>2. ASSUME NEW h \in Handshakes, DialSend(h)
        PROVE  Indexed' /\ IndexKept
    BY <1>1, <2>2 DEF DialSend, Indexed, IndexKept, NewSession, ConnInv, LocalsTyped, Handshakes
  <2>3. ASSUME NEW h \in Handshakes, accept(h)
        PROVE  Indexed' /\ IndexKept
    BY <1>1, <2>3 DEF accept, Rotate, Indexed, IndexKept, ConnInv, LocalsTyped, Handshakes
  <2>4. ASSUME NEW m \in wire, DialResponse(m)
        PROVE  Indexed' /\ IndexKept
    BY <2>4 DEF DialResponse, Rotate, Indexed, IndexKept
  <2> QED
    BY <1>3, <2>1, <2>2, <2>3, <2>4 DEF DialNext
<1>4. CASE RecvNext
  <2>1. CASE RecvCall \/ handleTransportMessage \/ ResponseFails
    BY <2>1 DEF RecvCall, handleTransportMessage, ResponseFails, resetHandshakeState, sessionVars,
       AtRest, Indexed, IndexKept, NewSession, ConnInv, LocalsTyped
  <2>2. CASE ResponseInstall
    <3>1. UNCHANGED <<dialer, ticker, rekeyer, lastId, wire>> /\ recver'.at = "idle"
          /\ localIdx' = localIdx
      BY <2>2 DEF ResponseInstall, sessionVars, AtRest
    <3>2. Indexed'
      BY <3>1 DEF Indexed
    <3>3. IndexKept
      BY <2>2 DEF ResponseInstall, sessionVars, Rotate, Indexed, IndexKept, NewSession
    <3> QED
      BY <3>2, <3>3
  <2>3. CASE InitInstall
    <3>1. UNCHANGED <<dialer, ticker, rekeyer, lastId, wire>> /\ recver'.at = "idle"
          /\ current'.key = recver.hs /\ InUse
      BY <2>3 DEF InitInstall, Rotate, AtRest, Indexed
    <3>2. Indexed'
      BY <3>1 DEF Indexed
    <3>3. IndexKept
      BY <2>3, <3>1 DEF InitInstall, Indexed, IndexKept
    <3> QED
      BY <3>2, <3>3
  <2>4. ASSUME NEW m \in Responses, ResponseCopy(m)
        PROVE  Indexed' /\ IndexKept
    <3>1. UNCHANGED <<sessionVars, dialer, ticker, rekeyer, lastId, wire>> /\ InUse
      BY <2>4 DEF ResponseCopy
    <3>2. recver'.at = "response" /\ recver'.answers = recver'.hs
            => \E n \in wire : n.hs = recver'.hs /\ n.idx = recver'.idx
      BY <2>4 DEF ResponseCopy, Responses, AtRest, NoHs
    <3>3. recver'.at # "init"
      BY <2>4 DEF ResponseCopy, AtRest
    <3> QED
      BY <3>1, <3>2, <3>3 DEF sessionVars, Indexed, IndexKept, NewSession
  <2>5. ASSUME NEW h \in Handshakes, InitAnswer(h)
        PROVE  Indexed' /\ IndexKept
    BY <1>1, <2>5 DEF InitAnswer, sessionVars, Indexed, IndexKept, NewSession, ConnInv, LocalsTyped, Handshakes
  <2> QED
    BY <1>4, <2>1, <2>2, <2>3, <2>4, <2>5 DEF RecvNext
<1>5. CASE TickNext
  <2>1. CASE doTick \/ cleanupSessions \/ RetransmitCopy \/ RetransmitInstall \/ RetransmitFails
    BY <2>1 DEF doTick, TickCleanup, TickRetransmit, TickRekey, cleanupSessions, RetransmitCopy,
       RetransmitInstall, RetransmitFails, sessionVars, Indexed, IndexKept, NewSession
  <2>2. CASE initiateRekey(ticker) /\ UNCHANGED <<dialer, recver, rekeyer, used>>
    BY <2>2, RekeyIndexed
  <2>3. ASSUME NEW h \in Handshakes, RetransmitSend(h)
        PROVE  Indexed' /\ IndexKept
    <3>1. InUse /\ Fresh(h) /\ wire' = wire \cup {[hs |-> h, idx |-> ticker.idx]}
          /\ UNCHANGED <<current, previous, recver, dialer>>
      BY <2>3 DEF RetransmitSend, sessionVars, Indexed
    <3> QED
      BY <3>1, SentIndexed
  <2> QED
    BY <1>5, <2>1, <2>2, <2>3 DEF TickNext
<1>6. CASE initiateRekey(rekeyer) /\ UNCHANGED <<dialer, recver, ticker, used>>
  BY <1>6, RekeyIndexed
<1>7. CASE sendPayload \/ CoreClose
  BY <1>7 DEF sendPayload, CoreClose, ConnCloseState, Indexed, IndexKept, NewSession
<1> QED
  BY <1>2, <1>3, <1>4, <1>5, <1>6, <1>7 DEF ConnNext

(* No handshake becomes a session twice, and the session made of an initiation the Conn
   sent has the index that initiation named, for any number of handshakes, rekeys,
   retransmissions and responses (handleHandshakeResponse, handleHandshakeInit,
   initiateRekey, retransmitHandshake). *)
THEOREM ConnHandshakesNotMixed == ConnSpec => HandshakesNotMixed
<1> DEFINE Holds == NewSession => /\ current'.key \notin used
                                  /\ \A m \in wire : m.hs = current'.key => m.idx = current'.local
<1>1. newConn => ConnInv /\ Indexed
  BY ConnStart, IndexedStart
<1>2. ConnInv /\ Indexed /\ [ConnNext]_connVars => (ConnInv /\ Indexed)' /\ [Holds]_connVars
  BY ConnStep, IndexedStep DEF NotMixed, IndexKept
<1> QED
  BY <1>1, <1>2, PTL DEF ConnSpec, HandshakesNotMixed, NewSession

-----------------------------------------------------------------------------
(* The giznet listener: the Conns that are not closed are the registered ones *)

GPeer == GPeers \cup {CHOOSE p \in GPeers : TRUE}

HandlesTyped ==
  /\ established \in [GPeers -> Handles \cup {NoHandle}]
  /\ nhandles \in 0 .. MaxHandles /\ ngens \in 0 .. MaxGens
  /\ gen \in [GPeers -> 0 .. MaxGens]
  /\ handle \in [Handles -> [peer: GPeer, gen: 0 .. MaxGens, closed: BOOLEAN]]
  /\ \A c \in 1 .. nhandles : handle[c].peer \in GPeers

(* A peer that is reported, or that a caller is about to enter, is a peer *)
PeerEvent == [peer: GPeers, state: {"established", "offline"}]

CallerAt ==
  [at: {"idle"}] \cup [at: {"connect", "lookup", "mux"}, peer: GPeers]
    \cup [at: {"enter"}, peer: GPeers, gen: 0 .. MaxGens]

CallersTyped ==
  /\ events \in Seq(PeerEvent) /\ Len(events) <= EventCap
  /\ caller \in [Callers -> CallerAt]

(* The entry of a peer is a Conn that was made for it *)
RegisteredExist ==
  \A p \in GPeers : established[p] # NoHandle
    => established[p] <= nhandles /\ handle[established[p]].peer = p

GiznetInv == HandlesTyped /\ CallersTyped /\ RegisteredExist /\ OneActiveConn

LEMMA GiznetStart == Listen => GiznetInv
<1> SUFFICES ASSUME Listen PROVE GiznetInv
  OBVIOUS
<1> USE GiznetAssumption DEF Listen
<1>1. handle \in [Handles -> [peer: GPeer, gen: 0 .. MaxGens, closed: BOOLEAN]]
  <2>1. [peer |-> CHOOSE p \in GPeers : TRUE, gen |-> NoGen, closed |-> TRUE]
          \in [peer: GPeer, gen: 0 .. MaxGens, closed: BOOLEAN]
    BY DEF GPeer, NoGen
  <2> QED
    BY <2>1
<1>2. HandlesTyped
  BY <1>1 DEF HandlesTyped, NoHandle, NoGen
<1>3. CallersTyped
  BY DEF CallersTyped, CallerAt, Outside
<1>4. RegisteredExist /\ OneActiveConn
  BY DEF RegisteredExist, OneActiveConn, NoHandle
<1> QED
  BY <1>2, <1>3, <1>4 DEF GiznetInv

(* An event joins the queue only if there is room *)
LEMMA EventsBounded ==
  ASSUME CallersTyped, NEW p \in GPeers, NEW s \in {"established", "offline"},
         events' = onPeerEvent(p, s)
  PROVE  events' \in Seq(PeerEvent) /\ Len(events') <= EventCap
<1>1. [peer |-> p, state |-> s] \in PeerEvent
  BY DEF PeerEvent
<1>2. CASE gclosed \/ Len(events) >= EventCap
  BY <1>2 DEF onPeerEvent, CallersTyped
<1>3. CASE ~(gclosed \/ Len(events) >= EventCap)
  <2>1. events' = Append(events, [peer |-> p, state |-> s]) /\ Len(events) < EventCap
    BY <1>3, GiznetAssumption DEF onPeerEvent, CallersTyped
  <2>2. Len(events') = Len(events) + 1 /\ Len(events) \in Nat
    BY <2>1 DEF CallersTyped
  <2>3. events' \in Seq(PeerEvent)
    BY <1>1, <2>1 DEF CallersTyped
  <2> QED
    BY <2>1, <2>2, <2>3, GiznetAssumption
<1> QED
  BY <1>2, <1>3

LEMMA MuxTyped ==
  ASSUME HandlesTyped, NEW p \in GPeers, ensureMux(p)
  PROVE  gen' \in [GPeers -> 0 .. MaxGens] /\ ngens' \in 0 .. MaxGens
BY GiznetAssumption DEF HandlesTyped, ensureMux

(* The steps that leave handles and entries alone *)
LEMMA OutsideTableStep ==
  ASSUME GiznetInv, UNCHANGED <<established, handle, nhandles>>,
         gen' \in [GPeers -> 0 .. MaxGens], ngens' \in 0 .. MaxGens, CallersTyped'
  PROVE  GiznetInv'
<1>1. HandlesTyped'
  BY DEF GiznetInv, HandlesTyped
<1>2. RegisteredExist' /\ OneActiveConn'
  BY DEF GiznetInv, RegisteredExist, OneActiveConn
<1> QED
  BY <1>1, <1>2 DEF GiznetInv

(* Accept and Dial until the Conn is entered, and the UDP layer *)
LEMMA CallerStep ==
  ASSUME GiznetInv,
         \/ \E p \in GPeers : PeerComes(p) \/ PeerGoes(p)
         \/ \E a \in Callers : \/ AcceptEvent(a) \/ DialConnect(a) \/ LookupConn(a) \/ TakeMux(a)
                               \/ \E p \in GPeers : DialCall(a, p)
         \/ CloseGiznet
  PROVE  GiznetInv'
<1> USE GiznetAssumption
<1>0. /\ gen \in [GPeers -> 0 .. MaxGens] /\ ngens \in 0 .. MaxGens /\ HandlesTyped
      /\ events \in Seq(PeerEvent) /\ Len(events) <= EventCap
      /\ CallersTyped
  BY DEF GiznetInv, HandlesTyped, CallersTyped
<1>1. ASSUME NEW p \in GPeers, PeerComes(p)
      PROVE  GiznetInv'
  <2>1. gen' \in [GPeers -> 0 .. MaxGens] /\ ngens' \in 0 .. MaxGens
    BY <1>0, <1>1, MuxTyped DEF PeerComes
  <2>2. events' \in Seq(PeerEvent) /\ Len(events') <= EventCap
    BY <1>0, <1>1, EventsBounded DEF PeerComes
  <2>3. CallersTyped'
    BY <1>1, <2>2 DEF PeerComes, GiznetInv, CallersTyped
  <2> QED
    BY <1>1, <2>1, <2>3, OutsideTableStep DEF PeerComes
<1>2. ASSUME NEW p \in GPeers, PeerGoes(p)
      PROVE  GiznetInv'
  <2>1. gen' \in [GPeers -> 0 .. MaxGens] /\ ngens' \in 0 .. MaxGens
    BY <1>0, <1>2 DEF PeerGoes, NoGen
  <2>2. events' \in Seq(PeerEvent) /\ Len(events') <= EventCap
    BY <1>0, <1>2, EventsBounded DEF PeerGoes
  <2>3. CallersTyped'
    BY <1>2, <2>2 DEF PeerGoes, GiznetInv, CallersTyped
  <2> QED
    BY <1>2, <2>1, <2>3, OutsideTableStep DEF PeerGoes
<1>3. ASSUME NEW a \in Callers, AcceptEvent(a)
      PROVE  GiznetInv'
  <2>1. Head(events) \in PeerEvent
    BY <1>0, <1>3 DEF AcceptEvent
  <2>2. events' \in Seq(PeerEvent) /\ Len(events') <= EventCap
    BY <1>0, <1>3 DEF AcceptEvent
  <2>3. \/ caller' = caller
        \/ caller' = [caller EXCEPT ![a] = [at |-> "lookup", peer |-> Head(events).peer]]
    BY <1>3 DEF AcceptEvent
  <2>4. [at |-> "lookup", peer |-> Head(events).peer] \in CallerAt
    BY <2>1 DEF PeerEvent, CallerAt
  <2>5. CallersTyped'
    BY <2>2, <2>3, <2>4 DEF GiznetInv, CallersTyped
  <2> QED
    BY <1>0, <1>3, <2>5, OutsideTableStep DEF AcceptEvent
<1>4. ASSUME NEW a \in Callers, DialConnect(a)
      PROVE  GiznetInv'
  <2>0. caller[a] \in [at: {"connect", "lookup", "mux"}, peer: GPeers] /\ caller[a].peer \in GPeers
    BY <1>4 DEF DialConnect, GiznetInv, CallersTyped, CallerAt
  <2>1. gen' \in [GPeers -> 0 .. MaxGens] /\ ngens' \in 0 .. MaxGens
    BY <1>0, <1>4, <2>0, MuxTyped DEF DialConnect
  <2>2. events' \in Seq(PeerEvent) /\ Len(events') <= EventCap
    BY <1>0, <1>4, <2>0, EventsBounded DEF DialConnect
  <2>3. \/ caller' = [caller EXCEPT ![a].at = "lookup"]
        \/ caller' = [caller EXCEPT ![a] = Outside]
    BY <1>4 DEF DialConnect
  <2>4. [caller[a] EXCEPT !.at = "lookup"] \in CallerAt /\ Outside \in CallerAt
    BY <2>0 DEF CallerAt, Outside
  <2>5. CallersTyped'
    BY <1>0, <2>2, <2>3, <2>4 DEF CallersTyped
  <2> QED
    BY <1>4, <2>1, <2>5, OutsideTableStep DEF DialConnect
<1>5. ASSUME NEW a \in Callers, LookupConn(a)
      PROVE  GiznetInv'
  <2>1. \/ caller' = [caller EXCEPT ![a] = [@ EXCEPT !.at = "mux"]]
        \/ caller' = [caller EXCEPT ![a] = Outside]
    BY <1>5 DEF LookupConn
  <2>2. caller[a] \in [at: {"connect", "lookup", "mux"}, peer: GPeers]
    BY <1>5 DEF LookupConn, GiznetInv, CallersTyped, CallerAt
  <2>3. [caller[a] EXCEPT !.at = "mux"] \in CallerAt /\ Outside \in CallerAt
    BY <2>2 DEF CallerAt, Outside
  <2>4. CallersTyped'
    BY <1>0, <1>5, <2>1, <2>3 DEF CallersTyped, LookupConn
  <2> QED
    BY <1>0, <1>5, <2>4, OutsideTableStep DEF LookupConn
<1>6. ASSUME NEW a \in Callers, TakeMux(a)
      PROVE  GiznetInv'
  <2>0. caller[a].peer \in GPeers
    BY <1>6 DEF TakeMux, GiznetInv, CallersTyped, CallerAt
  <2>1. gen' \in [GPeers -> 0 .. MaxGens] /\ ngens' \in 0 .. MaxGens
    BY <1>0, <1>6, <2>0, MuxTyped DEF TakeMux
  <2>2. \/ caller' = [caller EXCEPT ![a] =
                        [at |-> "enter", peer |-> caller[a].peer, gen |-> gen'[caller[a].peer]]]
        \/ caller' = [caller EXCEPT ![a] = Outside]
    BY <1>6 DEF TakeMux
  <2>3. [at |-> "enter", peer |-> caller[a].peer, gen |-> gen'[caller[a].peer]] \in CallerAt /\ Outside \in CallerAt
    BY <2>0, <2>1 DEF CallerAt, Outside
  <2>4. CallersTyped'
    BY <1>0, <1>6, <2>2, <2>3 DEF CallersTyped, TakeMux
  <2> QED
    BY <1>6, <2>1, <2>4, OutsideTableStep DEF TakeMux
<1>7. ASSUME NEW a \in Callers, NEW p \in GPeers, DialCall(a, p)
      PROVE  GiznetInv'
  <2>1. [at |-> "connect", peer |-> p] \in CallerAt
    BY DEF CallerAt
  <2>2. CallersTyped'
    BY <1>0, <1>7, <2>1 DEF CallersTyped, DialCall
  <2> QED
    BY <1>0, <1>7, <2>2, OutsideTableStep DEF DialCall
<1>8. CASE CloseGiznet
  <2>1. gen' \in [GPeers -> 0 .. MaxGens] /\ ngens' \in 0 .. MaxGens
    BY <1>0, <1>8 DEF CloseGiznet, NoGen
  <2>2. CallersTyped'
    BY <1>0, <1>8 DEF CallersTyped, CloseGiznet
  <2> QED
    BY <1>8, <2>1, <2>2, OutsideTableStep DEF CloseGiznet
<1> QED
  BY <1>1, <1>2, <1>3, <1>4, <1>5, <1>6, <1>7, <1>8

(* A Conn is entered only for a peer that has none *)
LEMMA EnterStep ==
  ASSUME GiznetInv, NEW a \in Callers, EnterConn(a)
  PROVE  GiznetInv'
<1> USE GiznetAssumption
<1>1. caller[a].peer \in GPeers /\ caller[a].gen \in 0 .. MaxGens
  BY DEF EnterConn, GiznetInv, CallersTyped, CallerAt
<1>2. CallersTyped'
  <2>1. Outside \in CallerAt
    BY DEF Outside, CallerAt
  <2> QED
    BY <2>1 DEF EnterConn, GiznetInv, CallersTyped
<1>3. CASE established[caller[a].peer] # NoHandle
  BY <1>2, <1>3, OutsideTableStep DEF EnterConn, GiznetInv, HandlesTyped
<1>4. CASE established[caller[a].peer] = NoHandle
  <2> DEFINE q == caller[a].peer
             c == nhandles + 1
             made == [peer |-> q, gen |-> caller[a].gen, closed |-> FALSE]
  <2>1. /\ nhandles < MaxHandles /\ nhandles' = c
        /\ handle' = [handle EXCEPT ![c] = made]
        /\ established' = [established EXCEPT ![q] = c]
        /\ UNCHANGED <<gen, ngens>>
    BY <1>4 DEF EnterConn
  <2>2. made \in [peer: GPeer, gen: 0 .. MaxGens, closed: BOOLEAN]
    BY <1>1 DEF GPeer
  <2>3. c \in Handles /\ nhandles \in Nat /\ c # NoHandle /\ 1 .. nhandles \subseteq Handles
    BY <2>1 DEF GiznetInv, HandlesTyped, Handles, NoHandle
  <2>4. made.peer = q /\ made.closed = FALSE
    OBVIOUS
  <2> HIDE DEF made
  <2>5. handle'[c] = made
    BY <2>1, <2>3 DEF GiznetInv, HandlesTyped
  <2>6. \A d \in 1 .. nhandles : handle'[d] = handle[d] /\ d # c /\ d \in Handles
    BY <2>1, <2>3 DEF GiznetInv, HandlesTyped
  <2>7. /\ established'[q] = c
        /\ \A p \in GPeers \ {q} : established'[p] = established[p]
    BY <1>1, <2>1 DEF GiznetInv, HandlesTyped
  <2>8. 1 .. nhandles' = (1 .. nhandles) \cup {c}
    BY <2>1, <2>3
  <2>9. HandlesTyped'
    <3>1. handle' \in [Handles -> [peer: GPeer, gen: 0 .. MaxGens, closed: BOOLEAN]]
      BY <2>1, <2>2 DEF GiznetInv, HandlesTyped
    <3>2. established' \in [GPeers -> Handles \cup {NoHandle}]
      BY <2>1, <2>3 DEF GiznetInv, HandlesTyped
    <3>3. \A d \in 1 .. nhandles' : handle'[d].peer \in GPeers
      BY <1>1, <2>4, <2>5, <2>6, <2>8 DEF GiznetInv, HandlesTyped
    <3> QED
      BY <2>1, <3>1, <3>2, <3>3 DEF GiznetInv, HandlesTyped
  <2>10. RegisteredExist'
    <3> SUFFICES ASSUME NEW p \in GPeers, established'[p] # NoHandle
                 PROVE  established'[p] <= nhandles' /\ handle'[established'[p]].peer = p
      BY DEF RegisteredExist
    <3>1. CASE p = q
      BY <2>1, <2>3, <2>4, <2>5, <2>7, <3>1
    <3>2. CASE p # q
      <4>1. established'[p] = established[p] /\ established[p] \in 1 .. nhandles
        BY <2>3, <2>7, <3>2 DEF GiznetInv, RegisteredExist, HandlesTyped, Handles, NoHandle
      <4>2. handle'[established[p]] = handle[established[p]]
        BY <2>6, <4>1
      <4> QED
        BY <2>1, <2>3, <4>1, <4>2 DEF GiznetInv, RegisteredExist
    <3> QED
      BY <3>1, <3>2
  <2>11. OneActiveConn'
    <3> SUFFICES ASSUME NEW d \in 1 .. nhandles'
                 PROVE  ~handle'[d].closed <=> established'[handle'[d].peer] = d
      BY DEF OneActiveConn
    <3>1. CASE d = c
      BY <2>4, <2>5, <2>7, <3>1
    <3>2. CASE d \in 1 .. nhandles
      <4>1. handle'[d] = handle[d] /\ d # c /\ d # NoHandle /\ handle[d].peer \in GPeers
        BY <2>6, <3>2 DEF GiznetInv, HandlesTyped, NoHandle
      <4>2. ~handle[d].closed <=> established[handle[d].peer] = d
        BY <3>2 DEF GiznetInv, OneActiveConn
      <4> QED
        BY <1>4, <2>7, <4>1, <4>2
    <3> QED
      BY <2>8, <3>1, <3>2
  <2> QED
    BY <1>2, <2>9, <2>10, <2>11 DEF GiznetInv
<1> QED
  BY <1>3, <1>4

(* Conn.Close releases the entry of its own Conn and no other *)
LEMMA ReleaseStep ==
  ASSUME GiznetInv, NEW c \in Handles, ReleaseConn(c)
  PROVE  GiznetInv'
<1> USE GiznetAssumption
<1> DEFINE q == handle[c].peer
<1>1. c \in 1 .. nhandles /\ q \in GPeers /\ nhandles' = nhandles /\ nhandles \in Nat
  BY DEF ReleaseConn, GiznetInv, HandlesTyped, Handles
<1>2. established[q] = c
  BY <1>1 DEF ReleaseConn, GiznetInv, OneActiveConn
<1>3. /\ established' = [established EXCEPT ![q] = NoHandle]
      /\ handle' = [handle EXCEPT ![c].closed = TRUE]
  BY <1>2 DEF ReleaseConn
<1>4. /\ gen' \in [GPeers -> 0 .. MaxGens] /\ ngens' \in 0 .. MaxGens
  BY <1>1 DEF ReleaseConn, GiznetInv, HandlesTyped, NoGen
<1>5. CallersTyped'
  <2>1. events' \in Seq(PeerEvent) /\ Len(events') <= EventCap
    <3>1. CASE events' = onPeerEvent(q, "offline")
      BY <1>1, <3>1, EventsBounded DEF GiznetInv
    <3>2. CASE events' = events
      BY <3>2 DEF GiznetInv, CallersTyped
    <3> QED
      BY <3>1, <3>2 DEF ReleaseConn
  <2> QED
    BY <2>1 DEF ReleaseConn, GiznetInv, CallersTyped
<1>6. /\ handle'[c].closed = TRUE /\ handle'[c].peer = q
      /\ \A d \in Handles : d # c => handle'[d] = handle[d]
  BY <1>3 DEF GiznetInv, HandlesTyped
<1>7. /\ established'[q] = NoHandle
      /\ \A p \in GPeers \ {q} : established'[p] = established[p]
  BY <1>1, <1>3 DEF GiznetInv, HandlesTyped
<1>8. HandlesTyped'
  <2>1. handle' \in [Handles -> [peer: GPeer, gen: 0 .. MaxGens, closed: BOOLEAN]]
    BY <1>3 DEF GiznetInv, HandlesTyped
  <2>2. established' \in [GPeers -> Handles \cup {NoHandle}]
    BY <1>3 DEF GiznetInv, HandlesTyped
  <2>3. \A d \in 1 .. nhandles' : handle'[d].peer \in GPeers
    BY <1>1, <1>6 DEF GiznetInv, HandlesTyped, Handles
  <2> QED
    BY <1>1, <1>4, <2>1, <2>2, <2>3 DEF GiznetInv, HandlesTyped
<1>9. RegisteredExist'
  <2> SUFFICES ASSUME NEW p \in GPeers, established'[p] # NoHandle
               PROVE  established'[p] <= nhandles' /\ handle'[established'[p]].peer = p
    BY DEF RegisteredExist
  <2>1. p # q /\ established'[p] = established[p] /\ established[p] # NoHandle
    BY <1>7
  <2>2. established[p] \in Handles /\ established[p] <= nhandles /\ handle[established[p]].peer = p
    BY <2>1 DEF GiznetInv, RegisteredExist, HandlesTyped
  <2>3. established[p] # c
    BY <2>1, <2>2
  <2> QED
    BY <1>1, <1>6, <2>1, <2>2, <2>3
<1>10. OneActiveConn'
  <2> SUFFICES ASSUME NEW d \in 1 .. nhandles'
               PROVE  ~handle'[d].closed <=> established'[handle'[d].peer] = d
    BY DEF OneActiveConn
  <2>1. d \in Handles /\ d # NoHandle /\ d \in 1 .. nhandles /\ handle[d].peer \in GPeers
    BY <1>1 DEF GiznetInv, HandlesTyped, Handles, NoHandle
  <2>2. CASE d = c
    BY <1>6, <1>7, <2>1, <2>2
  <2>3. CASE d # c
    <3>1. handle'[d] = handle[d]
      BY <1>6, <2>1, <2>3
    <3>2. ~handle[d].closed <=> established[handle[d].peer] = d
      BY <2>1 DEF GiznetInv, OneActiveConn
    <3>3. CASE handle[d].peer = q
      BY <1>2, <1>7, <2>1, <2>3, <3>1, <3>2, <3>3
    <3>4. CASE handle[d].peer # q
      BY <1>7, <2>1, <3>1, <3>2, <3>4
    <3> QED
      BY <3>3, <3>4
  <2> QED
    BY <2>2, <2>3
<1> QED
  BY <1>5, <1>8, <1>9, <1>10 DEF GiznetInv

(* "A peer public key can have at most one active Conn": the Conns not yet closed are
   exactly the registered ones, for any number of peers, Accepts and Dials and any
   capacity of the event queue (listener.go, conn.go). *)
THEOREM AtMostOneActiveConn == GiznetSpec => [](GiznetTypeOK /\ OneActiveConn)
<1>1. Listen => GiznetInv
  BY GiznetStart
<1>2. GiznetInv /\ [GiznetNext]_gizVars => GiznetInv'
  <2> SUFFICES ASSUME GiznetInv, [GiznetNext]_gizVars PROVE GiznetInv'
    OBVIOUS
  <2>1. CASE UNCHANGED gizVars
    BY <2>1 DEF gizVars, GiznetInv, HandlesTyped, CallersTyped, RegisteredExist, OneActiveConn
  <2>2. ASSUME NEW a \in Callers, EnterConn(a) PROVE GiznetInv'
    BY <2>2, EnterStep
  <2>3. ASSUME NEW c \in Handles, ReleaseConn(c) PROVE GiznetInv'
    BY <2>3, ReleaseStep
  <2> QED
    BY <2>1, <2>2, <2>3, CallerStep DEF GiznetNext
<1>3. GiznetInv => GiznetTypeOK /\ OneActiveConn
  BY DEF GiznetInv, HandlesTyped, CallersTyped, GiznetTypeOK
<1> QED
  BY <1>1, <1>2, <1>3, PTL DEF GiznetSpec

-----------------------------------------------------------------------------
(* The service mux: what was ended stays ended *)

ServiceOf == Services \cup {CHOOSE s \in Services : TRUE}

UserAt ==
  [at: {"idle"}] \cup [at: {"create"}, service: Services] \cup [at: {"ensure"}, st: StateIds]

EnderAt ==
  [at: {"idle"}] \cup [at: {"mark"}, service: Services, op: {"close", "stop"}]
    \cup [at: {"act"}, op: {"close", "stop"}, st: StateIds]

ServicesTyped ==
  /\ services \in [Services -> StateIds \cup {NoState}]
  /\ sstate \in [StateIds -> [service: ServiceOf, mux: BOOLEAN, closed: BOOLEAN, stopped: BOOLEAN]]
  /\ nstates \in 0 .. MaxStates
  /\ kmux \in [StateIds -> [open: BOOLEAN, accepting: BOOLEAN]]
  /\ smClosed \in BOOLEAN
  /\ smClose \in {"no", "swap", "muxes", "done"}
  /\ leaving \subseteq StateIds
  /\ user \in [Users -> UserAt]
  /\ ender \in [Enders -> EnderAt]

(* Only serviceStates that were made are in use, and only those have a mux *)
OnlyMade ==
  /\ \A s \in Services : services[s] <= nstates
  /\ \A u \in Users : user[u].at = "ensure" => user[u].st <= nstates
  /\ \A e \in Enders : ender[e].at = "act" => ender[e].st <= nstates
  /\ \A i \in StateIds : sstate[i].mux => i <= nstates
  /\ \A i \in StateIds : kmux[i].open \/ kmux[i].accepting => sstate[i].mux
  /\ \A w \in ended : w[1] \in StateIds /\ w[1] <= nstates

(* A call that has marked its state, and one that has returned, left the mark, which
   ensureKcpMux reads when it makes the mux *)
Marks ==
  /\ \A e \in Enders : ender[e].at = "act"
       => sstate[ender[e].st].stopped /\ (ender[e].op = "close" => sstate[ender[e].st].closed)
  /\ \A i \in StateIds : \A op \in {"close", "stop"} : <<i, op>> \in ended
       => sstate[i].stopped /\ (op = "close" => sstate[i].closed)

(* Until Close takes the services, every state that was made is registered; after it
   the open muxes are among those it has still to close, and no more are made *)
CloseFindsAll ==
  /\ smClose # "no" => smClosed
  /\ smClose \in {"no", "swap"} => \A i \in 1 .. nstates : \E s \in Services : services[s] = i
  /\ smClose \in {"muxes", "done"} => \A i \in StateIds : kmux[i].open => i \in leaving
  /\ smClose = "done" => leaving = {}

(* What EndedStaysEnded says of the two calls *)
EndsHold ==
  \A i \in StateIds :
    /\ <<i, "stop">> \in ended => ~kmux[i].accepting
    /\ <<i, "close">> \in ended => ~kmux[i].open /\ ~kmux[i].accepting

ServiceInv == ServicesTyped /\ OnlyMade /\ Marks /\ CloseFindsAll /\ EndsHold

LEMMA ServiceStart == ServiceMuxInit => ServiceInv
<1> SUFFICES ASSUME ServiceMuxInit PROVE ServiceInv
  OBVIOUS
<1> USE ServiceMuxAssumption DEF ServiceMuxInit
<1>1. [service |-> CHOOSE s \in Services : TRUE, mux |-> FALSE, closed |-> FALSE, stopped |-> FALSE]
        \in [service: ServiceOf, mux: BOOLEAN, closed: BOOLEAN, stopped: BOOLEAN]
  BY DEF ServiceOf
<1>2. sstate \in [StateIds -> [service: ServiceOf, mux: BOOLEAN, closed: BOOLEAN, stopped: BOOLEAN]]
  BY <1>1
<1>3. ServicesTyped
  <2>1. Returned \in UserAt /\ Returned \in EnderAt
    BY DEF Returned, UserAt, EnderAt
  <2>2. user \in [Users -> UserAt] /\ ender \in [Enders -> EnderAt]
    BY <2>1
  <2>3. kmux \in [StateIds -> [open: BOOLEAN, accepting: BOOLEAN]]
    OBVIOUS
  <2>4. services \in [Services -> StateIds \cup {NoState}]
    OBVIOUS
  <2>5. nstates \in 0 .. MaxStates
    OBVIOUS
  <2>7. smClosed \in BOOLEAN /\ leaving \subseteq StateIds
    BY Zenon
  <2>6. smClose \in {"no", "swap", "muxes", "done"}
    OBVIOUS
  <2> HIDE DEF ServiceMuxInit
  <2> QED
    BY <1>2, <2>2, <2>3, <2>4, <2>5, <2>6, <2>7 DEF ServicesTyped
<1>4. OnlyMade
  BY DEF OnlyMade, Returned, NoState
<1>5. Marks /\ EndsHold
  BY DEF Marks, EndsHold, Returned
<1>6. CloseFindsAll
  BY DEF CloseFindsAll
<1> QED
  BY <1>3, <1>4, <1>5, <1>6 DEF ServiceInv

(* A state added for s is the only one that changes, and is registered under s *)
LEMMA AddStateStep ==
  ASSUME ServiceInv, NEW s \in Services, services[s] = NoState,
         NEW st \in [service: ServiceOf, mux: BOOLEAN, closed: BOOLEAN, stopped: BOOLEAN],
         ~st.mux, AddState(s, st), UNCHANGED <<kmux, smClosed, smClose, leaving, ended>>
  PROVE  /\ services' \in [Services -> StateIds \cup {NoState}]
         /\ sstate' \in [StateIds -> [service: ServiceOf, mux: BOOLEAN, closed: BOOLEAN, stopped: BOOLEAN]]
         /\ nstates' \in 0 .. MaxStates /\ nstates' = nstates + 1
         /\ nstates' \in StateIds /\ nstates \in Nat
         /\ services'[s] = nstates' /\ sstate'[nstates'] = st
         /\ \A i \in StateIds : i # nstates' => sstate'[i] = sstate[i]
         /\ \A t \in Services : services'[t] <= nstates'
         /\ \A i \in StateIds : sstate'[i].mux => i <= nstates'
         /\ \A i \in StateIds : kmux'[i].open \/ kmux'[i].accepting => sstate'[i].mux
         /\ \A w \in ended' : w[1] \in StateIds /\ w[1] <= nstates'
         /\ CloseFindsAll'
         /\ EndsHold'
<1> USE ServiceMuxAssumption
<1>1. /\ nstates \in Nat /\ nstates < MaxStates /\ nstates' = nstates + 1
      /\ nstates' \in StateIds /\ nstates' \in 0 .. MaxStates
      /\ sstate' = [sstate EXCEPT ![nstates'] = st]
      /\ services' = [services EXCEPT ![s] = nstates']
  BY DEF ServiceInv, ServicesTyped, AddState, StateIds
<1>2. /\ services' \in [Services -> StateIds \cup {NoState}]
      /\ sstate' \in [StateIds -> [service: ServiceOf, mux: BOOLEAN, closed: BOOLEAN, stopped: BOOLEAN]]
  BY <1>1 DEF ServiceInv, ServicesTyped
<1>3. services'[s] = nstates' /\ \A t \in Services : t # s => services'[t] = services[t]
  BY <1>1 DEF ServiceInv, ServicesTyped
<1>4. sstate'[nstates'] = st /\ \A i \in StateIds : i # nstates' => sstate'[i] = sstate[i]
  BY <1>1 DEF ServiceInv, ServicesTyped
<1>5. \A t \in Services : services'[t] <= nstates'
  <2> TAKE t \in Services
  <2>1. services[t] <= nstates /\ services[t] \in Nat
    BY DEF ServiceInv, ServicesTyped, OnlyMade, StateIds, NoState
  <2> QED
    BY <1>1, <1>3, <2>1
<1>6. ASSUME NEW i \in StateIds
      PROVE  /\ sstate'[i].mux => i <= nstates'
             /\ kmux'[i].open \/ kmux'[i].accepting => sstate'[i].mux
  <2>1. /\ sstate[i].mux => i <= nstates
        /\ kmux[i].open \/ kmux[i].accepting => sstate[i].mux
        /\ i \in Nat
    BY DEF ServiceInv, OnlyMade, StateIds
  <2>2. CASE i = nstates'
    BY <1>1, <1>4, <2>1, <2>2
  <2>3. CASE i # nstates'
    BY <1>1, <1>4, <2>1, <2>3
  <2> QED
    BY <2>2, <2>3
<1>7. \A w \in ended' : w[1] \in StateIds /\ w[1] <= nstates'
  <2> SUFFICES ASSUME NEW w \in ended PROVE w[1] \in StateIds /\ w[1] <= nstates'
    OBVIOUS
  <2>1. w[1] <= nstates /\ w[1] \in Nat
    BY DEF ServiceInv, OnlyMade, StateIds
  <2> QED
    BY <1>1, <2>1 DEF ServiceInv, OnlyMade
<1>8. CloseFindsAll'
  <2>1. ASSUME smClose \in {"no", "swap"}, NEW i \in 1 .. nstates'
        PROVE  \E t \in Services : services'[t] = i
    <3>1. CASE i = nstates'
      BY <1>3, <3>1
    <3>2. CASE i # nstates'
      <4>1. i \in 1 .. nstates /\ i # NoState
        BY <1>1, <3>2 DEF NoState
      <4>2. PICK t \in Services : services[t] = i
        BY <2>1, <4>1 DEF ServiceInv, CloseFindsAll
      <4> QED
        BY <1>3, <4>1, <4>2
    <3> QED
      BY <3>1, <3>2
  <2> QED
    BY <2>1 DEF ServiceInv, CloseFindsAll
<1>9. EndsHold'
  BY DEF ServiceInv, EndsHold
<1> QED
  BY <1>1, <1>2, <1>3, <1>4, <1>5, <1>6, <1>7, <1>8, <1>9

(* The calls that use a service: look up, create, and make the mux *)
LEMMA UserStep ==
  ASSUME ServiceInv, NEW u \in Users,
         (\E s \in Services : LookupService(u, s)) \/ CreateService(u) \/ ensureKcpMux(u)
  PROVE  ServiceInv'
<1> USE ServiceMuxAssumption
<1>0. Returned \in UserAt /\ Returned.at = "idle"
  BY DEF Returned, UserAt
<1>1. ASSUME NEW v \in UserAt, user' = [user EXCEPT ![u] = v],
             v.at = "ensure" => v.st <= nstates,
             UNCHANGED <<services, sstate, nstates, kmux, smClosed, smClose, leaving, ender, ended>>
      PROVE  ServiceInv'
  <2>1. ServicesTyped'
    BY <1>1 DEF ServiceInv, ServicesTyped
  <2>2. OnlyMade'
    BY <1>1 DEF ServiceInv, ServicesTyped, OnlyMade
  <2>3. Marks' /\ CloseFindsAll' /\ EndsHold'
    BY <1>1 DEF ServiceInv, Marks, CloseFindsAll, EndsHold
  <2> QED
    BY <2>1, <2>2, <2>3 DEF ServiceInv
<1>2. ASSUME NEW s \in Services, LookupService(u, s)
      PROVE  ServiceInv'
  <2> DEFINE v == IF services[s] = NoState THEN [at |-> "create", service |-> s]
                  ELSE IF sstate[services[s]].closed THEN Returned
                  ELSE [at |-> "ensure", st |-> services[s]]
  <2>1. user' = [user EXCEPT ![u] = v]
    BY <1>2 DEF LookupService
  <2>2. services[s] \in StateIds \cup {NoState} /\ services[s] <= nstates
    BY DEF ServiceInv, ServicesTyped, OnlyMade
  <2>3. v \in UserAt
    BY <1>0, <2>2 DEF UserAt
  <2>4. v.at = "ensure" => v.st <= nstates
    BY <1>0, <2>2
  <2> HIDE DEF v
  <2> QED
    BY <1>1, <1>2, <2>1, <2>3, <2>4 DEF LookupService
<1>3. CASE CreateService(u)
  <2> DEFINE s == user[u].service
             i == services[s]
  <2>1. s \in Services
    BY <1>3 DEF CreateService, ServiceInv, ServicesTyped, UserAt
  <2>2. i \in StateIds \cup {NoState} /\ i <= nstates
    BY <2>1 DEF ServiceInv, ServicesTyped, OnlyMade
  <2>3. CASE user' = [user EXCEPT ![u] = Returned] /\ UNCHANGED <<services, sstate, nstates>>
    BY <1>0, <1>1, <1>3, <2>3 DEF CreateService
  <2>4. CASE /\ i # NoState /\ user' = [user EXCEPT ![u] = [at |-> "ensure", st |-> i]]
             /\ UNCHANGED <<services, sstate, nstates>>
    <3> DEFINE v == [at |-> "ensure", st |-> i]
    <3>1. v \in UserAt /\ (v.at = "ensure" => v.st <= nstates)
      BY <2>2, <2>4 DEF UserAt
    <3>2. user' = [user EXCEPT ![u] = v]
      BY <2>4
    <3> HIDE DEF v
    <3> QED
      BY <1>1, <1>3, <2>4, <3>1, <3>2 DEF CreateService
  <2>5. CASE /\ i = NoState /\ AddState(s, NewState(s))
             /\ user' = [user EXCEPT ![u] = [at |-> "ensure", st |-> nstates + 1]]
    <3> DEFINE st == NewState(s)
    <3>1. /\ st \in [service: ServiceOf, mux: BOOLEAN, closed: BOOLEAN, stopped: BOOLEAN]
          /\ ~st.mux
      BY <2>1 DEF NewState, ServiceOf
    <3> HIDE DEF st
    <3>2. UNCHANGED <<kmux, smClosed, smClose, leaving, ender, ended>>
      BY <1>3 DEF CreateService
    <3>3. AddState(s, st)
      BY <2>5 DEF st
    <3>4. /\ services' \in [Services -> StateIds \cup {NoState}]
          /\ sstate' \in [StateIds -> [service: ServiceOf, mux: BOOLEAN, closed: BOOLEAN, stopped: BOOLEAN]]
          /\ nstates' \in 0 .. MaxStates /\ nstates' = nstates + 1
          /\ nstates' \in StateIds /\ nstates \in Nat
          /\ \A j \in StateIds : j # nstates' => sstate'[j] = sstate[j]
          /\ \A t \in Services : services'[t] <= nstates'
          /\ \A j \in StateIds : sstate'[j].mux => j <= nstates'
          /\ \A j \in StateIds : kmux'[j].open \/ kmux'[j].accepting => sstate'[j].mux
          /\ \A w \in ended' : w[1] \in StateIds /\ w[1] <= nstates'
          /\ CloseFindsAll' /\ EndsHold'
      BY <2>1, <2>5, <3>1, <3>2, <3>3, AddStateStep
    <3>5. [at |-> "ensure", st |-> nstates'] \in UserAt
      BY <3>4 DEF UserAt
    <3>6. user' = [user EXCEPT ![u] = [at |-> "ensure", st |-> nstates']]
      BY <2>5, <3>4
    <3>7. ServicesTyped'
      BY <3>2, <3>4, <3>5, <3>6 DEF ServiceInv, ServicesTyped
    <3>8. OnlyMade'
      <4>1. ASSUME NEW v \in Users, user'[v].at = "ensure" PROVE user'[v].st <= nstates'
        <5>1. CASE v = u
          BY <3>4, <3>6, <5>1 DEF ServiceInv, ServicesTyped
        <5>2. CASE v # u
          <6>1. user'[v] = user[v] /\ user[v].st <= nstates /\ user[v].st \in Nat
            BY <3>6, <4>1, <5>2 DEF ServiceInv, ServicesTyped, OnlyMade, UserAt, StateIds
          <6> QED
            BY <3>4, <6>1
        <5> QED
          BY <5>1, <5>2
      <4>2. ASSUME NEW e \in Enders, ender'[e].at = "act" PROVE ender'[e].st <= nstates'
        <5>1. ender'[e] = ender[e] /\ ender[e].st <= nstates /\ ender[e].st \in Nat
          BY <3>2, <4>2 DEF ServiceInv, ServicesTyped, OnlyMade, EnderAt, StateIds
        <5> QED
          BY <3>4, <5>1
      <4> QED
        BY <3>4, <4>1, <4>2 DEF OnlyMade
    <3>9. Marks'
      <4>1. ASSUME NEW e \in Enders, ender[e].at = "act"
            PROVE  ender[e].st \in StateIds /\ ender[e].st # nstates'
        BY <3>4, <4>1 DEF ServiceInv, ServicesTyped, OnlyMade, EnderAt, StateIds
      <4>2. ASSUME NEW j \in StateIds, NEW op \in {"close", "stop"}, <<j, op>> \in ended
            PROVE  j # nstates'
        BY <3>4, <4>2 DEF ServiceInv, OnlyMade, StateIds
      <4> QED
        BY <3>2, <3>4, <4>1, <4>2 DEF ServiceInv, Marks
    <3> QED
      BY <3>4, <3>7, <3>8, <3>9 DEF ServiceInv
  <2> QED
    BY <1>3, <2>3, <2>4, <2>5 DEF CreateService
<1>4. CASE ensureKcpMux(u)
  <2> DEFINE i == user[u].st
  <2>1. i \in StateIds /\ i <= nstates
    BY <1>4 DEF ensureKcpMux, ServiceInv, ServicesTyped, OnlyMade, UserAt
  <2>2. CASE smClosed \/ sstate[i].mux \/ sstate[i].closed
    BY <1>0, <1>1, <1>4, <2>2 DEF ensureKcpMux
  <2>3. CASE ~(smClosed \/ sstate[i].mux \/ sstate[i].closed)
    <3>1. /\ sstate' = [sstate EXCEPT ![i].mux = TRUE]
          /\ kmux' = [kmux EXCEPT ![i] = [open |-> TRUE, accepting |-> ~sstate[i].stopped]]
          /\ user' = [user EXCEPT ![u] = Returned]
          /\ UNCHANGED <<services, nstates, smClosed, smClose, leaving, ender, ended>>
      BY <1>4, <2>3 DEF ensureKcpMux
    <3>2. /\ sstate' \in [StateIds -> [service: ServiceOf, mux: BOOLEAN, closed: BOOLEAN, stopped: BOOLEAN]]
          /\ \A j \in StateIds : sstate'[j].closed = sstate[j].closed /\ sstate'[j].stopped = sstate[j].stopped
          /\ sstate'[i].mux /\ \A j \in StateIds : j # i => sstate'[j] = sstate[j]
      BY <2>1, <3>1 DEF ServiceInv, ServicesTyped
    <3>3. /\ kmux' \in [StateIds -> [open: BOOLEAN, accepting: BOOLEAN]]
          /\ kmux'[i].accepting <=> ~sstate[i].stopped
          /\ \A j \in StateIds : j # i => kmux'[j] = kmux[j]
      BY <2>1, <3>1 DEF ServiceInv, ServicesTyped
    <3>4. ServicesTyped'
      BY <1>0, <3>1, <3>2, <3>3 DEF ServiceInv, ServicesTyped
    <3>5. OnlyMade'
      <4>1. \A v \in Users : user'[v].at = "ensure" => user'[v].st <= nstates
        BY <1>0, <3>1 DEF ServiceInv, ServicesTyped, OnlyMade
      <4>2. \A j \in StateIds : sstate'[j].mux => j <= nstates
        BY <2>1, <3>2 DEF ServiceInv, OnlyMade
      <4>3. \A j \in StateIds : kmux'[j].open \/ kmux'[j].accepting => sstate'[j].mux
        BY <2>1, <3>2, <3>3 DEF ServiceInv, OnlyMade
      <4> QED
        BY <3>1, <4>1, <4>2, <4>3 DEF ServiceInv, OnlyMade
    <3>6. Marks'
      <4>1. \A e \in Enders : ender[e].at = "act" => ender[e].st \in StateIds
        BY DEF ServiceInv, ServicesTyped, EnderAt
      <4> QED
        BY <3>1, <3>2, <4>1 DEF ServiceInv, Marks
    <3>7. CloseFindsAll'
      BY <2>3, <3>1 DEF ServiceInv, CloseFindsAll
    <3>8. EndsHold'
      <4> SUFFICES ASSUME NEW j \in StateIds
                   PROVE  /\ <<j, "stop">> \in ended => ~kmux'[j].accepting
                          /\ <<j, "close">> \in ended => ~kmux'[j].open /\ ~kmux'[j].accepting
        BY <3>1 DEF EndsHold
      <4>1. CASE j = i
        BY <2>3, <3>3, <4>1 DEF ServiceInv, Marks
      <4>2. CASE j # i
        BY <3>3, <4>2 DEF ServiceInv, EndsHold
      <4> QED
        BY <4>1, <4>2
    <3> QED
      BY <3>4, <3>5, <3>6, <3>7, <3>8 DEF ServiceInv
  <2> QED
    BY <2>2, <2>3
<1> QED
  BY <1>2, <1>3, <1>4

(* CloseService and StopAcceptingService *)
LEMMA EnderStep ==
  ASSUME ServiceInv, NEW e \in Enders,
         \/ \E s \in Services, op \in {"close", "stop"} : EndCall(e, s, op)
         \/ EndMark(e) \/ EndAct(e)
  PROVE  ServiceInv'
<1> USE ServiceMuxAssumption
<1>1. ASSUME NEW s \in Services, NEW op \in {"close", "stop"}, EndCall(e, s, op)
      PROVE  ServiceInv'
  <2> DEFINE v == [at |-> "mark", service |-> s, op |-> op]
  <2>1. v \in EnderAt /\ v.at # "act"
    BY DEF EnderAt
  <2>2. ender' = [ender EXCEPT ![e] = v]
    BY <1>1 DEF EndCall
  <2>3. UNCHANGED <<services, sstate, nstates, kmux, smClosed, smClose, leaving, user, ended>>
    BY <1>1 DEF EndCall
  <2> HIDE DEF v
  <2>4. ServicesTyped'
    BY <2>1, <2>2, <2>3 DEF ServiceInv, ServicesTyped
  <2>5. OnlyMade' /\ Marks'
    BY <2>1, <2>2, <2>3 DEF ServiceInv, ServicesTyped, OnlyMade, Marks
  <2>6. CloseFindsAll' /\ EndsHold'
    BY <2>3 DEF ServiceInv, CloseFindsAll, EndsHold
  <2> QED
    BY <2>4, <2>5, <2>6 DEF ServiceInv
<1>2. CASE EndMark(e)
  <2> DEFINE s == ender[e].service
             op == ender[e].op
             i == services[s]
             Marked(st) == [st EXCEPT !.stopped = TRUE, !.closed = @ \/ op = "close"]
             State == [service: ServiceOf, mux: BOOLEAN, closed: BOOLEAN, stopped: BOOLEAN]
  <2>1. s \in Services /\ op \in {"close", "stop"} /\ ender[e] \in EnderAt
    BY <1>2 DEF EndMark, ServiceInv, ServicesTyped, EnderAt
  <2>2. i \in StateIds \cup {NoState} /\ i <= nstates
    BY <2>1 DEF ServiceInv, ServicesTyped, OnlyMade
  <2>3. /\ ender' = [ender EXCEPT ![e] = [at |-> "act", op |-> op, st |-> services'[s]]]
        /\ UNCHANGED <<kmux, smClosed, smClose, leaving, user, ended>>
    BY <1>2 DEF EndMark
  <2>4. ASSUME NEW st \in State
        PROVE  /\ Marked(st) \in State /\ Marked(st).stopped
               /\ Marked(st).mux = st.mux
               /\ st.closed \/ op = "close" => Marked(st).closed
    OBVIOUS
  <2> HIDE DEF Marked
  (* What the mark leaves, whether the state was found or made *)
  <2>5. /\ services' \in [Services -> StateIds \cup {NoState}]
        /\ sstate' \in [StateIds -> State]
        /\ nstates' \in 0 .. MaxStates /\ nstates <= nstates' /\ nstates \in Nat
        /\ services'[s] \in StateIds /\ services'[s] <= nstates'
        /\ sstate'[services'[s]].stopped /\ (op = "close" => sstate'[services'[s]].closed)
        /\ \A j \in StateIds : j <= nstates
             => /\ sstate[j].stopped => sstate'[j].stopped
                /\ sstate[j].closed => sstate'[j].closed
        /\ \A t \in Services : services'[t] <= nstates'
        /\ \A j \in StateIds : sstate'[j].mux => j <= nstates'
        /\ \A j \in StateIds : kmux'[j].open \/ kmux'[j].accepting => sstate'[j].mux
        /\ \A w \in ended' : w[1] \in StateIds /\ w[1] <= nstates'
        /\ CloseFindsAll' /\ EndsHold'
    <3>1. CASE i = NoState
      <4> DEFINE st == Marked(NewState(s))
      <4>1. NewState(s) \in State /\ ~NewState(s).mux
        BY <2>1 DEF NewState, ServiceOf
      <4>2. st \in State /\ st.stopped /\ ~st.mux /\ (op = "close" => st.closed)
        BY <2>4, <4>1
      <4>3. AddState(s, st)
        BY <1>2, <3>1 DEF EndMark, Marked
      <4> HIDE DEF st
      <4>4. /\ services' \in [Services -> StateIds \cup {NoState}]
            /\ sstate' \in [StateIds -> State]
            /\ nstates' \in 0 .. MaxStates /\ nstates' = nstates + 1
            /\ nstates' \in StateIds /\ nstates \in Nat
            /\ services'[s] = nstates' /\ sstate'[nstates'] = st
            /\ \A j \in StateIds : j # nstates' => sstate'[j] = sstate[j]
            /\ \A t \in Services : services'[t] <= nstates'
            /\ \A j \in StateIds : sstate'[j].mux => j <= nstates'
            /\ \A j \in StateIds : kmux'[j].open \/ kmux'[j].accepting => sstate'[j].mux
            /\ \A w \in ended' : w[1] \in StateIds /\ w[1] <= nstates'
            /\ CloseFindsAll' /\ EndsHold'
        BY <2>1, <2>3, <3>1, <4>2, <4>3, AddStateStep
      <4>5. \A j \in StateIds : j <= nstates => j # nstates'
        BY <4>4 DEF StateIds
      <4> QED
        BY <4>2, <4>4, <4>5
    <3>2. CASE i # NoState
      <4>1. sstate' = [sstate EXCEPT ![i] = Marked(sstate[i])] /\ UNCHANGED <<services, nstates>>
        BY <1>2, <3>2 DEF EndMark, Marked
      <4>2. i \in StateIds /\ sstate[i] \in State /\ nstates \in Nat /\ nstates \in 0 .. MaxStates
        BY <2>2, <3>2 DEF ServiceInv, ServicesTyped
      <4>3. /\ Marked(sstate[i]) \in State /\ Marked(sstate[i]).stopped
            /\ Marked(sstate[i]).mux = sstate[i].mux
            /\ sstate[i].closed \/ op = "close" => Marked(sstate[i]).closed
        BY <2>4, <4>2
      <4>4. sstate' \in [StateIds -> State]
        BY <4>1, <4>2, <4>3 DEF ServiceInv, ServicesTyped
      <4>5. sstate'[i] = Marked(sstate[i]) /\ \A j \in StateIds : j # i => sstate'[j] = sstate[j]
        BY <4>1, <4>2 DEF ServiceInv, ServicesTyped
      <4>6. /\ \A j \in StateIds : sstate'[j].mux = sstate[j].mux
            /\ \A j \in StateIds : sstate[j].stopped => sstate'[j].stopped
            /\ \A j \in StateIds : sstate[j].closed => sstate'[j].closed
        BY <4>3, <4>5
      <4>7. CloseFindsAll' /\ EndsHold'
        BY <2>3, <4>1 DEF ServiceInv, CloseFindsAll, EndsHold
      <4>8. /\ services \in [Services -> StateIds \cup {NoState}]
            /\ \A t \in Services : services[t] <= nstates
            /\ \A j \in StateIds : sstate[j].mux => j <= nstates
            /\ \A j \in StateIds : kmux[j].open \/ kmux[j].accepting => sstate[j].mux
            /\ \A w \in ended : w[1] \in StateIds /\ w[1] <= nstates
        BY DEF ServiceInv, ServicesTyped, OnlyMade
      <4>9. /\ services' \in [Services -> StateIds \cup {NoState}]
            /\ services'[s] \in StateIds /\ services'[s] <= nstates'
            /\ nstates' \in 0 .. MaxStates /\ nstates <= nstates'
            /\ \A t \in Services : services'[t] <= nstates'
            /\ \A w \in ended' : w[1] \in StateIds /\ w[1] <= nstates'
        BY <2>2, <2>3, <4>1, <4>2, <4>8
      <4>10. sstate'[services'[s]].stopped /\ (op = "close" => sstate'[services'[s]].closed)
        BY <4>1, <4>3, <4>5
      <4>11. /\ \A j \in StateIds : sstate'[j].mux => j <= nstates'
             /\ \A j \in StateIds : kmux'[j].open \/ kmux'[j].accepting => sstate'[j].mux
        BY <2>3, <4>1, <4>6, <4>8
      <4> QED
        BY <4>2, <4>4, <4>6, <4>7, <4>9, <4>10, <4>11
    <3> QED
      BY <3>1, <3>2
  <2> DEFINE v == [at |-> "act", op |-> op, st |-> services'[s]]
  <2>6. v \in EnderAt /\ v.st = services'[s] /\ v.op = op
    BY <2>1, <2>5 DEF EnderAt
  <2>7. ender' = [ender EXCEPT ![e] = v]
    BY <2>3
  <2> HIDE DEF v
  <2>8. ServicesTyped'
    BY <2>3, <2>5, <2>6, <2>7 DEF ServiceInv, ServicesTyped
  <2>9. ender'[e] = v /\ \A d \in Enders : d # e => ender'[d] = ender[d]
    BY <2>7 DEF ServiceInv, ServicesTyped
  <2>10. \A d \in Enders : ender[d].at = "act" => ender[d].st \in StateIds /\ ender[d].st \in Nat /\ ender[d].st <= nstates
    BY DEF ServiceInv, ServicesTyped, OnlyMade, EnderAt, StateIds
  <2>11. OnlyMade'
    <3>1. \A d \in Enders : ender'[d].at = "act" => ender'[d].st <= nstates'
      <4> TAKE d \in Enders
      <4>1. CASE d = e
        BY <2>5, <2>6, <2>9, <4>1
      <4>2. CASE d # e
        BY <2>5, <2>9, <2>10, <4>2
      <4> QED
        BY <4>1, <4>2
    <3>2. \A u \in Users : user'[u].at = "ensure" => user'[u].st <= nstates'
      <4> TAKE u \in Users
      <4>1. user[u].at = "ensure" => user[u].st \in Nat /\ user[u].st <= nstates
        BY DEF ServiceInv, ServicesTyped, OnlyMade, UserAt, StateIds
      <4> QED
        BY <2>3, <2>5, <4>1
    <3> QED
      BY <2>5, <3>1, <3>2 DEF OnlyMade
  <2>12. Marks'
    <3>1. ASSUME NEW d \in Enders, ender'[d].at = "act"
          PROVE  /\ sstate'[ender'[d].st].stopped
                 /\ ender'[d].op = "close" => sstate'[ender'[d].st].closed
      <4>1. CASE d = e
        BY <2>5, <2>6, <2>9, <4>1
      <4>2. CASE d # e
        BY <2>5, <2>9, <2>10, <3>1, <4>2 DEF ServiceInv, Marks
      <4> QED
        BY <4>1, <4>2
    <3>2. ASSUME NEW j \in StateIds, NEW o \in {"close", "stop"}, <<j, o>> \in ended
          PROVE  sstate'[j].stopped /\ (o = "close" => sstate'[j].closed)
      <4>1. j <= nstates
        BY <3>2 DEF ServiceInv, OnlyMade
      <4> QED
        BY <2>5, <3>2, <4>1 DEF ServiceInv, Marks
    <3> QED
      BY <2>3, <3>1, <3>2 DEF Marks
  <2> QED
    BY <2>5, <2>8, <2>11, <2>12 DEF ServiceInv
<1>3. CASE EndAct(e)
  <2> DEFINE i == ender[e].st
             op == ender[e].op
  <2>1. /\ i \in StateIds /\ i <= nstates /\ op \in {"close", "stop"}
        /\ sstate[i].stopped /\ (op = "close" => sstate[i].closed)
    BY <1>3 DEF EndAct, ServiceInv, ServicesTyped, OnlyMade, Marks, EnderAt
  <2>2. /\ ended' = ended \cup {<<i, op>>}
        /\ ender' = [ender EXCEPT ![e] = Returned]
        /\ UNCHANGED <<services, sstate, nstates, smClosed, smClose, leaving, user>>
    BY <1>3 DEF EndAct
  <2>3. /\ kmux' \in [StateIds -> [open: BOOLEAN, accepting: BOOLEAN]]
        /\ \A j \in StateIds : j # i => kmux'[j] = kmux[j]
        /\ kmux'[i].open => kmux[i].open
        /\ ~kmux'[i].accepting
        /\ op = "close" => ~kmux'[i].open
    <3>1. CASE ~sstate[i].mux
      <4>1. kmux' = kmux
        BY <1>3, <3>1 DEF EndAct
      <4>2. ~kmux[i].open /\ ~kmux[i].accepting
        BY <2>1, <3>1 DEF ServiceInv, OnlyMade
      <4> QED
        BY <4>1, <4>2 DEF ServiceInv, ServicesTyped
    <3>2. CASE sstate[i].mux
      <4> DEFINE k == [kmux[i] EXCEPT !.accepting = FALSE, !.open = @ /\ op # "close"]
      <4>1. kmux' = [kmux EXCEPT ![i] = k]
        BY <1>3, <3>2 DEF EndAct
      <4>2. kmux[i] \in [open: BOOLEAN, accepting: BOOLEAN]
        BY <2>1 DEF ServiceInv, ServicesTyped
      <4>3. k \in [open: BOOLEAN, accepting: BOOLEAN] /\ (k.open <=> kmux[i].open /\ op # "close") /\ ~k.accepting
        BY <4>2
      <4> HIDE DEF k
      <4> QED
        BY <2>1, <4>1, <4>3 DEF ServiceInv, ServicesTyped
    <3> QED
      BY <3>1, <3>2
  <2>4. Returned \in EnderAt /\ Returned.at = "idle"
    BY DEF Returned, EnderAt
  <2>5. ServicesTyped'
    BY <2>2, <2>3, <2>4 DEF ServiceInv, ServicesTyped
  <2>6. \A d \in Enders : ender'[d].at = "act" => ender'[d] = ender[d]
    BY <2>2, <2>4 DEF ServiceInv, ServicesTyped
  <2>7. OnlyMade'
    <3>1. \A w \in ended' : w[1] \in StateIds /\ w[1] <= nstates
      <4> TAKE w \in ended'
      <4>1. CASE w = <<i, op>>
        BY <2>1, <4>1
      <4>2. CASE w \in ended
        BY <4>2 DEF ServiceInv, OnlyMade
      <4> QED
        BY <2>2, <4>1, <4>2
    <3>2. \A j \in StateIds : kmux'[j].open \/ kmux'[j].accepting => sstate[j].mux
      BY <2>3 DEF ServiceInv, OnlyMade
    <3>3. \A d \in Enders : ender'[d].at = "act" => ender'[d].st <= nstates
      BY <2>6 DEF ServiceInv, OnlyMade
    <3> QED
      BY <2>2, <3>1, <3>2, <3>3 DEF ServiceInv, OnlyMade
  <2>8. Marks'
    <3>1. ASSUME NEW j \in StateIds, NEW o \in {"close", "stop"}, <<j, o>> \in ended'
          PROVE  sstate[j].stopped /\ (o = "close" => sstate[j].closed)
      <4>1. CASE <<j, o>> = <<i, op>>
        BY <2>1, <4>1
      <4>2. CASE <<j, o>> \in ended
        BY <4>2 DEF ServiceInv, Marks
      <4> QED
        BY <2>2, <3>1, <4>1, <4>2
    <3> QED
      BY <2>2, <2>6, <3>1 DEF ServiceInv, Marks
  <2>9. CloseFindsAll'
    <3>1. \A j \in StateIds : kmux'[j].open => kmux[j].open
      BY <2>3
    <3> QED
      BY <2>2, <3>1 DEF ServiceInv, CloseFindsAll
  <2>10. EndsHold'
    <3> SUFFICES ASSUME NEW j \in StateIds
                 PROVE  /\ <<j, "stop">> \in ended' => ~kmux'[j].accepting
                        /\ <<j, "close">> \in ended' => ~kmux'[j].open /\ ~kmux'[j].accepting
      BY DEF EndsHold
    <3>1. CASE j = i
      <4>1. <<j, "close">> \in ended => ~kmux[j].open
        BY DEF ServiceInv, EndsHold
      <4>2. <<j, "close">> \in ended' => <<j, "close">> \in ended \/ op = "close"
        BY <2>2
      <4> QED
        BY <2>3, <3>1, <4>1, <4>2
    <3>2. CASE j # i
      <4>1. \A o : <<j, o>> \in ended' => <<j, o>> \in ended
        BY <2>2, <3>2
      <4> QED
        BY <2>3, <3>2, <4>1 DEF ServiceInv, EndsHold
    <3> QED
      BY <3>1, <3>2
  <2> QED
    BY <2>5, <2>7, <2>8, <2>9, <2>10 DEF ServiceInv
<1> QED
  BY <1>1, <1>2, <1>3

(* Close of the ServiceMux *)
LEMMA MuxCloseStep ==
  ASSUME ServiceInv,
         (\E i \in StateIds : CloseNextMux(i)) \/ CloseStore \/ CloseSwap \/ CloseReturned
  PROVE  ServiceInv'
<1> USE ServiceMuxAssumption
<1>1. ASSUME NEW i \in StateIds, CloseNextMux(i)
      PROVE  ServiceInv'
  <2>1. /\ smClose = "muxes" /\ leaving' = leaving \ {i}
        /\ UNCHANGED <<services, sstate, nstates, smClosed, smClose, user, ender, ended>>
    BY <1>1 DEF CloseNextMux
  <2>2. /\ kmux' \in [StateIds -> [open: BOOLEAN, accepting: BOOLEAN]]
        /\ ~kmux'[i].open /\ ~kmux'[i].accepting
        /\ \A j \in StateIds : j # i => kmux'[j] = kmux[j]
    BY <1>1 DEF CloseNextMux, ServiceInv, ServicesTyped
  <2>3. ServicesTyped'
    BY <2>1, <2>2 DEF ServiceInv, ServicesTyped
  <2>4. OnlyMade' /\ Marks'
    BY <2>1, <2>2 DEF ServiceInv, OnlyMade, Marks
  <2>5. CloseFindsAll'
    BY <2>1, <2>2 DEF ServiceInv, CloseFindsAll
  <2>6. EndsHold'
    BY <2>1, <2>2 DEF ServiceInv, EndsHold
  <2> QED
    BY <2>3, <2>4, <2>5, <2>6 DEF ServiceInv
<1>2. CASE CloseStore \/ CloseReturned
  <2>1. UNCHANGED <<services, sstate, nstates, kmux, leaving, user, ender, ended>>
    BY <1>2 DEF CloseStore, CloseReturned
  <2>2. CloseFindsAll' /\ smClosed' \in BOOLEAN /\ smClose' \in {"no", "swap", "muxes", "done"}
    BY <1>2 DEF CloseStore, CloseReturned, ServiceInv, CloseFindsAll, ServicesTyped
  <2>3. ServicesTyped'
    BY <2>1, <2>2 DEF ServiceInv, ServicesTyped
  <2>4. OnlyMade' /\ Marks' /\ EndsHold'
    BY <2>1 DEF ServiceInv, OnlyMade, Marks, EndsHold
  <2> QED
    BY <2>2, <2>3, <2>4 DEF ServiceInv
<1>3. CASE CloseSwap
  <2>1. /\ smClose = "swap" /\ smClose' = "muxes"
        /\ leaving' = {services[s] : s \in Services} \ {NoState}
        /\ services' = [s \in Services |-> NoState]
        /\ UNCHANGED <<sstate, nstates, kmux, smClosed, user, ender, ended>>
    BY <1>3 DEF CloseSwap
  <2>2. leaving' \subseteq StateIds
    BY <2>1 DEF ServiceInv, ServicesTyped
  <2>3. ServicesTyped'
    BY <2>1, <2>2 DEF ServiceInv, ServicesTyped
  <2>4. OnlyMade'
    <3>1. \A s \in Services : services'[s] <= nstates
      BY <2>1 DEF ServiceInv, ServicesTyped, NoState
    <3> QED
      BY <2>1, <3>1 DEF ServiceInv, OnlyMade
  <2>5. CloseFindsAll'
    <3>1. ASSUME NEW i \in StateIds, kmux[i].open PROVE i \in leaving'
      <4>1. i \in 1 .. nstates /\ i # NoState
        BY <3>1 DEF ServiceInv, ServicesTyped, OnlyMade, StateIds, NoState
      <4>2. PICK s \in Services : services[s] = i
        BY <2>1, <4>1 DEF ServiceInv, CloseFindsAll
      <4> QED
        BY <2>1, <4>1, <4>2
    <3> QED
      BY <2>1, <3>1 DEF ServiceInv, CloseFindsAll
  <2>6. Marks' /\ EndsHold'
    BY <2>1 DEF ServiceInv, Marks, EndsHold
  <2> QED
    BY <2>3, <2>4, <2>5, <2>6 DEF ServiceInv
<1> QED
  BY <1>1, <1>2, <1>3

(* What was ended stays ended: after Close no KcpMux is open, after CloseService and
   StopAcceptingService none of that service is open or accepting, also when calls that
   held the serviceState across the end make its mux later.  For any number of services
   and callers (service_mux.go: ensureKcpMux, CloseService, Close). *)
THEOREM ServicesStayEnded == ServiceMuxSpec => [](ServiceMuxTypeOK /\ EndedStaysEnded)
<1>1. ServiceMuxInit => ServiceInv
  BY ServiceStart
<1>2. ServiceInv /\ [ServiceMuxNext]_smVars => ServiceInv'
  <2> SUFFICES ASSUME ServiceInv, [ServiceMuxNext]_smVars PROVE ServiceInv'
    OBVIOUS
  <2>1. CASE UNCHANGED smVars
    BY <2>1 DEF smVars, ServiceInv, ServicesTyped, OnlyMade, Marks, CloseFindsAll, EndsHold
  <2>2. CASE \E u \in Users : (\E s \in Services : LookupService(u, s)) \/ CreateService(u) \/ ensureKcpMux(u)
    BY <2>2, UserStep
  <2>3. ASSUME NEW e \in Enders,
               \/ \E s \in Services, op \in {"close", "stop"} : EndCall(e, s, op)
               \/ EndMark(e) \/ EndAct(e)
        PROVE  ServiceInv'
    BY <2>3, EnderStep
  <2>4. CASE (\E i \in StateIds : CloseNextMux(i)) \/ CloseStore \/ CloseSwap \/ CloseReturned
    BY <2>4, MuxCloseStep
  <2> QED
    BY <2>1, <2>2, <2>3, <2>4 DEF ServiceMuxNext
<1>3. ServiceInv => ServiceMuxTypeOK /\ EndedStaysEnded
  BY DEF ServiceInv, ServicesTyped, ServiceMuxTypeOK, EndsHold, CloseFindsAll, EndedStaysEnded
<1> QED
  BY <1>1, <1>2, <1>3, PTL DEF ServiceMuxSpec
=============================================================================
