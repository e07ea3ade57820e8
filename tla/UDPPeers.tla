------------------------------ MODULE UDPPeers ------------------------------
(***************************************************************************)
(* The peer table of one core.UDP endpoint                                 *)
(* (pkg/giznet/internal/core/udp.go and peer.go): sessions, the session    *)
(* index map, pending handshakes and the service-mux generation of every   *)
(* peer, under concurrent decrypt workers, Connect callers, application    *)
(* goroutines and one Close.                                               *)
(*                                                                         *)
(* The code guards peers, byIndex and pending with u.mu and every peer's   *)
(* fields with peer.mu, and holds neither across a whole handler.  One     *)
(* action here is one critical section; a goroutine carries its local      *)
(* variables to the next one in goroutine[g].                              *)
(*                                                                         *)
(* Remote peers are the environment: a handshake initiation, a response to *)
(* an initiation we sent (any number of copies, or corrupted), and         *)
(* transport packets for any index we handed out may arrive at any time    *)
(* from any address.  Cryptography and replay are in NoiseSession; events  *)
(* emitted to OnPeerEvent do not touch this state and are left out.        *)
(***************************************************************************)
EXTENDS Integers, FiniteSets

CONSTANTS Peers,         \* public keys of remote peers
          Addr,          \* UDP addresses
          Workers,       \* decrypt workers
          Callers,       \* goroutines that call Connect
          Apps,          \* goroutines that call Peer's service-mux methods
          AllowUnknown,  \* WithAllowUnknown
          MaxIndex,      \* bound on session indices drawn
          MaxOps         \* bound on application calls and close notices

ASSUME BoundAssumption ==
  /\ AllowUnknown \in BOOLEAN
  /\ MaxIndex \in Nat
  /\ MaxOps \in Nat

(* The three kinds of goroutines are different goroutines *)
ASSUME GoroutinesDistinct ==
  /\ Workers \cap Callers = {}
  /\ Workers \cap Apps = {}
  /\ Callers \cap Apps = {}

CONSTANTS NoPeer, NoAddr

ASSUME NilAssumption == NoPeer \notin Peers /\ NoAddr \notin Addr

VARIABLES
  known,      \* keys of u.peers
  peer,       \* peerState of every public key
  byIndex,    \* u.byIndex: session index -> peer, or NoPeer
  pending,    \* keys of u.pending
  done,       \* the done channel (capacity 1) of every Connect attempt
  nextIndex,  \* session indices drawn so far: GenerateIndex, taken as unique
  nextMux,    \* service muxes created so far
  muxClosed,  \* service muxes whose Close was called
  goroutine,  \* program counter and locals of every goroutine
  closing,    \* u.closing
  closed,     \* u.closed, set together with closing closeChan
  closer,     \* the goroutine in UDP.Close
  ops         \* application calls and close notices so far

vars == <<known, peer, byIndex, pending, done, nextIndex, nextMux, muxClosed,
          goroutine, closing, closed, closer, ops>>

Goroutines == Workers \cup Callers \cup Apps
Index == 1 .. MaxIndex
NoSession == 0   \* a nil *noise.Session; a session is named by its local index
NoMux == 0       \* a nil *ServiceMux; a mux is named by its generation

States == {"new", "connecting", "established", "failed", "offline"}

PeerRecord(mux) ==
  [endpoint : Addr \cup {NoAddr}, session : Index \cup {NoSession},
   previous : Index \cup {NoSession}, state : States, mux : mux]

NewPeer == [endpoint |-> NoAddr, session |-> NoSession, previous |-> NoSession,
            state |-> "new", mux |-> NoMux]

(* pc, the peer and index in hand, and what each handler remembers between *)
(* its critical sections                                                   *)
Idle == [pc |-> "idle", peer |-> NoPeer, idx |-> NoSession, from |-> NoAddr,
         kind |-> "none", oldSession |-> NoSession, oldPrevious |-> NoSession,
         current |-> FALSE, mux |-> NoMux]

Init ==
  /\ known = {}
  /\ peer = [p \in Peers |-> NewPeer]
  /\ byIndex = [i \in Index |-> NoPeer]
  /\ pending = {}
  /\ done = [i \in Index |-> "empty"]
  /\ nextIndex = 0
  /\ nextMux = 0
  /\ muxClosed = {}
  /\ goroutine = [g \in Goroutines |-> Idle]
  /\ closing = FALSE
  /\ closed = FALSE
  /\ closer = [pc |-> "open", refs |-> {}]
  /\ ops = 0

-----------------------------------------------------------------------------
(* Shorthands *)

At(g, pc) == goroutine[g].pc = pc
Goto(g, pc) == goroutine' = [goroutine EXCEPT ![g].pc = pc]
Return(g) == goroutine' = [goroutine EXCEPT ![g] = Idle]
PeerOf(g) == goroutine[g].peer

CallOp == ops < MaxOps /\ ops' = ops + 1

tables == <<known, byIndex, pending, nextIndex>>
muxes == <<nextMux, muxClosed>>
shutdown == <<closing, closed, closer>>

-----------------------------------------------------------------------------
(* Handshake handlers, run by decrypt workers *)

(* handleHandshakeInit up to the response on the wire: the peer is looked  *)
(* up or created, an index is drawn, and the response is sent before the   *)
(* session is installed.                                                   *)
HandshakeInitReceive(w, p, from) ==
  /\ At(w, "idle")
  /\ p \in known \/ AllowUnknown
  /\ nextIndex < MaxIndex
  /\ known' = known \cup {p}
  /\ nextIndex' = nextIndex + 1
  /\ goroutine' = [goroutine EXCEPT ![w] =
       [Idle EXCEPT !.pc = "install", !.peer = p, !.idx = nextIndex + 1,
                    !.from = from, !.kind = "init"]]
  /\ UNCHANGED <<peer, byIndex, pending, done, muxes, shutdown, ops>>

(* The same, when WriteToUDP fails: the peer entry stays, nothing else *)
HandshakeInitSendFails(w, p) ==
  /\ At(w, "idle")
  /\ AllowUnknown /\ p \notin known
  /\ known' = known \cup {p}
  /\ UNCHANGED <<peer, byIndex, pending, done, nextIndex, muxes, goroutine, shutdown, ops>>

(* A lookup of the pending handshake that leaves it in the table *)
HandshakeRespReceiveKeep(w, i, from, valid) ==
  /\ At(w, "idle")
  /\ i \in pending
  /\ \E c \in Callers :
       /\ At(c, "wait") /\ goroutine[c].idx = i
       /\ goroutine' = [goroutine EXCEPT ![w] =
            [Idle EXCEPT !.pc = IF valid THEN "install" ELSE "fail",
                         !.peer = PeerOf(c), !.idx = i, !.from = from, !.kind = "resp"]]
  /\ UNCHANGED <<peer, tables, done, muxes, shutdown, ops>>

(* handleHandshakeResp: whoever finds the pending handshake removes it, so *)
(* a second copy of the response finds nothing.  valid: ReadMessage, Split *)
(* and NewSession succeed.                                                 *)
HandshakeRespReceive(w, i, from, valid) ==
  /\ At(w, "idle")
  /\ i \in pending
  /\ pending' = pending \ {i}
  /\ \E c \in Callers :
       /\ At(c, "wait") /\ goroutine[c].idx = i
       /\ goroutine' = [goroutine EXCEPT ![w] =
            [Idle EXCEPT !.pc = IF valid THEN "install" ELSE "fail",
                         !.peer = PeerOf(c), !.idx = i, !.from = from, !.kind = "resp"]]
  /\ UNCHANGED <<known, peer, byIndex, done, nextIndex, muxes, shutdown, ops>>

(* A response that does not verify marks the peer failed *)
HandshakeRespFail(w) ==
  /\ At(w, "fail")
  /\ peer' = [peer EXCEPT ![PeerOf(w)].state = "failed"]
  /\ Goto(w, "doneErr")
  /\ UNCHANGED <<tables, done, muxes, shutdown, ops>>

(* The mux a handshake leaves the peer with: the one it has, or a new one *)
ensureServiceMuxLocked(p) ==
  IF peer[p].mux = NoMux THEN nextMux + 1 ELSE peer[p].mux

(* The peer.mu section of both handlers *)
InstallSession(w) ==
  LET p == PeerOf(w)
      old == peer[p]
      mux == ensureServiceMuxLocked(p)
  IN  /\ At(w, "install")
      /\ nextMux' = IF mux > nextMux THEN mux ELSE nextMux
      /\ peer' = [peer EXCEPT ![p] =
           [endpoint |-> goroutine[w].from, session |-> goroutine[w].idx,
            previous |-> old.session, state |-> "established",
            mux |-> mux]]
      /\ goroutine' = [goroutine EXCEPT ![w].pc = "index",
                                        ![w].oldSession = old.session,
                                        ![w].oldPrevious = old.previous]
      /\ UNCHANGED <<tables, done, muxClosed, shutdown, ops>>

(* An index update that drops the session just rotated to previous *)
RegisterIndexDropsOld(w) ==
  LET g == goroutine[w]
      dropped == IF g.oldSession # NoSession /\ byIndex[g.oldSession] = g.peer
                 THEN {g.oldSession} ELSE {}
  IN  /\ At(w, "index")
      /\ byIndex' = [i \in Index |-> IF i = g.idx THEN g.peer
                                     ELSE IF i \in dropped THEN NoPeer
                                     ELSE byIndex[i]]
      /\ IF g.kind = "resp" THEN Goto(w, "doneOk") ELSE Return(w)
      /\ UNCHANGED <<known, peer, pending, done, nextIndex, muxes, shutdown, ops>>

(* The u.mu section of both handlers *)
RegisterIndex(w) ==
  LET g == goroutine[w]
      dropped == IF g.oldPrevious # NoSession /\ byIndex[g.oldPrevious] = g.peer
                 THEN {g.oldPrevious} ELSE {}
      added == {g.idx, g.oldSession} \ {NoSession}
  IN  /\ At(w, "index")
      /\ byIndex' = [i \in Index |-> IF i \in added THEN g.peer
                                     ELSE IF i \in dropped THEN NoPeer
                                     ELSE byIndex[i]]
      /\ IF g.kind = "resp" THEN Goto(w, "doneOk") ELSE Return(w)
      /\ UNCHANGED <<known, peer, pending, done, nextIndex, muxes, shutdown, ops>>

(* pending.done <- result: blocks while the channel holds a value *)
SignalDone(w) ==
  /\ At(w, "doneOk") \/ At(w, "doneErr")
  /\ done[goroutine[w].idx] # "ok" /\ done[goroutine[w].idx] # "err"
  /\ done' = [done EXCEPT ![goroutine[w].idx] = IF At(w, "doneOk") THEN "ok" ELSE "err"]
  /\ Return(w)
  /\ UNCHANGED <<peer, tables, muxes, shutdown, ops>>

-----------------------------------------------------------------------------
(* Transport packets, run by decrypt workers *)

(* transportPeerSession and Decrypt.  byIndex and the peer are read under  *)
(* two locks; an entry leaves byIndex only after its session left the      *)
(* peer, so reading both at the second read gives the same answers.        *)
TransportReceive(w, i, from, kind) ==
  LET p == byIndex[i]
  IN  /\ At(w, "idle")
      /\ p # NoPeer
      /\ i = peer[p].session \/ i = peer[p].previous
      /\ IF kind = "close" THEN CallOp ELSE UNCHANGED ops
      /\ goroutine' = [goroutine EXCEPT ![w] =
           [Idle EXCEPT !.pc = "current", !.peer = p, !.idx = i,
                        !.from = from, !.kind = kind]]
      /\ UNCHANGED <<peer, tables, done, muxes, shutdown>>

(* currentSession := peer.session; session == currentSession *)
ReadCurrent(w) ==
  /\ At(w, "current")
  /\ goroutine' = [goroutine EXCEPT
       ![w].pc = "record",
       ![w].current = (goroutine[w].idx = peer[PeerOf(w)].session)]
  /\ UNCHANGED <<peer, tables, done, muxes, shutdown, ops>>

(* recordTransportActivity, then what the payload asks for: a close notice *)
(* counts only if the session was current, and data goes to the mux read   *)
(* here or, if there is none, to the one ensureServiceMux returns.         *)
RecordActivity(w) ==
  LET g == goroutine[w]
  IN  /\ At(w, "record")
      /\ peer' = IF g.current THEN [peer EXCEPT ![g.peer].endpoint = g.from] ELSE peer
      /\ IF g.kind = "close" /\ g.current THEN Goto(w, "closeNotice")
         ELSE IF g.kind = "data" /\ peer[g.peer].mux = NoMux THEN Goto(w, "ensure")
         ELSE Return(w)
      /\ UNCHANGED <<tables, done, muxes, shutdown, ops>>

(* ClosePeerServiceMux: GetPeer's check, then CloseServiceMux(nil) *)
CloseNotice(w) ==
  /\ At(w, "closeNotice")
  /\ IF closing \/ closed THEN Return(w) ELSE Goto(w, "clear")
  /\ UNCHANGED <<peer, tables, done, muxes, shutdown, ops>>

-----------------------------------------------------------------------------
(* Service-mux generations: Peer.ServiceMux, OpenServiceMux, CloseServiceMux *)

(* The closed check of GetPeer and of Peer's methods; a Conn that closes    *)
(* its own mux generation (ifMatch) makes none.                             *)
AppCall(a, p, op, ifMatch) ==
  /\ At(a, "idle")
  /\ p \in known
  /\ (op = "clear" /\ ifMatch # NoMux) \/ (~closing /\ ~closed)
  /\ CallOp
  /\ goroutine' = [goroutine EXCEPT ![a] =
       [Idle EXCEPT !.pc = op, !.peer = p, !.mux = IF op = "clear" THEN ifMatch ELSE NoMux]]
  /\ UNCHANGED <<peer, tables, done, muxes, shutdown>>

(* An ensureServiceMux without its check for a session *)
EnsureServiceMuxAnyway(g) ==
  LET p == PeerOf(g)
  IN  /\ At(g, "ensure")
      /\ IF peer[p].mux # NoMux
         THEN UNCHANGED <<peer, nextMux>>
         ELSE /\ nextMux' = nextMux + 1
              /\ peer' = [peer EXCEPT ![p].mux = nextMux + 1, ![p].state = "established"]
      /\ Return(g)
      /\ UNCHANGED <<tables, done, muxClosed, shutdown, ops>>

EnsureServiceMux(g) ==
  LET p == PeerOf(g)
  IN  /\ At(g, "ensure")
      /\ IF peer[p].session = NoSession \/ peer[p].mux # NoMux
         THEN UNCHANGED <<peer, nextMux>>
         ELSE /\ nextMux' = nextMux + 1
              /\ peer' = [peer EXCEPT ![p].mux = nextMux + 1, ![p].state = "established"]
      /\ Return(g)
      /\ UNCHANGED <<tables, done, muxClosed, shutdown, ops>>

OpenServiceMux(g) ==
  LET p == PeerOf(g)
  IN  /\ At(g, "open")
      /\ IF peer[p].session = NoSession
         THEN Return(g) /\ UNCHANGED <<peer, nextMux>>
         ELSE /\ nextMux' = nextMux + 1
              /\ peer' = [peer EXCEPT ![p].mux = nextMux + 1, ![p].state = "established"]
              /\ IF peer[p].mux = NoMux THEN Return(g)
                 ELSE goroutine' = [goroutine EXCEPT ![g].pc = "closeMux",
                                                     ![g].mux = peer[p].mux]
      /\ UNCHANGED <<tables, done, muxClosed, shutdown, ops>>

(* CloseServiceMux(ifMatch): the mux in hand is only a generation token *)
CloseServiceMux(g) ==
  LET p == PeerOf(g)
      smux == peer[p].mux
      ifMatch == goroutine[g].mux
  IN  /\ At(g, "clear")
      /\ IF ifMatch # NoMux /\ smux # ifMatch
         THEN Return(g) /\ UNCHANGED peer
         ELSE /\ peer' = [peer EXCEPT ![p].mux = NoMux, ![p].state = "offline"]
              /\ IF smux = NoMux THEN Return(g)
                 ELSE goroutine' = [goroutine EXCEPT ![g].pc = "closeMux", ![g].mux = smux]
      /\ UNCHANGED <<tables, done, muxes, shutdown, ops>>

(* smux.Close(), after peer.mu was released *)
CloseMux(g) ==
  /\ At(g, "closeMux")
  /\ muxClosed' = muxClosed \cup {goroutine[g].mux}
  /\ Return(g)
  /\ UNCHANGED <<peer, tables, done, nextMux, shutdown, ops>>

SetPeerEndpoint(p, a) ==
  /\ ~closing /\ ~closed
  /\ CallOp
  /\ known' = known \cup {p}
  /\ peer' = [peer EXCEPT ![p].endpoint = a]
  /\ UNCHANGED <<byIndex, pending, done, nextIndex, muxes, goroutine, shutdown>>

-----------------------------------------------------------------------------
(* Connect *)

ConnectCall(c, p) ==
  /\ At(c, "idle")
  /\ p \in known
  /\ ~closing /\ ~closed
  /\ nextIndex < MaxIndex
  /\ goroutine' = [goroutine EXCEPT ![c] = [Idle EXCEPT !.pc = "connect", !.peer = p]]
  /\ UNCHANGED <<peer, tables, done, muxes, shutdown, ops>>

(* The peer.mu section of initiateHandshake.  Without an endpoint the call *)
(* returns ErrNoEndpoint and leaves the state at connecting.               *)
ConnectMark(c) ==
  LET p == PeerOf(c)
  IN  /\ At(c, "connect")
      /\ peer' = [peer EXCEPT ![p].state = "connecting"]
      /\ IF peer[p].endpoint = NoAddr THEN Return(c) ELSE Goto(c, "register")
      /\ UNCHANGED <<tables, done, muxes, shutdown, ops>>

ConnectRegister(c) ==
  /\ At(c, "register")
  /\ nextIndex < MaxIndex
  /\ nextIndex' = nextIndex + 1
  /\ pending' = pending \cup {nextIndex + 1}
  /\ goroutine' = [goroutine EXCEPT ![c].pc = "send", ![c].idx = nextIndex + 1]
  /\ UNCHANGED <<known, peer, byIndex, done, muxes, shutdown, ops>>

ConnectSend(c) ==
  /\ At(c, "send")
  /\ Goto(c, "wait")
  /\ UNCHANGED <<peer, tables, done, muxes, shutdown, ops>>

(* WriteToUDP failed: the attempt is withdrawn and the call returns *)
ConnectSendFails(c) ==
  /\ At(c, "send")
  /\ pending' = pending \ {goroutine[c].idx}
  /\ Return(c)
  /\ UNCHANGED <<known, peer, byIndex, done, nextIndex, muxes, shutdown, ops>>

ConnectDone(c) ==
  /\ At(c, "wait")
  /\ done[goroutine[c].idx] \in {"ok", "err"}
  /\ done' = [done EXCEPT ![goroutine[c].idx] = "taken"]
  /\ Return(c)
  /\ UNCHANGED <<peer, tables, muxes, shutdown, ops>>

(* time.After(5 * time.Second), possibly while a worker holds the response *)
ConnectTimeout(c) ==
  /\ At(c, "wait")
  /\ pending' = pending \ {goroutine[c].idx}
  /\ Goto(c, "timeout")
  /\ UNCHANGED <<known, peer, byIndex, done, nextIndex, muxes, shutdown, ops>>

ConnectFail(c) ==
  /\ At(c, "timeout")
  /\ peer' = [peer EXCEPT ![PeerOf(c)].state = "failed"]
  /\ Return(c)
  /\ UNCHANGED <<tables, done, muxes, shutdown, ops>>

-----------------------------------------------------------------------------
(* UDP.Close *)

(* closing.Swap(true), then the muxes of all peers are noted *)
CloseBegin ==
  /\ closer.pc = "open"
  /\ closing' = TRUE
  /\ closer' = [pc |-> "closing",
                refs |-> {r \in {<<p, peer[p].mux>> : p \in known} : r[2] # NoMux}]
  /\ UNCHANGED <<peer, tables, done, muxes, goroutine, closed, ops>>

CloseMuxes ==
  /\ closer.pc = "closing"
  /\ muxClosed' = muxClosed \cup {r[2] : r \in closer.refs}
  /\ closer' = [closer EXCEPT !.pc = "clearing"]
  /\ UNCHANGED <<peer, tables, done, nextMux, goroutine, closing, closed, ops>>

(* A clean-up that forgets to compare the mux with the one it closed *)
CloseClearAny ==
  /\ closer.pc = "clearing"
  /\ peer' = [p \in Peers |->
       IF \E r \in closer.refs : r[1] = p THEN [peer[p] EXCEPT !.mux = NoMux] ELSE peer[p]]
  /\ closed' = TRUE
  /\ closer' = [closer EXCEPT !.pc = "waiting"]
  /\ UNCHANGED <<tables, done, muxes, goroutine, closing, ops>>

(* The pointers of the closed muxes are cleared, if they are still there,  *)
(* then closed is set and closeChan closed.                                *)
CloseClear ==
  /\ closer.pc = "clearing"
  /\ peer' = [p \in Peers |->
       IF <<p, peer[p].mux>> \in closer.refs THEN [peer[p] EXCEPT !.mux = NoMux] ELSE peer[p]]
  /\ closed' = TRUE
  /\ closer' = [closer EXCEPT !.pc = "waiting"]
  /\ UNCHANGED <<tables, done, muxes, goroutine, closing, ops>>

(* A worker at its select takes the closed closeChan *)
WorkerExit(w) ==
  /\ At(w, "idle")
  /\ closed
  /\ Goto(w, "exit")
  /\ UNCHANGED <<peer, tables, done, muxes, shutdown, ops>>

(* u.wg.Wait() *)
CloseReturn ==
  /\ closer.pc = "waiting"
  /\ \A w \in Workers : At(w, "exit")
  /\ closer' = [closer EXCEPT !.pc = "returned"]
  /\ UNCHANGED <<peer, tables, done, muxes, goroutine, closing, closed, ops>>

-----------------------------------------------------------------------------
Packet(w) ==
  \/ \E p \in Peers, a \in Addr : HandshakeInitReceive(w, p, a)
  \/ \E p \in Peers : HandshakeInitSendFails(w, p)
  \/ \E i \in Index, a \in Addr, valid \in BOOLEAN : HandshakeRespReceive(w, i, a, valid)
  \/ \E i \in Index, a \in Addr, kind \in {"data", "close", "empty"} :
       TransportReceive(w, i, a, kind)

Handler(w) ==
  \/ HandshakeRespFail(w)
  \/ InstallSession(w)
  \/ RegisterIndex(w)
  \/ SignalDone(w)
  \/ ReadCurrent(w)
  \/ RecordActivity(w)
  \/ CloseNotice(w)

MuxMethod(g) ==
  \/ EnsureServiceMux(g)
  \/ OpenServiceMux(g)
  \/ CloseServiceMux(g)
  \/ CloseMux(g)

App(a) ==
  \E p \in Peers :
    \/ \E op \in {"ensure", "open"} : AppCall(a, p, op, NoMux)
    \/ \E m \in 0 .. nextMux : AppCall(a, p, "clear", m)

Connect(c) ==
  \/ ConnectMark(c)
  \/ ConnectRegister(c)
  \/ ConnectSend(c)
  \/ ConnectSendFails(c)
  \/ ConnectDone(c)
  \/ ConnectTimeout(c)
  \/ ConnectFail(c)

CloseStep == CloseMuxes \/ CloseClear \/ CloseReturn

Next ==
  \/ \E w \in Workers : Packet(w) \/ Handler(w) \/ WorkerExit(w)
  \/ \E g \in Workers \cup Apps : MuxMethod(g)
  \/ \E a \in Apps : App(a)
  \/ \E p \in Peers, a \in Addr : SetPeerEndpoint(p, a)
  \/ \E c \in Callers : (\E p \in Peers : ConnectCall(c, p)) \/ Connect(c)
  \/ CloseBegin \/ CloseStep

Spec == Init /\ [][Next]_vars

(* A worker in a handler, a goroutine in a mux method and Close keep being *)
(* scheduled; a worker at its select eventually takes the closed closeChan *)
(* (the select picks among ready cases at random, and after Close the      *)
(* packets left in decryptChan are finitely many).                         *)
Fairness ==
  /\ \A w \in Workers : WF_vars(Handler(w) \/ MuxMethod(w)) /\ SF_vars(WorkerExit(w))
  /\ \A c \in Callers : WF_vars(Connect(c))
  /\ WF_vars(CloseStep)

FairSpec == Spec /\ Fairness

-----------------------------------------------------------------------------
(* Properties *)

TypeOK ==
  /\ known \in SUBSET Peers
  /\ peer \in [Peers -> PeerRecord(0 .. nextMux)]
  /\ byIndex \in [Index -> Peers \cup {NoPeer}]
  /\ pending \in SUBSET Index
  /\ done \in [Index -> {"empty", "ok", "err", "taken"}]
  /\ nextIndex \in 0 .. MaxIndex
  /\ nextMux \in Nat
  /\ muxClosed \in SUBSET (1 .. nextMux)
  /\ goroutine \in
       [Goroutines ->
          [pc : {"idle", "install", "index", "fail", "doneOk", "doneErr", "current", "record",
                 "closeNotice", "clear", "closeMux", "ensure", "open", "connect", "register",
                 "send", "wait", "timeout", "exit"},
           peer : Peers \cup {NoPeer}, idx : Index \cup {NoSession},
           from : Addr \cup {NoAddr}, kind : {"none", "init", "resp", "data", "close", "empty"},
           oldSession : Index \cup {NoSession}, oldPrevious : Index \cup {NoSession},
           current : BOOLEAN, mux : 0 .. nextMux]]
  /\ closing \in BOOLEAN
  /\ closed \in BOOLEAN
  /\ closer.pc \in {"open", "closing", "clearing", "waiting", "returned"}
  /\ closer.refs \in SUBSET (Peers \X (1 .. nextMux))
  /\ ops \in 0 .. MaxOps

Held(p) == {peer[p].session, peer[p].previous} \ {NoSession}

(* Every session a peer holds, current or previous, is routed to it by     *)
(* byIndex, or the handler that installed or rotated it is still on its    *)
(* way to the index map: concurrent handshakes never unregister a session  *)
(* that can still receive (handleHandshakeInit/Resp, index update).        *)
SessionsIndexed ==
  \A p \in Peers : \A s \in Held(p) :
    \/ byIndex[s] = p
    \/ \E w \in Workers :
         At(w, "index") /\ PeerOf(w) = p /\ s \in {goroutine[w].idx, goroutine[w].oldSession}

(* A peer that is established, or has a service mux, has a session to send *)
(* on ("PeerStateEstablished indicates the peer has an active session").   *)
EstablishedHasSession ==
  \A p \in Peers :
    peer[p].state = "established" \/ peer[p].mux # NoMux => peer[p].session # NoSession

(* No worker ever blocks on a done channel: one Connect attempt is         *)
(* answered at most once, even when its response is duplicated and races   *)
(* with the timeout (handleHandshakeResp deletes the pending entry).       *)
DoneNeverBlocks ==
  \A w \in Workers :
    At(w, "doneOk") \/ At(w, "doneErr") => done[goroutine[w].idx] = "empty"

(* No orphan service mux: a mux that was created and not closed is its     *)
(* peer's current generation, or is in the hands of a goroutine about to   *)
(* close it (OpenServiceMux, CloseServiceMux, UDP.Close).                  *)
NoOrphanMux ==
  \A m \in (1 .. nextMux) \ muxClosed :
    \/ \E p \in Peers : peer[p].mux = m
    \/ \E g \in Goroutines : At(g, "closeMux") /\ goroutine[g].mux = m

(* UDP.Close returns: no worker it waits for is stuck in a handler (wg.Wait *)
(* in Close, the done channel in handleHandshakeResp).                      *)
CloseTerminates == (closer.pc # "open") ~> (closer.pc = "returned")

(* "Close all per-peer ServiceMux instances" (UDP.Close): when Close has    *)
(* returned, no service mux of the endpoint is left open.                   *)
CloseClosesAllMuxes ==
  closer.pc = "returned" /\ (\A g \in Goroutines : At(g, "idle") \/ At(g, "exit"))
    => 1 .. nextMux \subseteq muxClosed

(* A close notice of a session that is no longer current does not close     *)
(* the service mux of the current one (decryptTransport).                   *)
StaleCloseIgnored ==
  [][\A w \in Workers :
       At(w, "clear") /\ goroutine'[w].pc # "clear"
         /\ goroutine[w].idx # peer[PeerOf(w)].session
         => peer'[PeerOf(w)].mux = peer[PeerOf(w)].mux]_vars
=============================================================================
