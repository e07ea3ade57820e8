--------------------------- MODULE UDPPeersProofs ---------------------------
(***************************************************************************)
(* Proofs about the peer table, for any number of peers, addresses,        *)
(* workers, Connect callers and application goroutines.                    *)
(*                                                                         *)
(* The argument for the sessions: an index is drawn once and travels from  *)
(* the attempt that drew it to one worker, from there into the peer, where *)
(* it is current, then previous, then gone; it is never in two places, so  *)
(* what a worker removes from byIndex is no session any peer still holds.  *)
(* The argument for the muxes: one that loses its peer is in the hands of  *)
(* the goroutine that replaced it, or was closed before.                   *)
(***************************************************************************)
EXTENDS UDPPeers, TLAPS

GoroutinePcs ==
  {"idle", "install", "index", "fail", "doneOk", "doneErr", "current", "record",
   "closeNotice", "clear", "closeMux", "ensure", "open", "connect", "register",
   "send", "wait", "timeout", "exit"}
Kinds == {"none", "init", "resp", "data", "close", "empty"}

GoroutineRecord(mux) ==
  [pc : GoroutinePcs, peer : Peers \cup {NoPeer}, idx : Index \cup {NoSession},
   from : Addr \cup {NoAddr}, kind : Kinds,
   oldSession : Index \cup {NoSession}, oldPrevious : Index \cup {NoSession},
   current : BOOLEAN, mux : mux]

CloserRecord(mux) ==
  [pc : {"open", "closing", "clearing", "waiting", "returned"},
   refs : SUBSET (Peers \X mux)]

Typed == TypeOK /\ closer \in CloserRecord(1 .. nextMux)

(* The worker carries a handshake: between taking the message and its answer *)
HandshakePcs == {"install", "index", "fail", "doneOk", "doneErr"}
Answering(w) == goroutine[w].pc \in HandshakePcs

(* What a goroutine has in hand at each of its steps *)
HasInHand(g) ==
  /\ goroutine[g].pc \notin {"idle", "exit"} => goroutine[g].peer \in Peers
  /\ goroutine[g].pc \in HandshakePcs \cup {"send", "wait", "timeout"} =>
       goroutine[g].idx \in Index
  /\ goroutine[g].pc \in {"install", "current", "record"} => goroutine[g].from \in Addr
  /\ goroutine[g].pc \in {"fail", "doneOk", "doneErr"} => goroutine[g].kind = "resp"
  /\ goroutine[g].pc = "closeMux" => goroutine[g].mux # NoMux

Shape == \A g \in Goroutines : HasInHand(g)

(* An attempt that waits for its answer is in no worker's and no peer's hands *)
PendingApart ==
  \A i \in pending :
    /\ i <= nextIndex
    /\ done[i] = "empty"
    /\ \A p \in Peers : i \notin Held(p)
    /\ \A w \in Workers : Answering(w) => goroutine[w].idx # i
    /\ \A w \in Workers : At(w, "index") =>
         i # goroutine[w].oldSession /\ i # goroutine[w].oldPrevious

(* No two workers carry the same session, and nobody answered its attempt *)
AnswersApart ==
  \A w \in Workers : Answering(w) =>
    /\ goroutine[w].idx <= nextIndex
    /\ goroutine[w].kind = "resp" => done[goroutine[w].idx] = "empty"
    /\ \A v \in Workers : Answering(v) /\ goroutine[v].idx = goroutine[w].idx => v = w

(* A session about to be installed is not in the table, nor on its way out *)
InstallsApart ==
  \A w \in Workers : At(w, "install") =>
    /\ \A p \in Peers : goroutine[w].idx \notin Held(p)
    /\ \A v \in Workers : At(v, "index") =>
         goroutine[w].idx # goroutine[v].oldSession /\ goroutine[w].idx # goroutine[v].oldPrevious

(* What a worker rotated out no peer holds; what it put in, only its peer *)
RotatedApart ==
  \A w \in Workers : At(w, "index") =>
    /\ goroutine[w].oldSession <= nextIndex /\ goroutine[w].oldPrevious <= nextIndex
    /\ \A p \in Peers : goroutine[w].oldPrevious \notin Held(p)
    /\ \A p \in Peers : p # PeerOf(w) =>
         goroutine[w].idx \notin Held(p) /\ goroutine[w].oldSession \notin Held(p)

(* No session is held twice *)
HeldApart ==
  \A p \in Peers :
    /\ peer[p].session <= nextIndex /\ peer[p].previous <= nextIndex
    /\ peer[p].session = peer[p].previous => peer[p].session = NoSession
    /\ \A q \in Peers : p # q => Held(p) \cap Held(q) = {}

FreshEmpty == \A i \in Index : i > nextIndex => done[i] = "empty"

(* A session index is drawn once and is in one place *)
Handshakes ==
  /\ PendingApart /\ AnswersApart /\ InstallsApart /\ RotatedApart
  /\ HeldApart /\ FreshEmpty /\ SessionsIndexed

(* What Close is about to clear it has closed *)
Muxes ==
  /\ NoOrphanMux
  /\ closer.pc = "clearing" => \A r \in closer.refs : r[2] \in muxClosed

PeersInv == Typed /\ Shape /\ Handshakes /\ EstablishedHasSession /\ Muxes

-----------------------------------------------------------------------------
(* The types in the form the proofs use. *)
LEMMA TypedUnfold ==
  ASSUME Typed
  PROVE  /\ known \subseteq Peers /\ peer \in [Peers -> PeerRecord(0 .. nextMux)]
         /\ byIndex \in [Index -> Peers \cup {NoPeer}] /\ pending \subseteq Index
         /\ done \in [Index -> {"empty", "ok", "err", "taken"}]
         /\ nextIndex \in 0 .. MaxIndex /\ nextMux \in Nat
         /\ muxClosed \subseteq 1 .. nextMux
         /\ goroutine \in [Goroutines -> GoroutineRecord(0 .. nextMux)]
         /\ ops \in 0 .. MaxOps
         /\ closer \in CloserRecord(1 .. nextMux)
BY DEF Typed, TypeOK, GoroutineRecord, GoroutinePcs, Kinds

LEMMA TypedFoldNext ==
  ASSUME known' \subseteq Peers, peer' \in [Peers -> PeerRecord(0 .. nextMux')],
         byIndex' \in [Index -> Peers \cup {NoPeer}], pending' \subseteq Index,
         done' \in [Index -> {"empty", "ok", "err", "taken"}],
         nextIndex' \in 0 .. MaxIndex, nextMux' \in Nat,
         muxClosed' \subseteq 1 .. nextMux',
         goroutine' \in [Goroutines -> GoroutineRecord(0 .. nextMux')],
         ops' \in 0 .. MaxOps, closing' \in BOOLEAN, closed' \in BOOLEAN,
         closer' \in CloserRecord(1 .. nextMux')
  PROVE  Typed'
<1>1. closer'.pc \in {"open", "closing", "clearing", "waiting", "returned"}
      /\ closer'.refs \in SUBSET (Peers \X (1 .. nextMux'))
  BY DEF CloserRecord
<1> QED
  BY <1>1 DEF Typed, TypeOK, GoroutineRecord, GoroutinePcs, Kinds

(* What the ways of moving a goroutine do to it. *)
LEMMA GotoFacts ==
  ASSUME Typed, NEW g \in Goroutines, NEW x \in GoroutinePcs, Goto(g, x)
  PROVE  /\ goroutine' \in [Goroutines -> GoroutineRecord(0 .. nextMux)]
         /\ \A h \in Goroutines : h # g => goroutine'[h] = goroutine[h]
         /\ goroutine'[g].pc = x
         /\ goroutine'[g].peer = goroutine[g].peer /\ goroutine'[g].idx = goroutine[g].idx
         /\ goroutine'[g].from = goroutine[g].from /\ goroutine'[g].kind = goroutine[g].kind
         /\ goroutine'[g].oldSession = goroutine[g].oldSession
         /\ goroutine'[g].oldPrevious = goroutine[g].oldPrevious
         /\ goroutine'[g].mux = goroutine[g].mux
<1>1. goroutine \in [Goroutines -> GoroutineRecord(0 .. nextMux)]
  BY TypedUnfold
<1>2. goroutine' = [goroutine EXCEPT ![g].pc = x]
  BY DEF Goto
<1>3. goroutine'[g] = [goroutine[g] EXCEPT !.pc = x]
      /\ \A h \in Goroutines : h # g => goroutine'[h] = goroutine[h]
  BY <1>1, <1>2
<1>4. goroutine'[g] \in GoroutineRecord(0 .. nextMux)
  BY <1>1, <1>3 DEF GoroutineRecord
<1>5. goroutine' \in [Goroutines -> GoroutineRecord(0 .. nextMux)]
  BY <1>1, <1>2, <1>3, <1>4
<1> QED
  BY <1>1, <1>3, <1>5 DEF GoroutineRecord

LEMMA IdleTyped == \A n \in Nat : Idle \in GoroutineRecord(0 .. n)
BY DEF Idle, GoroutineRecord, GoroutinePcs, Kinds, NoSession, NoMux

LEMMA ReturnFacts ==
  ASSUME Typed, NEW g \in Goroutines, Return(g)
  PROVE  /\ goroutine' \in [Goroutines -> GoroutineRecord(0 .. nextMux)]
         /\ \A h \in Goroutines : h # g => goroutine'[h] = goroutine[h]
         /\ goroutine'[g].pc = "idle"
         /\ HasInHand(g)'
<1>1. goroutine \in [Goroutines -> GoroutineRecord(0 .. nextMux)] /\ nextMux \in Nat
  BY TypedUnfold
<1>2. goroutine' = [goroutine EXCEPT ![g] = Idle]
  BY DEF Return
<1>3. Idle \in GoroutineRecord(0 .. nextMux)
  BY <1>1, IdleTyped
<1>4. /\ goroutine' \in [Goroutines -> GoroutineRecord(0 .. nextMux)]
      /\ \A h \in Goroutines : h # g => goroutine'[h] = goroutine[h]
      /\ goroutine'[g] = Idle
  BY <1>1, <1>2, <1>3
<1>5. goroutine'[g].pc = "idle"
  BY <1>4 DEF Idle
<1> QED
  BY <1>4, <1>5 DEF HasInHand, HandshakePcs

(* A step that leaves the handshakes alone keeps their invariant ... *)
LEMMA QuietHandshakes ==
  ASSUME Handshakes, UNCHANGED <<byIndex, pending, done, nextIndex>>,
         \A p \in Peers : peer'[p].session = peer[p].session
                           /\ peer'[p].previous = peer[p].previous,
         \A w \in Workers :
            \/ goroutine'[w] = goroutine[w]
            \/ goroutine[w].pc \notin HandshakePcs /\ goroutine'[w].pc \notin HandshakePcs
  PROVE  Handshakes'
<1>1. \A w \in Workers :
        goroutine[w].pc \in HandshakePcs \/ goroutine'[w].pc \in HandshakePcs =>
          goroutine'[w] = goroutine[w]
  OBVIOUS
<1>2. "install" \in HandshakePcs /\ "index" \in HandshakePcs
  BY DEF HandshakePcs
<1>3. byIndex' = byIndex /\ pending' = pending /\ done' = done /\ nextIndex' = nextIndex
  OBVIOUS
<1>4. PendingApart /\ AnswersApart /\ InstallsApart /\ RotatedApart
      /\ HeldApart /\ FreshEmpty /\ SessionsIndexed
  BY DEF Handshakes
<1>6. PendingApart'
  BY <1>1, <1>2, <1>3, <1>4 DEF PendingApart, Held, At, Answering
<1>7. AnswersApart'
  BY <1>1, <1>3, <1>4 DEF AnswersApart, Answering
<1>8. InstallsApart'
  BY <1>1, <1>2, <1>3, <1>4 DEF InstallsApart, Held, At
<1>9. RotatedApart'
  BY <1>1, <1>2, <1>3, <1>4 DEF RotatedApart, PeerOf, Held, At
<1>10. HeldApart'
  BY <1>3, <1>4 DEF HeldApart, Held
<1>11. FreshEmpty'
  BY <1>3, <1>4 DEF FreshEmpty
<1>12. SessionsIndexed'
  BY <1>1, <1>2, <1>3, <1>4 DEF SessionsIndexed, PeerOf, Held, At
<1> QED
  BY <1>6, <1>7, <1>8, <1>9, <1>10, <1>11, <1>12 DEF Handshakes

(* ... and one that leaves the muxes and those about to close one alone, theirs. *)
LEMMA QuietMuxes ==
  ASSUME Muxes, UNCHANGED <<nextMux, muxClosed, closer>>,
         \A p \in Peers : peer'[p].mux = peer[p].mux,
         \A g \in Goroutines : goroutine[g].pc = "closeMux" => goroutine'[g] = goroutine[g]
  PROVE  Muxes'
BY DEF Muxes, NoOrphanMux, At

(* A step that does neither, as most of the steps. *)
LEMMA QuietStep ==
  ASSUME PeersInv, known' \subseteq Peers, ops' \in 0 .. MaxOps,
         peer' \in [Peers -> PeerRecord(0 .. nextMux)],
         goroutine' \in [Goroutines -> GoroutineRecord(0 .. nextMux)],
         UNCHANGED <<byIndex, pending, done, nextIndex, nextMux, muxClosed, shutdown>>,
         \A p \in Peers :
            /\ peer'[p].session = peer[p].session
            /\ peer'[p].previous = peer[p].previous
            /\ peer'[p].mux = peer[p].mux
            /\ \/ peer'[p].state = peer[p].state
               \/ peer'[p].state # "established",
         \A g \in Goroutines :
            \/ goroutine'[g] = goroutine[g]
            \/ /\ goroutine[g].pc \notin HandshakePcs \cup {"closeMux"}
               /\ goroutine'[g].pc \notin HandshakePcs
               /\ HasInHand(g)'
  PROVE  PeersInv'
<1>1. Typed /\ Shape /\ Handshakes /\ EstablishedHasSession /\ Muxes
  BY DEF PeersInv
<1>2. Typed'
  <2>1. /\ byIndex' \in [Index -> Peers \cup {NoPeer}] /\ pending' \subseteq Index
        /\ done' \in [Index -> {"empty", "ok", "err", "taken"}]
        /\ nextIndex' \in 0 .. MaxIndex /\ nextMux' \in Nat
        /\ muxClosed' \subseteq 1 .. nextMux'
        /\ closer' \in CloserRecord(1 .. nextMux')
    BY <1>1, TypedUnfold DEF shutdown
  <2>2. closing' \in BOOLEAN /\ closed' \in BOOLEAN
    BY <1>1 DEF shutdown, Typed, TypeOK
  <2>3. peer' \in [Peers -> PeerRecord(0 .. nextMux')]
        /\ goroutine' \in [Goroutines -> GoroutineRecord(0 .. nextMux')]
    OBVIOUS
  <2> QED
    BY <2>1, <2>2, <2>3, TypedFoldNext
<1>3. Shape'
  BY <1>1 DEF Shape, HasInHand
<1>4. \A w \in Workers : w \in Goroutines
  BY DEF Goroutines
<1>5. Handshakes'
  <2>1. \A p \in Peers : peer'[p].session = peer[p].session
                          /\ peer'[p].previous = peer[p].previous
    OBVIOUS
  <2>2. \A w \in Workers :
            \/ goroutine'[w] = goroutine[w]
            \/ goroutine[w].pc \notin HandshakePcs /\ goroutine'[w].pc \notin HandshakePcs
    BY <1>4
  <2>3. UNCHANGED <<byIndex, pending, done, nextIndex>>
    OBVIOUS
  <2> QED
    BY <1>1, <2>1, <2>2, <2>3, QuietHandshakes
<1>6. EstablishedHasSession'
  BY <1>1 DEF EstablishedHasSession
<1>7. Muxes'
  <2>1. \A p \in Peers : peer'[p].mux = peer[p].mux
    OBVIOUS
  <2>2. \A g \in Goroutines : goroutine[g].pc = "closeMux" => goroutine'[g] = goroutine[g]
    OBVIOUS
  <2>3. UNCHANGED <<nextMux, muxClosed, closer>>
    BY DEF shutdown
  <2> QED
    BY <1>1, <2>1, <2>2, <2>3, QuietMuxes
<1> QED
  BY <1>2, <1>3, <1>5, <1>6, <1>7 DEF PeersInv

(* What starting a goroutine on a handler does ... *)
LEMMA StartFacts ==
  ASSUME Typed, NEW g \in Goroutines, NEW r \in GoroutineRecord(0 .. nextMux),
         goroutine' = [goroutine EXCEPT ![g] = r]
  PROVE  /\ goroutine' \in [Goroutines -> GoroutineRecord(0 .. nextMux)]
         /\ \A h \in Goroutines : h # g => goroutine'[h] = goroutine[h]
         /\ goroutine'[g] = r
<1>1. goroutine \in [Goroutines -> GoroutineRecord(0 .. nextMux)]
  BY TypedUnfold
<1> QED
  BY <1>1

(* ... and what changing a peer's state or endpoint does. *)
LEMMA StateFacts ==
  ASSUME Typed, NEW p \in Peers, NEW s \in States, peer' = [peer EXCEPT ![p].state = s]
  PROVE  /\ peer' \in [Peers -> PeerRecord(0 .. nextMux)]
         /\ \A q \in Peers :
              /\ peer'[q].session = peer[q].session
              /\ peer'[q].previous = peer[q].previous
              /\ peer'[q].mux = peer[q].mux
         /\ \A q \in Peers : q # p => peer'[q].state = peer[q].state
         /\ peer'[p].state = s
<1>1. peer \in [Peers -> PeerRecord(0 .. nextMux)]
  BY TypedUnfold
<1>2. peer'[p] = [peer[p] EXCEPT !.state = s] /\ \A q \in Peers : q # p => peer'[q] = peer[q]
  BY <1>1
<1>3. peer'[p] \in PeerRecord(0 .. nextMux)
  BY <1>1, <1>2 DEF PeerRecord
<1>4. peer' \in [Peers -> PeerRecord(0 .. nextMux)]
  BY <1>1, <1>2, <1>3
<1> QED
  BY <1>1, <1>2, <1>4 DEF PeerRecord

LEMMA EndpointFacts ==
  ASSUME Typed, NEW p \in Peers, NEW a \in Addr, peer' = [peer EXCEPT ![p].endpoint = a]
  PROVE  /\ peer' \in [Peers -> PeerRecord(0 .. nextMux)]
         /\ \A q \in Peers :
              /\ peer'[q].session = peer[q].session
              /\ peer'[q].previous = peer[q].previous
              /\ peer'[q].mux = peer[q].mux
              /\ peer'[q].state = peer[q].state
<1>1. peer \in [Peers -> PeerRecord(0 .. nextMux)]
  BY TypedUnfold
<1>2. peer'[p] = [peer[p] EXCEPT !.endpoint = a] /\ \A q \in Peers : q # p => peer'[q] = peer[q]
  BY <1>1
<1>3. peer'[p] \in PeerRecord(0 .. nextMux)
  BY <1>1, <1>2 DEF PeerRecord
<1>4. peer' \in [Peers -> PeerRecord(0 .. nextMux)]
  BY <1>1, <1>2, <1>3
<1> QED
  BY <1>1, <1>2, <1>4 DEF PeerRecord

(* A call that counts stays within its bound. *)
LEMMA CallOpFacts ==
  ASSUME Typed, CallOp \/ UNCHANGED ops
  PROVE  ops' \in 0 .. MaxOps
<1>1. ops \in 0 .. MaxOps
  BY TypedUnfold
<1> QED
  BY <1>1, BoundAssumption DEF CallOp

-----------------------------------------------------------------------------
(* The steps that touch neither a handshake nor a mux. *)
LEMMA HandshakeInitSendFailsStep ==
  ASSUME PeersInv, NEW w \in Workers, NEW p \in Peers, HandshakeInitSendFails(w, p)
  PROVE  PeersInv'
<1>1. Typed
  BY DEF PeersInv
<1>2. known' \subseteq Peers
  BY <1>1, TypedUnfold DEF HandshakeInitSendFails
<1>3. peer' = peer /\ goroutine' = goroutine /\ ops' = ops
  BY DEF HandshakeInitSendFails
<1>4. UNCHANGED <<byIndex, pending, done, nextIndex, nextMux, muxClosed, shutdown>>
  BY DEF HandshakeInitSendFails, muxes
<1>5. /\ peer' \in [Peers -> PeerRecord(0 .. nextMux)] /\ ops' \in 0 .. MaxOps
      /\ goroutine' \in [Goroutines -> GoroutineRecord(0 .. nextMux)]
  BY <1>1, <1>3, TypedUnfold
<1> QED
  BY <1>2, <1>3, <1>4, <1>5, QuietStep

LEMMA SetPeerEndpointStep ==
  ASSUME PeersInv, NEW p \in Peers, NEW a \in Addr, SetPeerEndpoint(p, a)
  PROVE  PeersInv'
<1>1. Typed
  BY DEF PeersInv
<1>2. known' \subseteq Peers
  BY <1>1, TypedUnfold DEF SetPeerEndpoint
<1>3. goroutine' = goroutine /\ peer' = [peer EXCEPT ![p].endpoint = a]
  BY DEF SetPeerEndpoint
<1>4. UNCHANGED <<byIndex, pending, done, nextIndex, nextMux, muxClosed, shutdown>>
  BY DEF SetPeerEndpoint, muxes
<1>5. ops' \in 0 .. MaxOps
  BY <1>1, CallOpFacts DEF SetPeerEndpoint
<1>6. goroutine' \in [Goroutines -> GoroutineRecord(0 .. nextMux)]
  BY <1>1, <1>3, TypedUnfold
<1> QED
  BY <1>1, <1>2, <1>3, <1>4, <1>5, <1>6, EndpointFacts, QuietStep

(* A goroutine that was idle starts on a step that is no handshake's. *)
LEMMA StartStep ==
  ASSUME PeersInv, NEW g \in Goroutines, NEW r \in GoroutineRecord(0 .. nextMux),
         At(g, "idle"), goroutine' = [goroutine EXCEPT ![g] = r],
         r.pc \in {"current", "clear", "ensure", "open", "connect"},
         r.peer \in Peers, r.pc = "current" => r.from \in Addr,
         CallOp \/ UNCHANGED ops,
         UNCHANGED <<peer, tables, done, muxes, shutdown>>
  PROVE  PeersInv'
<1>1. Typed
  BY DEF PeersInv
<1>2. /\ goroutine' \in [Goroutines -> GoroutineRecord(0 .. nextMux)]
      /\ \A h \in Goroutines : h # g => goroutine'[h] = goroutine[h]
      /\ goroutine'[g] = r
  BY <1>1, StartFacts
<1>3. HasInHand(g)'
  BY <1>2 DEF HasInHand, HandshakePcs
<1>4. /\ goroutine[g].pc \notin HandshakePcs \cup {"closeMux"}
      /\ goroutine'[g].pc \notin HandshakePcs
  BY <1>2 DEF At, HandshakePcs
<1>5. peer' = peer /\ known' = known
      /\ UNCHANGED <<byIndex, pending, done, nextIndex, nextMux, muxClosed, shutdown>>
  BY DEF muxes, tables
<1>6. /\ peer' \in [Peers -> PeerRecord(0 .. nextMux)] /\ known' \subseteq Peers
      /\ ops' \in 0 .. MaxOps
  BY <1>1, <1>5, TypedUnfold, CallOpFacts
<1>7. \A h \in Goroutines :
        \/ goroutine'[h] = goroutine[h]
        \/ /\ goroutine[h].pc \notin HandshakePcs \cup {"closeMux"}
           /\ goroutine'[h].pc \notin HandshakePcs
           /\ HasInHand(h)'
  BY <1>2, <1>3, <1>4
<1> QED
  BY <1>2, <1>5, <1>6, <1>7, QuietStep

LEMMA TransportReceiveStep ==
  ASSUME PeersInv, NEW w \in Workers, NEW i \in Index, NEW a \in Addr,
         NEW kind \in {"data", "close", "empty"}, TransportReceive(w, i, a, kind)
  PROVE  PeersInv'
<1> DEFINE r == [Idle EXCEPT !.pc = "current", !.peer = byIndex[i], !.idx = i,
                             !.from = a, !.kind = kind]
<1>1. Typed /\ w \in Goroutines
  BY DEF PeersInv, Goroutines
<1>2. At(w, "idle") /\ goroutine' = [goroutine EXCEPT ![w] = r]
      /\ UNCHANGED <<peer, tables, done, muxes, shutdown>>
  BY DEF TransportReceive
<1>3. CallOp \/ UNCHANGED ops
  BY DEF TransportReceive
<1>4. byIndex[i] \in Peers /\ nextMux \in Nat
  BY <1>1, TypedUnfold DEF TransportReceive
<1>5. r \in GoroutineRecord(0 .. nextMux) /\ r.pc = "current" /\ r.peer \in Peers /\ r.from \in Addr
  <2>1. Idle \in GoroutineRecord(0 .. nextMux)
    BY <1>4, IdleTyped
  <2> QED
    BY <1>4, <2>1 DEF GoroutineRecord, GoroutinePcs, Kinds, NoSession, NoMux
<1> HIDE DEF r
<1> QED
  BY <1>1, <1>2, <1>3, <1>5, StartStep

LEMMA AppCallStep ==
  ASSUME PeersInv, NEW g \in Apps, NEW p \in Peers, NEW op \in {"ensure", "open", "clear"},
         NEW m \in 0 .. nextMux, AppCall(g, p, op, m)
  PROVE  PeersInv'
<1> DEFINE mx == IF op = "clear" THEN m ELSE NoMux
           r == [Idle EXCEPT !.pc = op, !.peer = p, !.mux = mx]
<1>1. Typed /\ g \in Goroutines
  BY DEF PeersInv, Goroutines
<1>2. At(g, "idle") /\ goroutine' = [goroutine EXCEPT ![g] = r]
      /\ UNCHANGED <<peer, tables, done, muxes, shutdown>>
  BY DEF AppCall
<1>3. CallOp
  BY DEF AppCall
<1>4. nextMux \in Nat /\ mx \in 0 .. nextMux
  BY <1>1, TypedUnfold DEF NoMux
<1> HIDE DEF mx
<1>5. /\ r \in GoroutineRecord(0 .. nextMux) /\ r.pc \in {"ensure", "open", "clear"}
      /\ r.peer \in Peers
  <2>1. Idle \in GoroutineRecord(0 .. nextMux)
    BY <1>4, IdleTyped
  <2> QED
    BY <1>4, <2>1 DEF GoroutineRecord, GoroutinePcs, Kinds
<1> HIDE DEF r
<1> QED
  BY <1>1, <1>2, <1>3, <1>5, StartStep

LEMMA ConnectCallStep ==
  ASSUME PeersInv, NEW c \in Callers, NEW p \in Peers, ConnectCall(c, p)
  PROVE  PeersInv'
<1> DEFINE r == [Idle EXCEPT !.pc = "connect", !.peer = p]
<1>1. Typed /\ c \in Goroutines
  BY DEF PeersInv, Goroutines
<1>2. At(c, "idle") /\ goroutine' = [goroutine EXCEPT ![c] = r]
      /\ UNCHANGED <<peer, tables, done, muxes, shutdown>> /\ UNCHANGED ops
  BY DEF ConnectCall
<1>4. nextMux \in Nat
  BY <1>1, TypedUnfold
<1>5. r \in GoroutineRecord(0 .. nextMux) /\ r.pc = "connect" /\ r.peer \in Peers
  <2>1. Idle \in GoroutineRecord(0 .. nextMux)
    BY <1>4, IdleTyped
  <2> QED
    BY <1>4, <2>1 DEF GoroutineRecord, GoroutinePcs, Kinds, NoSession, NoMux
<1> HIDE DEF r
<1> QED
  BY <1>1, <1>2, <1>5, StartStep

(* A goroutine goes on or returns, and may set a peer's endpoint or leave the *)
(* established state.                                                         *)
LEMMA MoveStep ==
  ASSUME PeersInv, NEW g \in Goroutines,
         goroutine[g].pc \notin HandshakePcs \cup {"closeMux"},
         goroutine'[g].pc \notin HandshakePcs, HasInHand(g)',
         \A h \in Goroutines : h # g => goroutine'[h] = goroutine[h],
         goroutine' \in [Goroutines -> GoroutineRecord(0 .. nextMux)],
         peer' \in [Peers -> PeerRecord(0 .. nextMux)],
         \A p \in Peers :
            /\ peer'[p].session = peer[p].session
            /\ peer'[p].previous = peer[p].previous
            /\ peer'[p].mux = peer[p].mux
            /\ \/ peer'[p].state = peer[p].state
               \/ peer'[p].state # "established",
         UNCHANGED <<tables, done, muxes, shutdown, ops>>
  PROVE  PeersInv'
<1>1. Typed
  BY DEF PeersInv
<1>2. ops' = ops /\ known' = known
      /\ UNCHANGED <<byIndex, pending, done, nextIndex, nextMux, muxClosed, shutdown>>
  BY DEF muxes, tables
<1>3. known' \subseteq Peers /\ ops' \in 0 .. MaxOps
  BY <1>1, <1>2, TypedUnfold
<1>4. \A h \in Goroutines :
        \/ goroutine'[h] = goroutine[h]
        \/ /\ goroutine[h].pc \notin HandshakePcs \cup {"closeMux"}
           /\ goroutine'[h].pc \notin HandshakePcs
           /\ HasInHand(h)'
  OBVIOUS
<1> QED
  BY <1>2, <1>3, <1>4, QuietStep

LEMMA ReadCurrentStep ==
  ASSUME PeersInv, NEW w \in Workers, ReadCurrent(w)
  PROVE  PeersInv'
<1> DEFINE cur == (goroutine[w].idx = peer[PeerOf(w)].session)
           r == [goroutine[w] EXCEPT !.pc = "record", !.current = cur]
<1>1. Typed /\ w \in Goroutines /\ HasInHand(w)
  BY DEF PeersInv, Goroutines, Shape
<1>2. /\ goroutine \in [Goroutines -> GoroutineRecord(0 .. nextMux)]
      /\ peer \in [Peers -> PeerRecord(0 .. nextMux)]
  BY <1>1, TypedUnfold
<1>3. goroutine[w].pc = "current" /\ peer' = peer
      /\ UNCHANGED <<tables, done, muxes, shutdown, ops>>
  BY DEF ReadCurrent, At
<1>4. cur \in BOOLEAN
  OBVIOUS
<1>5. goroutine' = [goroutine EXCEPT ![w] = r]
  BY <1>1, <1>2 DEF ReadCurrent
<1> HIDE DEF cur
<1>6. r \in GoroutineRecord(0 .. nextMux)
  <2>1. goroutine[w] \in GoroutineRecord(0 .. nextMux)
    BY <1>1, <1>2
  <2> QED
    BY <1>4, <2>1 DEF GoroutineRecord, GoroutinePcs
<1>7. r.pc = "record" /\ r.peer \in Peers /\ r.from \in Addr
  BY <1>1, <1>2, <1>3 DEF GoroutineRecord, HasInHand
<1> HIDE DEF r
<1>8. /\ goroutine' \in [Goroutines -> GoroutineRecord(0 .. nextMux)]
      /\ \A h \in Goroutines : h # w => goroutine'[h] = goroutine[h]
      /\ goroutine'[w] = r
  BY <1>1, <1>5, <1>6, StartFacts
<1>9. HasInHand(w)' /\ goroutine'[w].pc \notin HandshakePcs
  BY <1>7, <1>8 DEF HasInHand, HandshakePcs
<1>10. goroutine[w].pc \notin HandshakePcs \cup {"closeMux"}
  BY <1>3 DEF HandshakePcs
<1>11. peer' \in [Peers -> PeerRecord(0 .. nextMux)]
  BY <1>2, <1>3
<1> QED
  BY <1>1, <1>3, <1>8, <1>9, <1>10, <1>11, MoveStep

(* The goroutine's own part of such a step, going on or returning. *)
LEMMA MoveTo ==
  ASSUME PeersInv, NEW g \in Goroutines, NEW x \in GoroutinePcs, Goto(g, x) \/ Return(g),
         goroutine[g].pc \in {"record", "closeNotice", "connect", "send", "timeout", "idle"},
         x \notin HandshakePcs \cup {"closeMux", "current"},
         x \in {"send", "wait", "timeout"} => goroutine[g].pc = "send",
         goroutine[g].pc = "idle" => x = "exit",
         x = "record" => goroutine[g].pc = "record",
         peer' \in [Peers -> PeerRecord(0 .. nextMux)],
         \A p \in Peers :
            /\ peer'[p].session = peer[p].session
            /\ peer'[p].previous = peer[p].previous
            /\ peer'[p].mux = peer[p].mux
            /\ \/ peer'[p].state = peer[p].state
               \/ peer'[p].state # "established",
         UNCHANGED <<tables, done, muxes, shutdown, ops>>
  PROVE  PeersInv'
<1>1. Typed /\ HasInHand(g)
  BY DEF PeersInv, Shape
<1>2. goroutine[g].pc \notin HandshakePcs \cup {"closeMux"}
  BY DEF HandshakePcs
<1>3. CASE Goto(g, x)
  <2>1. /\ goroutine' \in [Goroutines -> GoroutineRecord(0 .. nextMux)]
        /\ \A h \in Goroutines : h # g => goroutine'[h] = goroutine[h]
        /\ goroutine'[g].pc = x
        /\ goroutine'[g].peer = goroutine[g].peer /\ goroutine'[g].idx = goroutine[g].idx
        /\ goroutine'[g].from = goroutine[g].from /\ goroutine'[g].kind = goroutine[g].kind
    BY <1>1, <1>3, GotoFacts
  <2>2. HasInHand(g)'
    BY <1>1, <2>1 DEF HasInHand, HandshakePcs
  <2> QED
    BY <1>2, <2>1, <2>2, MoveStep
<1>4. CASE Return(g)
  <2>1. /\ goroutine' \in [Goroutines -> GoroutineRecord(0 .. nextMux)]
        /\ \A h \in Goroutines : h # g => goroutine'[h] = goroutine[h]
        /\ goroutine'[g].pc = "idle"
        /\ HasInHand(g)'
    BY <1>1, <1>4, ReturnFacts
  <2>2. goroutine'[g].pc \notin HandshakePcs
    BY <2>1 DEF HandshakePcs
  <2> QED
    BY <1>2, <2>1, <2>2, MoveStep
<1> QED
  BY <1>3, <1>4

LEMMA RecordActivityStep ==
  ASSUME PeersInv, NEW w \in Workers, RecordActivity(w)
  PROVE  PeersInv'
<1>1. Typed /\ w \in Goroutines /\ HasInHand(w)
  BY DEF PeersInv, Goroutines, Shape
<1>2. goroutine[w].pc = "record" /\ UNCHANGED <<tables, done, muxes, shutdown, ops>>
      /\ (Goto(w, "closeNotice") \/ Goto(w, "ensure") \/ Return(w))
  BY DEF RecordActivity, At
<1>3. goroutine[w].peer \in Peers /\ goroutine[w].from \in Addr
  BY <1>1, <1>2 DEF HasInHand
<1>4. peer' = peer \/ peer' = [peer EXCEPT ![goroutine[w].peer].endpoint = goroutine[w].from]
  BY DEF RecordActivity
<1>5. /\ peer' \in [Peers -> PeerRecord(0 .. nextMux)]
      /\ \A p \in Peers :
            /\ peer'[p].session = peer[p].session
            /\ peer'[p].previous = peer[p].previous
            /\ peer'[p].mux = peer[p].mux
            /\ peer'[p].state = peer[p].state
  <2>1. CASE peer' = peer
    BY <1>1, <2>1, TypedUnfold
  <2>2. CASE peer' = [peer EXCEPT ![goroutine[w].peer].endpoint = goroutine[w].from]
    BY <1>1, <1>3, <2>2, EndpointFacts
  <2> QED
    BY <1>4, <2>1, <2>2
<1>6. /\ "closeNotice" \in GoroutinePcs /\ "ensure" \in GoroutinePcs
      /\ "closeNotice" \notin HandshakePcs /\ "ensure" \notin HandshakePcs
  BY DEF GoroutinePcs, HandshakePcs
<1>7. CASE Goto(w, "closeNotice")
  BY <1>1, <1>2, <1>5, <1>6, <1>7, MoveTo
<1>8. CASE Goto(w, "ensure") \/ Return(w)
  BY <1>1, <1>2, <1>5, <1>6, <1>8, MoveTo
<1> QED
  BY <1>2, <1>7, <1>8

LEMMA CloseNoticeStep ==
  ASSUME PeersInv, NEW w \in Workers, CloseNotice(w)
  PROVE  PeersInv'
<1>1. Typed /\ w \in Goroutines
  BY DEF PeersInv, Goroutines
<1>2. goroutine[w].pc = "closeNotice" /\ UNCHANGED <<tables, done, muxes, shutdown, ops>>
      /\ (Goto(w, "clear") \/ Return(w)) /\ peer' = peer
  BY DEF CloseNotice, At
<1>3. peer' \in [Peers -> PeerRecord(0 .. nextMux)]
  BY <1>1, <1>2, TypedUnfold
<1>4. "clear" \in GoroutinePcs /\ "clear" \notin HandshakePcs
  BY DEF GoroutinePcs, HandshakePcs
<1> QED
  BY <1>1, <1>2, <1>3, <1>4, MoveTo

LEMMA ConnectMarkStep ==
  ASSUME PeersInv, NEW c \in Callers, ConnectMark(c)
  PROVE  PeersInv'
<1>1. Typed /\ c \in Goroutines /\ HasInHand(c)
  BY DEF PeersInv, Goroutines, Shape
<1>2. /\ goroutine[c].pc = "connect" /\ UNCHANGED <<tables, done, muxes, shutdown, ops>>
      /\ Goto(c, "register") \/ Return(c)
      /\ peer' = [peer EXCEPT ![goroutine[c].peer].state = "connecting"]
  BY DEF ConnectMark, At, PeerOf
<1>3. goroutine[c].peer \in Peers /\ "connecting" \in States
  BY <1>1, <1>2 DEF HasInHand, States
<1>4. /\ peer' \in [Peers -> PeerRecord(0 .. nextMux)]
      /\ \A p \in Peers :
            /\ peer'[p].session = peer[p].session
            /\ peer'[p].previous = peer[p].previous
            /\ peer'[p].mux = peer[p].mux
            /\ \/ peer'[p].state = peer[p].state
               \/ peer'[p].state # "established"
  BY <1>1, <1>2, <1>3, StateFacts
<1>5. "register" \in GoroutinePcs /\ "register" \notin HandshakePcs
  BY DEF GoroutinePcs, HandshakePcs
<1> QED
  BY <1>1, <1>2, <1>4, <1>5, MoveTo

LEMMA ConnectFailStep ==
  ASSUME PeersInv, NEW c \in Callers, ConnectFail(c)
  PROVE  PeersInv'
<1>1. Typed /\ c \in Goroutines /\ HasInHand(c)
  BY DEF PeersInv, Goroutines, Shape
<1>2. /\ goroutine[c].pc = "timeout" /\ UNCHANGED <<tables, done, muxes, shutdown, ops>>
      /\ Return(c)
      /\ peer' = [peer EXCEPT ![goroutine[c].peer].state = "failed"]
  BY DEF ConnectFail, At, PeerOf
<1>3. goroutine[c].peer \in Peers /\ "failed" \in States
  BY <1>1, <1>2 DEF HasInHand, States
<1>4. /\ peer' \in [Peers -> PeerRecord(0 .. nextMux)]
      /\ \A p \in Peers :
            /\ peer'[p].session = peer[p].session
            /\ peer'[p].previous = peer[p].previous
            /\ peer'[p].mux = peer[p].mux
            /\ \/ peer'[p].state = peer[p].state
               \/ peer'[p].state # "established"
  BY <1>1, <1>2, <1>3, StateFacts
<1>5. "exit" \in GoroutinePcs /\ "exit" \notin HandshakePcs
  BY DEF GoroutinePcs, HandshakePcs
<1> QED
  BY <1>1, <1>2, <1>4, <1>5, MoveTo

LEMMA ConnectSendStep ==
  ASSUME PeersInv, NEW c \in Callers, ConnectSend(c)
  PROVE  PeersInv'
<1>1. Typed /\ c \in Goroutines
  BY DEF PeersInv, Goroutines
<1>2. goroutine[c].pc = "send" /\ UNCHANGED <<tables, done, muxes, shutdown, ops>>
      /\ Goto(c, "wait") /\ peer' = peer
  BY DEF ConnectSend, At
<1>3. peer' \in [Peers -> PeerRecord(0 .. nextMux)]
  BY <1>1, <1>2, TypedUnfold
<1>4. "wait" \in GoroutinePcs /\ "wait" \notin HandshakePcs
  BY DEF GoroutinePcs, HandshakePcs
<1> QED
  BY <1>1, <1>2, <1>3, <1>4, MoveTo

LEMMA WorkerExitStep ==
  ASSUME PeersInv, NEW w \in Workers, WorkerExit(w)
  PROVE  PeersInv'
<1>1. Typed /\ w \in Goroutines
  BY DEF PeersInv, Goroutines
<1>2. goroutine[w].pc = "idle" /\ UNCHANGED <<tables, done, muxes, shutdown, ops>>
      /\ Goto(w, "exit") /\ peer' = peer
  BY DEF WorkerExit, At
<1>3. peer' \in [Peers -> PeerRecord(0 .. nextMux)]
  BY <1>1, <1>2, TypedUnfold
<1>4. "exit" \in GoroutinePcs /\ "exit" \notin HandshakePcs
  BY DEF GoroutinePcs, HandshakePcs
<1> QED
  BY <1>1, <1>2, <1>3, <1>4, MoveTo

-----------------------------------------------------------------------------
(* The steps of the handshakes. *)
LEMMA NatFacts ==
  ASSUME Typed
  PROVE  /\ nextIndex \in Nat /\ MaxIndex \in Nat /\ Index \subseteq Nat /\ 0 \notin Index
         /\ \A p \in Peers : peer[p].session \in Index \cup {0} /\ peer[p].previous \in Index \cup {0}
         /\ \A g \in Goroutines :
              /\ goroutine[g].idx \in Index \cup {0}
              /\ goroutine[g].oldSession \in Index \cup {0}
              /\ goroutine[g].oldPrevious \in Index \cup {0}
<1>1. nextIndex \in Nat /\ MaxIndex \in Nat /\ Index \subseteq Nat /\ 0 \notin Index
  BY TypedUnfold, BoundAssumption DEF Index
<1>2. \A p \in Peers : peer[p].session \in Index \cup {0} /\ peer[p].previous \in Index \cup {0}
  BY TypedUnfold DEF PeerRecord, NoSession
<1>3. \A g \in Goroutines :
        /\ goroutine[g].idx \in Index \cup {0}
        /\ goroutine[g].oldSession \in Index \cup {0}
        /\ goroutine[g].oldPrevious \in Index \cup {0}
  BY TypedUnfold DEF GoroutineRecord, NoSession
<1> QED
  BY <1>1, <1>2, <1>3

(* The next index is none that was drawn. *)
LEMMA NextIndexFresh ==
  ASSUME Typed
  PROVE  \A x \in Index \cup {0} : x <= nextIndex => x # nextIndex + 1 /\ x <= nextIndex + 1
<1>1. nextIndex \in Nat /\ Index \subseteq Nat
  BY NatFacts
<1> QED
  BY <1>1

LEMMA HandshakesUnfold ==
  ASSUME PeersInv
  PROVE  /\ Typed /\ PendingApart /\ AnswersApart /\ InstallsApart /\ RotatedApart
         /\ HeldApart /\ FreshEmpty /\ SessionsIndexed
BY DEF PeersInv, Handshakes

(* A step that moves one goroutine and leaves the muxes alone is right if *)
(* the handshakes are.                                                    *)
LEMMA TableStep ==
  ASSUME PeersInv, NEW g \in Goroutines,
         goroutine[g].pc # "closeMux", HasInHand(g)',
         \A h \in Goroutines : h # g => goroutine'[h] = goroutine[h],
         goroutine' \in [Goroutines -> GoroutineRecord(0 .. nextMux)],
         peer' \in [Peers -> PeerRecord(0 .. nextMux)],
         \A p \in Peers :
            /\ peer'[p].session = peer[p].session
            /\ peer'[p].mux = peer[p].mux
            /\ \/ peer'[p].state = peer[p].state
               \/ peer'[p].state # "established",
         known' \subseteq Peers, byIndex' \in [Index -> Peers \cup {NoPeer}],
         pending' \subseteq Index, done' \in [Index -> {"empty", "ok", "err", "taken"}],
         nextIndex' \in 0 .. MaxIndex,
         UNCHANGED <<muxes, shutdown, ops>>,
         Handshakes'
  PROVE  PeersInv'
<1>1. Typed /\ Shape /\ EstablishedHasSession /\ Muxes
  BY DEF PeersInv
<1>2. Typed'
  <2>1. /\ nextMux' \in Nat /\ muxClosed' \subseteq 1 .. nextMux'
        /\ closer' \in CloserRecord(1 .. nextMux') /\ ops' \in 0 .. MaxOps
    BY <1>1, TypedUnfold DEF shutdown, muxes
  <2>2. closing' \in BOOLEAN /\ closed' \in BOOLEAN
    BY <1>1 DEF shutdown, Typed, TypeOK
  <2>3. peer' \in [Peers -> PeerRecord(0 .. nextMux')]
        /\ goroutine' \in [Goroutines -> GoroutineRecord(0 .. nextMux')]
    BY DEF muxes
  <2> QED
    BY <2>1, <2>2, <2>3, TypedFoldNext
<1>3. Shape'
  BY <1>1 DEF Shape, HasInHand
<1>4. EstablishedHasSession'
  BY <1>1 DEF EstablishedHasSession
<1>5. Muxes'
  <2>1. \A p \in Peers : peer'[p].mux = peer[p].mux
    OBVIOUS
  <2>2. \A h \in Goroutines : goroutine[h].pc = "closeMux" => goroutine'[h] = goroutine[h]
    OBVIOUS
  <2>3. UNCHANGED <<nextMux, muxClosed, closer>>
    BY DEF shutdown, muxes
  <2> QED
    BY <1>1, <2>1, <2>2, <2>3, QuietMuxes
<1> QED
  BY <1>2, <1>3, <1>4, <1>5 DEF PeersInv

LEMMA HandshakeInitReceiveStep ==
  ASSUME PeersInv, NEW w \in Workers, NEW p0 \in Peers, NEW a \in Addr,
         HandshakeInitReceive(w, p0, a)
  PROVE  PeersInv'
<1> DEFINE r == [Idle EXCEPT !.pc = "install", !.peer = p0, !.idx = nextIndex + 1,
                             !.from = a, !.kind = "init"]
<1>1. /\ goroutine[w].pc = "idle" /\ nextIndex < MaxIndex /\ known' = known \cup {p0}
      /\ nextIndex' = nextIndex + 1 /\ goroutine' = [goroutine EXCEPT ![w] = r]
      /\ peer' = peer /\ byIndex' = byIndex /\ pending' = pending /\ done' = done
      /\ UNCHANGED <<muxes, shutdown, ops>>
  BY DEF HandshakeInitReceive, At
<1>2. /\ Typed /\ PendingApart /\ AnswersApart /\ InstallsApart /\ RotatedApart
      /\ HeldApart /\ FreshEmpty /\ SessionsIndexed
  BY HandshakesUnfold
<1>3. w \in Goroutines /\ Workers \subseteq Goroutines
  BY DEF Goroutines
<1>4. /\ nextIndex \in Nat /\ MaxIndex \in Nat /\ Index \subseteq Nat /\ 0 \notin Index
      /\ \A p \in Peers : peer[p].session \in Index \cup {0} /\ peer[p].previous \in Index \cup {0}
      /\ \A g \in Goroutines :
              /\ goroutine[g].idx \in Index \cup {0}
              /\ goroutine[g].oldSession \in Index \cup {0}
              /\ goroutine[g].oldPrevious \in Index \cup {0}
  BY <1>2, NatFacts
<1>5. nextIndex + 1 \in Index /\ nextIndex' \in 0 .. MaxIndex
  BY <1>1, <1>4 DEF Index
<1>6. /\ r \in GoroutineRecord(0 .. nextMux) /\ r.pc = "install" /\ r.peer = p0
      /\ r.idx = nextIndex + 1 /\ r.from = a /\ r.kind = "init"
  <2>1. Idle \in GoroutineRecord(0 .. nextMux)
    BY <1>2, TypedUnfold, IdleTyped
  <2> QED
    BY <1>5, <2>1 DEF GoroutineRecord, GoroutinePcs, Kinds
<1> HIDE DEF r
<1>7. /\ goroutine' \in [Goroutines -> GoroutineRecord(0 .. nextMux)]
      /\ \A h \in Goroutines : h # w => goroutine'[h] = goroutine[h]
      /\ goroutine'[w] = r
  BY <1>1, <1>2, <1>3, <1>6, StartFacts
<1>8. \A v \in Workers : v # w => goroutine'[v] = goroutine[v]
  BY <1>3, <1>7
<1>9. HasInHand(w)'
  BY <1>5, <1>6, <1>7 DEF HasInHand
<1>10. \A i \in pending : i # nextIndex + 1 /\ i <= nextIndex' /\ i <= nextIndex
  <2>1. \A i \in pending : i \in Index /\ i <= nextIndex
    BY <1>2, TypedUnfold DEF PendingApart
  <2> QED
    BY <1>1, <1>2, <2>1, NextIndexFresh
<1>11. \A v \in Workers : goroutine[v].pc \in HandshakePcs =>
         goroutine[v].idx # nextIndex + 1 /\ goroutine[v].idx <= nextIndex'
  <2>1. \A v \in Workers : goroutine[v].pc \in HandshakePcs =>
          goroutine[v].idx \in Index \cup {0} /\ goroutine[v].idx <= nextIndex
    BY <1>2, <1>3, <1>4 DEF AnswersApart, Answering
  <2> QED
    BY <1>1, <1>2, <2>1, NextIndexFresh
<1>12. \A v \in Workers : goroutine[v].pc = "index" =>
         /\ goroutine[v].oldSession # nextIndex + 1 /\ goroutine[v].oldSession <= nextIndex'
         /\ goroutine[v].oldPrevious # nextIndex + 1 /\ goroutine[v].oldPrevious <= nextIndex'
  <2>1. \A v \in Workers : goroutine[v].pc = "index" =>
          /\ goroutine[v].oldSession \in Index \cup {0} /\ goroutine[v].oldSession <= nextIndex
          /\ goroutine[v].oldPrevious \in Index \cup {0} /\ goroutine[v].oldPrevious <= nextIndex
    BY <1>2, <1>3, <1>4 DEF RotatedApart, At
  <2> QED
    BY <1>1, <1>2, <2>1, NextIndexFresh
<1>13. \A p \in Peers :
         /\ peer[p].session # nextIndex + 1 /\ peer[p].session <= nextIndex'
         /\ peer[p].previous # nextIndex + 1 /\ peer[p].previous <= nextIndex'
  <2>1. \A p \in Peers :
          /\ peer[p].session \in Index \cup {0} /\ peer[p].session <= nextIndex
          /\ peer[p].previous \in Index \cup {0} /\ peer[p].previous <= nextIndex
    BY <1>2, <1>4 DEF HeldApart
  <2> QED
    BY <1>1, <1>2, <2>1, NextIndexFresh
<1>14. goroutine'[w].pc = "install" /\ goroutine'[w].idx = nextIndex + 1
       /\ goroutine'[w].kind = "init" /\ nextIndex + 1 <= nextIndex'
  BY <1>1, <1>4, <1>6, <1>7
<1>15. PendingApart'
  BY <1>1, <1>2, <1>8, <1>10, <1>14 DEF PendingApart, Held, At, Answering
<1>16. AnswersApart'
  BY <1>1, <1>2, <1>8, <1>11, <1>14 DEF AnswersApart, Answering
<1>17. InstallsApart'
  BY <1>1, <1>2, <1>8, <1>12, <1>13, <1>14 DEF InstallsApart, Held, At
<1>18. RotatedApart'
  BY <1>1, <1>2, <1>8, <1>12, <1>14 DEF RotatedApart, Held, At, PeerOf
<1>19. HeldApart'
  BY <1>1, <1>2, <1>13 DEF HeldApart, Held
<1>20. FreshEmpty'
  BY <1>1, <1>2, <1>4 DEF FreshEmpty
<1>21. SessionsIndexed'
  BY <1>1, <1>2, <1>8 DEF SessionsIndexed, Held, At, PeerOf
<1>22. Handshakes'
  BY <1>15, <1>16, <1>17, <1>18, <1>19, <1>20, <1>21 DEF Handshakes
<1>23. /\ known' \subseteq Peers /\ byIndex' \in [Index -> Peers \cup {NoPeer}]
       /\ pending' \subseteq Index /\ done' \in [Index -> {"empty", "ok", "err", "taken"}]
       /\ peer' \in [Peers -> PeerRecord(0 .. nextMux)]
  BY <1>1, <1>2, TypedUnfold
<1> QED
  BY <1>1, <1>3, <1>5, <1>7, <1>9, <1>22, <1>23, TableStep

LEMMA HandshakeRespReceiveStep ==
  ASSUME PeersInv, NEW w \in Workers, NEW i0 \in Index, NEW a \in Addr, NEW valid \in BOOLEAN,
         HandshakeRespReceive(w, i0, a, valid)
  PROVE  PeersInv'
<1> DEFINE x == IF valid THEN "install" ELSE "fail"
<1>1. /\ goroutine[w].pc = "idle" /\ i0 \in pending /\ pending' = pending \ {i0}
      /\ known' = known /\ nextIndex' = nextIndex
      /\ peer' = peer /\ byIndex' = byIndex /\ done' = done
      /\ UNCHANGED <<muxes, shutdown, ops>>
  BY DEF HandshakeRespReceive, At
<1>2. PICK c \in Callers :
        /\ goroutine[c].pc = "wait"
        /\ goroutine' = [goroutine EXCEPT ![w] =
             [Idle EXCEPT !.pc = x, !.peer = goroutine[c].peer, !.idx = i0,
                          !.from = a, !.kind = "resp"]]
  BY DEF HandshakeRespReceive, At, PeerOf
<1> DEFINE q == goroutine[c].peer
           r == [Idle EXCEPT !.pc = x, !.peer = q, !.idx = i0, !.from = a, !.kind = "resp"]
<1>3. /\ Typed /\ Shape /\ PendingApart /\ AnswersApart /\ InstallsApart /\ RotatedApart
      /\ HeldApart /\ FreshEmpty /\ SessionsIndexed
  BY HandshakesUnfold DEF PeersInv
<1>4. w \in Goroutines /\ c \in Goroutines /\ Workers \subseteq Goroutines
  BY DEF Goroutines
<1>5. q \in Peers
  BY <1>2, <1>3, <1>4 DEF Shape, HasInHand
<1>6. x \in {"install", "fail"} /\ goroutine' = [goroutine EXCEPT ![w] = r]
  BY <1>2
<1> HIDE DEF x, q
<1>7. /\ r \in GoroutineRecord(0 .. nextMux) /\ r.pc \in {"install", "fail"} /\ r.peer \in Peers
      /\ r.idx = i0 /\ r.from = a /\ r.kind = "resp"
  <2>1. Idle \in GoroutineRecord(0 .. nextMux)
    BY <1>3, TypedUnfold, IdleTyped
  <2> QED
    BY <1>5, <1>6, <2>1 DEF GoroutineRecord, GoroutinePcs, Kinds
<1> HIDE DEF r
<1>8. /\ goroutine' \in [Goroutines -> GoroutineRecord(0 .. nextMux)]
      /\ \A h \in Goroutines : h # w => goroutine'[h] = goroutine[h]
      /\ goroutine'[w] = r
  BY <1>3, <1>4, <1>6, <1>7, StartFacts
<1>9. \A v \in Workers : v # w => goroutine'[v] = goroutine[v]
  BY <1>4, <1>8
<1>10. HasInHand(w)'
  BY <1>7, <1>8 DEF HasInHand
<1>11. /\ goroutine'[w].pc \in {"install", "fail"} /\ goroutine'[w].idx = i0
       /\ goroutine'[w].kind = "resp"
  BY <1>7, <1>8
<1>12. /\ i0 <= nextIndex /\ done[i0] = "empty"
       /\ \A p \in Peers : i0 \notin Held(p)
       /\ \A v \in Workers : goroutine[v].pc \in HandshakePcs => goroutine[v].idx # i0
       /\ \A v \in Workers : goroutine[v].pc = "index" =>
            i0 # goroutine[v].oldSession /\ i0 # goroutine[v].oldPrevious
  BY <1>1, <1>3 DEF PendingApart, Answering, At
<1>13. PendingApart'
  BY <1>1, <1>3, <1>9, <1>11 DEF PendingApart, Held, At, Answering
<1>14. AnswersApart'
  BY <1>1, <1>3, <1>9, <1>11, <1>12 DEF AnswersApart, Answering
<1>15. InstallsApart'
  BY <1>1, <1>3, <1>9, <1>11, <1>12 DEF InstallsApart, Held, At
<1>16. RotatedApart'
  BY <1>1, <1>3, <1>9, <1>11 DEF RotatedApart, Held, At, PeerOf
<1>17. HeldApart' /\ FreshEmpty'
  BY <1>1, <1>3 DEF HeldApart, Held, FreshEmpty
<1>18. SessionsIndexed'
  BY <1>1, <1>3, <1>9 DEF SessionsIndexed, Held, At, PeerOf
<1>19. Handshakes'
  BY <1>13, <1>14, <1>15, <1>16, <1>17, <1>18 DEF Handshakes
<1>20. /\ known' \subseteq Peers /\ byIndex' \in [Index -> Peers \cup {NoPeer}]
       /\ pending' \subseteq Index /\ done' \in [Index -> {"empty", "ok", "err", "taken"}]
       /\ peer' \in [Peers -> PeerRecord(0 .. nextMux)] /\ nextIndex' \in 0 .. MaxIndex
  BY <1>1, <1>3, TypedUnfold
<1> QED
  BY <1>1, <1>4, <1>8, <1>10, <1>19, <1>20, TableStep

LEMMA HandshakeRespFailStep ==
  ASSUME PeersInv, NEW w \in Workers, HandshakeRespFail(w)
  PROVE  PeersInv'
<1>1. /\ goroutine[w].pc = "fail" /\ Goto(w, "doneErr")
      /\ peer' = [peer EXCEPT ![goroutine[w].peer].state = "failed"]
      /\ known' = known /\ byIndex' = byIndex /\ pending' = pending /\ nextIndex' = nextIndex
      /\ done' = done /\ UNCHANGED <<muxes, shutdown, ops>>
  BY DEF HandshakeRespFail, At, PeerOf, tables
<1>2. /\ Typed /\ Shape /\ PendingApart /\ AnswersApart /\ InstallsApart /\ RotatedApart
      /\ HeldApart /\ FreshEmpty /\ SessionsIndexed
  BY HandshakesUnfold DEF PeersInv
<1>3. w \in Goroutines /\ Workers \subseteq Goroutines
  BY DEF Goroutines
<1>4. /\ goroutine' \in [Goroutines -> GoroutineRecord(0 .. nextMux)]
      /\ \A h \in Goroutines : h # w => goroutine'[h] = goroutine[h]
      /\ goroutine'[w].pc = "doneErr" /\ goroutine'[w].peer = goroutine[w].peer
      /\ goroutine'[w].idx = goroutine[w].idx /\ goroutine'[w].kind = goroutine[w].kind
  <2>1. "doneErr" \in GoroutinePcs
    BY DEF GoroutinePcs
  <2> QED
    BY <1>1, <1>2, <1>3, <2>1, GotoFacts
<1>5. HasInHand(w) /\ HasInHand(w)'
  BY <1>1, <1>2, <1>3, <1>4 DEF Shape, HasInHand, HandshakePcs
<1>6. /\ peer' \in [Peers -> PeerRecord(0 .. nextMux)]
      /\ \A q \in Peers :
           /\ peer'[q].session = peer[q].session
           /\ peer'[q].previous = peer[q].previous
           /\ peer'[q].mux = peer[q].mux
           /\ \/ peer'[q].state = peer[q].state
              \/ peer'[q].state # "established"
  <2>1. goroutine[w].peer \in Peers /\ "failed" \in States
    BY <1>1, <1>5 DEF HasInHand, States
  <2> QED
    BY <1>1, <1>2, <2>1, StateFacts
<1>7. \A v \in Workers : v # w => goroutine'[v] = goroutine[v]
  BY <1>3, <1>4
<1>8. "fail" \in HandshakePcs /\ "doneErr" \in HandshakePcs
  BY DEF HandshakePcs
<1>9. PendingApart'
  BY <1>1, <1>2, <1>4, <1>6, <1>7, <1>8 DEF PendingApart, Held, At, Answering
<1>10. AnswersApart'
  BY <1>1, <1>2, <1>4, <1>7, <1>8 DEF AnswersApart, Answering
<1>11. InstallsApart'
  BY <1>1, <1>2, <1>4, <1>6, <1>7 DEF InstallsApart, Held, At
<1>12. RotatedApart'
  BY <1>1, <1>2, <1>4, <1>6, <1>7 DEF RotatedApart, Held, At, PeerOf
<1>13. HeldApart' /\ FreshEmpty'
  BY <1>1, <1>2, <1>6 DEF HeldApart, Held, FreshEmpty
<1>14. SessionsIndexed'
  BY <1>1, <1>2, <1>4, <1>6, <1>7 DEF SessionsIndexed, Held, At, PeerOf
<1>15. Handshakes'
  BY <1>9, <1>10, <1>11, <1>12, <1>13, <1>14 DEF Handshakes
<1>16. /\ known' \subseteq Peers /\ byIndex' \in [Index -> Peers \cup {NoPeer}]
       /\ pending' \subseteq Index /\ done' \in [Index -> {"empty", "ok", "err", "taken"}]
       /\ nextIndex' \in 0 .. MaxIndex
  BY <1>1, <1>2, TypedUnfold
<1> QED
  BY <1>1, <1>3, <1>4, <1>5, <1>6, <1>15, <1>16, TableStep

LEMMA RegisterIndexStep ==
  ASSUME PeersInv, NEW w \in Workers, RegisterIndex(w)
  PROVE  PeersInv'
<1> DEFINE q == goroutine[w].peer
           idx == goroutine[w].idx
           olds == goroutine[w].oldSession
           oldp == goroutine[w].oldPrevious
<1>1. /\ goroutine[w].pc = "index"
      /\ goroutine[w].kind = "resp" => Goto(w, "doneOk")
      /\ goroutine[w].kind # "resp" => Return(w)
      /\ known' = known /\ peer' = peer /\ pending' = pending /\ nextIndex' = nextIndex
      /\ done' = done /\ UNCHANGED <<muxes, shutdown, ops>>
  BY DEF RegisterIndex, At
<1>2. /\ Typed /\ Shape /\ PendingApart /\ AnswersApart /\ InstallsApart /\ RotatedApart
      /\ HeldApart /\ FreshEmpty /\ SessionsIndexed
  BY HandshakesUnfold DEF PeersInv
<1>3. w \in Goroutines /\ Workers \subseteq Goroutines
  BY DEF Goroutines
<1>4. byIndex \in [Index -> Peers \cup {NoPeer}] /\ q \in Peers /\ HasInHand(w)
  BY <1>1, <1>2, <1>3, TypedUnfold DEF Shape, HasInHand
<1>5. /\ byIndex' \in [Index -> Peers \cup {NoPeer}]
      /\ \A i \in Index : i = idx \/ (i = olds /\ i # 0) => byIndex'[i] = q
      /\ \A i \in Index : i # idx /\ i # olds /\ i # oldp => byIndex'[i] = byIndex[i]
  <2> DEFINE dropped == IF oldp # NoSession /\ byIndex[oldp] = q THEN {oldp} ELSE {}
             added == {idx, olds} \ {NoSession}
  <2>1. byIndex' = [i \in Index |-> IF i \in added THEN q
                                     ELSE IF i \in dropped THEN NoPeer ELSE byIndex[i]]
    BY DEF RegisterIndex
  <2>2. byIndex' \in [Index -> Peers \cup {NoPeer}]
    <3> HIDE DEF added, dropped, q
    <3> QED
      BY <1>4, <2>1
  <2>3. \A i \in Index : i = idx \/ i = olds => i \in added
    BY <1>2, NatFacts DEF NoSession
  <2>4. \A i \in Index : i # idx /\ i # olds /\ i # oldp => i \notin added /\ i \notin dropped
    OBVIOUS
  <2> HIDE DEF added, dropped, q, idx, olds, oldp
  <2> QED
    BY <2>1, <2>2, <2>3, <2>4
<1>6. /\ goroutine' \in [Goroutines -> GoroutineRecord(0 .. nextMux)]
      /\ \A h \in Goroutines : h # w => goroutine'[h] = goroutine[h]
      /\ HasInHand(w)'
      /\ \/ goroutine'[w].pc = "idle"
         \/ /\ goroutine'[w].pc = "doneOk" /\ goroutine'[w].idx = idx
            /\ goroutine'[w].kind = goroutine[w].kind
  <2>1. CASE goroutine[w].kind = "resp"
    <3>1. "doneOk" \in GoroutinePcs /\ Goto(w, "doneOk")
      BY <1>1, <2>1 DEF GoroutinePcs
    <3>2. /\ goroutine' \in [Goroutines -> GoroutineRecord(0 .. nextMux)]
          /\ \A h \in Goroutines : h # w => goroutine'[h] = goroutine[h]
          /\ goroutine'[w].pc = "doneOk" /\ goroutine'[w].peer = goroutine[w].peer
          /\ goroutine'[w].idx = goroutine[w].idx /\ goroutine'[w].kind = goroutine[w].kind
      BY <1>2, <1>3, <3>1, GotoFacts
    <3>3. HasInHand(w)'
      BY <1>1, <1>4, <2>1, <3>2 DEF HasInHand, HandshakePcs
    <3> QED
      BY <3>2, <3>3
  <2>2. CASE goroutine[w].kind # "resp"
    BY <1>1, <1>2, <1>3, <2>2, ReturnFacts
  <2> QED
    BY <2>1, <2>2
<1>7. \A v \in Workers : v # w => goroutine'[v] = goroutine[v]
  BY <1>3, <1>6
<1>8. /\ "doneOk" \in HandshakePcs /\ "idle" \notin HandshakePcs /\ "index" \in HandshakePcs
      /\ goroutine'[w].pc # "index" /\ goroutine'[w].pc # "install"
      /\ goroutine'[w].pc \in HandshakePcs =>
           goroutine'[w].idx = idx /\ goroutine'[w].kind = goroutine[w].kind
  BY <1>6 DEF HandshakePcs
<1>9. PendingApart'
  BY <1>1, <1>2, <1>7, <1>8 DEF PendingApart, Held, At, Answering
<1>10. AnswersApart'
  BY <1>1, <1>2, <1>7, <1>8 DEF AnswersApart, Answering
<1>11. InstallsApart'
  BY <1>1, <1>2, <1>7, <1>8 DEF InstallsApart, Held, At
<1>12. RotatedApart'
  BY <1>1, <1>2, <1>7, <1>8 DEF RotatedApart, Held, At, PeerOf
<1>13. HeldApart' /\ FreshEmpty'
  BY <1>1, <1>2 DEF HeldApart, Held, FreshEmpty
<1>14. SessionsIndexed'
  <2> SUFFICES ASSUME NEW p \in Peers, NEW s \in Held(p)
               PROVE  \/ byIndex'[s] = p
                      \/ \E v \in Workers :
                           /\ goroutine'[v].pc = "index" /\ goroutine'[v].peer = p
                           /\ s \in {goroutine'[v].idx, goroutine'[v].oldSession}
    BY <1>1 DEF SessionsIndexed, Held, At, PeerOf
  <2>1. s \in Index /\ s # 0
    BY <1>2, NatFacts DEF Held, NoSession
  <2>2. s # oldp /\ (s = idx \/ s = olds => p = q)
    BY <1>1, <1>2 DEF RotatedApart, At, PeerOf
  <2>3. CASE s = idx \/ s = olds
    BY <1>5, <2>1, <2>2, <2>3
  <2>4. CASE s # idx /\ s # olds
    <3>1. byIndex'[s] = byIndex[s]
      BY <1>5, <2>1, <2>2, <2>4
    <3>2. CASE byIndex[s] = p
      BY <3>1, <3>2
    <3>3. CASE byIndex[s] # p
      <4>1. PICK v \in Workers : /\ goroutine[v].pc = "index" /\ goroutine[v].peer = p
                                  /\ s \in {goroutine[v].idx, goroutine[v].oldSession}
        BY <1>2, <3>3 DEF SessionsIndexed, At, PeerOf
      <4>2. v # w
        BY <2>4, <4>1
      <4> QED
        BY <1>7, <4>1, <4>2
    <3> QED
      BY <3>2, <3>3
  <2> QED
    BY <2>3, <2>4
<1>15. Handshakes'
  BY <1>9, <1>10, <1>11, <1>12, <1>13, <1>14 DEF Handshakes
<1>16. /\ known' \subseteq Peers /\ pending' \subseteq Index /\ nextIndex' \in 0 .. MaxIndex
       /\ done' \in [Index -> {"empty", "ok", "err", "taken"}]
       /\ peer' \in [Peers -> PeerRecord(0 .. nextMux)]
  BY <1>1, <1>2, TypedUnfold
<1> QED
  BY <1>1, <1>3, <1>5, <1>6, <1>15, <1>16, TableStep

LEMMA SignalDoneStep ==
  ASSUME PeersInv, NEW w \in Workers, SignalDone(w)
  PROVE  PeersInv'
<1> DEFINE res == IF At(w, "doneOk") THEN "ok" ELSE "err"
           idx == goroutine[w].idx
<1>1. /\ goroutine[w].pc \in {"doneOk", "doneErr"} /\ Return(w)
      /\ done' = [done EXCEPT ![idx] = res]
      /\ known' = known /\ byIndex' = byIndex /\ pending' = pending /\ nextIndex' = nextIndex
      /\ peer' = peer /\ UNCHANGED <<muxes, shutdown, ops>>
  BY DEF SignalDone, At, tables
<1>2. /\ Typed /\ Shape /\ PendingApart /\ AnswersApart /\ InstallsApart /\ RotatedApart
      /\ HeldApart /\ FreshEmpty /\ SessionsIndexed
  BY HandshakesUnfold DEF PeersInv
<1>3. w \in Goroutines /\ Workers \subseteq Goroutines
  BY DEF Goroutines
<1>4. /\ goroutine' \in [Goroutines -> GoroutineRecord(0 .. nextMux)]
      /\ \A h \in Goroutines : h # w => goroutine'[h] = goroutine[h]
      /\ goroutine'[w].pc = "idle" /\ HasInHand(w)'
  BY <1>1, <1>2, <1>3, ReturnFacts
<1>5. \A v \in Workers : v # w => goroutine'[v] = goroutine[v]
  BY <1>3, <1>4
<1>6. idx \in Index /\ done \in [Index -> {"empty", "ok", "err", "taken"}]
  BY <1>1, <1>2, <1>3, TypedUnfold DEF Shape, HasInHand, HandshakePcs
<1>7. res \in {"ok", "err"}
  OBVIOUS
<1>8. /\ done' \in [Index -> {"empty", "ok", "err", "taken"}]
      /\ \A i \in Index : i # idx => done'[i] = done[i]
  <2> HIDE DEF res, idx
  <2> QED
    BY <1>1, <1>6, <1>7
<1>9. goroutine[w].pc \in HandshakePcs /\ "idle" \notin HandshakePcs /\ pending \subseteq Index
  BY <1>1, <1>2, TypedUnfold DEF HandshakePcs
<1>10. PendingApart'
  <2>1. \A i \in pending : i # idx
    BY <1>2, <1>9 DEF PendingApart, Answering
  <2> QED
    BY <1>1, <1>2, <1>4, <1>5, <1>8, <1>9, <2>1 DEF PendingApart, Held, At, Answering
<1>11. AnswersApart'
  <2>1. \A v \in Workers : v # w /\ goroutine[v].pc \in HandshakePcs =>
          goroutine[v].idx \in Index /\ goroutine[v].idx # idx
    BY <1>2, <1>3, <1>9 DEF AnswersApart, Answering, Shape, HasInHand
  <2> QED
    BY <1>1, <1>2, <1>4, <1>5, <1>8, <1>9, <2>1 DEF AnswersApart, Answering
<1>12. InstallsApart' /\ RotatedApart'
  BY <1>1, <1>2, <1>4, <1>5 DEF InstallsApart, RotatedApart, Held, At, PeerOf
<1>13. HeldApart'
  BY <1>1, <1>2 DEF HeldApart, Held
<1>14. FreshEmpty'
  <2>1. idx <= nextIndex
    BY <1>2, <1>9 DEF AnswersApart, Answering
  <2>2. ~ (idx > nextIndex)
    BY <1>2, <1>6, <2>1, NatFacts
  <2> QED
    BY <1>1, <1>2, <1>8, <2>2 DEF FreshEmpty
<1>15. SessionsIndexed'
  BY <1>1, <1>2, <1>5 DEF SessionsIndexed, Held, At, PeerOf
<1>16. Handshakes'
  BY <1>10, <1>11, <1>12, <1>13, <1>14, <1>15 DEF Handshakes
<1>17. /\ known' \subseteq Peers /\ pending' \subseteq Index /\ nextIndex' \in 0 .. MaxIndex
       /\ byIndex' \in [Index -> Peers \cup {NoPeer}]
       /\ peer' \in [Peers -> PeerRecord(0 .. nextMux)]
  BY <1>1, <1>2, TypedUnfold
<1> QED
  BY <1>1, <1>3, <1>4, <1>8, <1>16, <1>17, TableStep

(* The steps of Connect move no worker and no session. *)
LEMMA CallerStep ==
  ASSUME PeersInv, NEW c \in Callers,
         goroutine[c].pc # "closeMux", HasInHand(c)',
         \A h \in Goroutines : h # c => goroutine'[h] = goroutine[h],
         goroutine' \in [Goroutines -> GoroutineRecord(0 .. nextMux)],
         pending' \subseteq Index, done' \in [Index -> {"empty", "ok", "err", "taken"}],
         nextIndex' \in 0 .. MaxIndex, nextIndex <= nextIndex',
         UNCHANGED <<known, peer, byIndex, muxes, shutdown, ops>>,
         PendingApart', FreshEmpty',
         \A i \in Index : done[i] = "empty" => done'[i] = "empty"
  PROVE  PeersInv'
<1>1. /\ Typed /\ Shape /\ PendingApart /\ AnswersApart /\ InstallsApart /\ RotatedApart
      /\ HeldApart /\ FreshEmpty /\ SessionsIndexed
  BY HandshakesUnfold DEF PeersInv
<1>2. c \in Goroutines /\ Workers \subseteq Goroutines /\ c \notin Workers
  BY GoroutinesDistinct DEF Goroutines
<1>3. \A w \in Workers : goroutine'[w] = goroutine[w]
  BY <1>2
<1>4. peer' = peer /\ byIndex' = byIndex /\ known' = known
  OBVIOUS
<1>5. /\ nextIndex \in Nat /\ nextIndex' \in Nat /\ Index \cup {0} \subseteq Nat
      /\ \A p \in Peers : peer[p].session \in Index \cup {0} /\ peer[p].previous \in Index \cup {0}
      /\ \A g \in Goroutines :
           /\ goroutine[g].idx \in Index \cup {0}
           /\ goroutine[g].oldSession \in Index \cup {0}
           /\ goroutine[g].oldPrevious \in Index \cup {0}
  BY <1>1, NatFacts
<1>6. \A x \in Index \cup {0} : x <= nextIndex => x <= nextIndex'
  BY <1>5
<1>7. AnswersApart'
  <2>1. \A w \in Workers : goroutine[w].pc \in HandshakePcs =>
          goroutine[w].idx \in Index /\ goroutine[w].idx <= nextIndex'
    BY <1>1, <1>2, <1>6 DEF AnswersApart, Answering, Shape, HasInHand
  <2> QED
    BY <1>1, <1>3, <2>1 DEF AnswersApart, Answering
<1>8. InstallsApart'
  BY <1>1, <1>3, <1>4 DEF InstallsApart, Held, At
<1>9. RotatedApart'
  <2>1. \A w \in Workers : goroutine[w].pc = "index" =>
          goroutine[w].oldSession <= nextIndex' /\ goroutine[w].oldPrevious <= nextIndex'
    BY <1>1, <1>2, <1>5, <1>6 DEF RotatedApart, At
  <2> QED
    BY <1>1, <1>3, <1>4, <2>1 DEF RotatedApart, Held, At, PeerOf
<1>10. HeldApart'
  <2>1. \A p \in Peers : peer[p].session <= nextIndex' /\ peer[p].previous <= nextIndex'
    BY <1>1, <1>5, <1>6 DEF HeldApart
  <2> QED
    BY <1>1, <1>4, <2>1 DEF HeldApart, Held
<1>11. SessionsIndexed'
  BY <1>1, <1>3, <1>4 DEF SessionsIndexed, Held, At, PeerOf
<1>12. Handshakes'
  BY <1>7, <1>8, <1>9, <1>10, <1>11 DEF Handshakes
<1>13. /\ known' \subseteq Peers /\ byIndex' \in [Index -> Peers \cup {NoPeer}]
       /\ peer' \in [Peers -> PeerRecord(0 .. nextMux)]
  BY <1>1, <1>4, TypedUnfold
<1> QED
  BY <1>2, <1>4, <1>12, <1>13, TableStep

LEMMA ConnectRegisterStep ==
  ASSUME PeersInv, NEW c \in Callers, ConnectRegister(c)
  PROVE  PeersInv'
<1> DEFINE r == [goroutine[c] EXCEPT !.pc = "send", !.idx = nextIndex + 1]
<1>1. /\ goroutine[c].pc = "register" /\ nextIndex < MaxIndex /\ nextIndex' = nextIndex + 1
      /\ pending' = pending \cup {nextIndex + 1} /\ done' = done
      /\ UNCHANGED <<known, peer, byIndex, muxes, shutdown, ops>>
  BY DEF ConnectRegister, At
<1>2. /\ Typed /\ Shape /\ PendingApart /\ AnswersApart /\ InstallsApart /\ RotatedApart
      /\ HeldApart /\ FreshEmpty
  BY HandshakesUnfold DEF PeersInv
<1>3. c \in Goroutines /\ Workers \subseteq Goroutines /\ c \notin Workers
  BY GoroutinesDistinct DEF Goroutines
<1>4. goroutine \in [Goroutines -> GoroutineRecord(0 .. nextMux)]
  BY <1>2, TypedUnfold
<1>5. /\ nextIndex \in Nat /\ MaxIndex \in Nat /\ Index \subseteq Nat /\ 0 \notin Index
      /\ \A p \in Peers : peer[p].session \in Index \cup {0} /\ peer[p].previous \in Index \cup {0}
      /\ \A g \in Goroutines :
           /\ goroutine[g].idx \in Index \cup {0}
           /\ goroutine[g].oldSession \in Index \cup {0}
           /\ goroutine[g].oldPrevious \in Index \cup {0}
  BY <1>2, NatFacts
<1>6. nextIndex + 1 \in Index /\ nextIndex' \in 0 .. MaxIndex /\ nextIndex <= nextIndex'
      /\ nextIndex + 1 > nextIndex
  BY <1>1, <1>5 DEF Index
<1>7. goroutine' = [goroutine EXCEPT ![c] = r]
  BY <1>3, <1>4 DEF ConnectRegister
<1>8. r \in GoroutineRecord(0 .. nextMux) /\ r.pc = "send" /\ r.idx \in Index /\ r.peer \in Peers
  <2>1. goroutine[c].peer \in Peers
    BY <1>1, <1>2, <1>3 DEF Shape, HasInHand
  <2> QED
    BY <1>3, <1>4, <1>6, <2>1 DEF GoroutineRecord, GoroutinePcs
<1> HIDE DEF r
<1>9. /\ goroutine' \in [Goroutines -> GoroutineRecord(0 .. nextMux)]
      /\ \A h \in Goroutines : h # c => goroutine'[h] = goroutine[h]
      /\ goroutine'[c] = r
  BY <1>2, <1>3, <1>7, <1>8, StartFacts
<1>10. HasInHand(c)'
  BY <1>8, <1>9 DEF HasInHand, HandshakePcs
<1>11. \A w \in Workers : goroutine'[w] = goroutine[w]
  BY <1>3, <1>9
<1>12. pending \subseteq Index /\ pending' \subseteq Index
  BY <1>1, <1>2, <1>6, TypedUnfold
<1>13. \A i \in pending : i <= nextIndex'
  <2>1. \A i \in pending : i \in Index /\ i <= nextIndex
    BY <1>2, <1>12 DEF PendingApart
  <2> QED
    BY <1>1, <1>2, <2>1, NextIndexFresh
<1>14. /\ done[nextIndex + 1] = "empty" /\ nextIndex + 1 <= nextIndex'
       /\ \A p \in Peers : peer[p].session # nextIndex + 1 /\ peer[p].previous # nextIndex + 1
       /\ \A w \in Workers : goroutine[w].pc \in HandshakePcs => goroutine[w].idx # nextIndex + 1
       /\ \A w \in Workers : goroutine[w].pc = "index" =>
            nextIndex + 1 # goroutine[w].oldSession /\ nextIndex + 1 # goroutine[w].oldPrevious
  <2>1. done[nextIndex + 1] = "empty" /\ nextIndex + 1 <= nextIndex'
    BY <1>1, <1>2, <1>5, <1>6 DEF FreshEmpty
  <2>2. \A p \in Peers : peer[p].session # nextIndex + 1 /\ peer[p].previous # nextIndex + 1
    BY <1>2, <1>5, NextIndexFresh DEF HeldApart
  <2>3. \A w \in Workers : goroutine[w].pc \in HandshakePcs => goroutine[w].idx # nextIndex + 1
    BY <1>2, <1>3, <1>5, NextIndexFresh DEF AnswersApart, Answering
  <2>4. \A w \in Workers : goroutine[w].pc = "index" =>
            nextIndex + 1 # goroutine[w].oldSession /\ nextIndex + 1 # goroutine[w].oldPrevious
    BY <1>2, <1>3, <1>5, NextIndexFresh DEF RotatedApart, At
  <2> QED
    BY <2>1, <2>2, <2>3, <2>4
<1>15. PendingApart'
  <2>1. peer' = peer
    BY <1>1
  <2> QED
    BY <1>1, <1>2, <1>11, <1>13, <1>14, <2>1 DEF PendingApart, Held, At, Answering
<1>16. FreshEmpty'
  BY <1>1, <1>2, <1>5 DEF FreshEmpty
<1>17. done' \in [Index -> {"empty", "ok", "err", "taken"}]
  BY <1>1, <1>2, TypedUnfold
<1> QED
  BY <1>1, <1>6, <1>9, <1>10, <1>12, <1>15, <1>16, <1>17, CallerStep

(* Both ways of giving an attempt up. *)
LEMMA WithdrawStep ==
  ASSUME PeersInv, NEW c \in Callers,
         goroutine[c].pc # "closeMux", HasInHand(c)',
         \A h \in Goroutines : h # c => goroutine'[h] = goroutine[h],
         goroutine' \in [Goroutines -> GoroutineRecord(0 .. nextMux)],
         pending' = pending \ {goroutine[c].idx},
         UNCHANGED <<known, peer, byIndex, done, nextIndex, muxes, shutdown, ops>>
  PROVE  PeersInv'
<1>1. Typed /\ PendingApart /\ FreshEmpty
  BY HandshakesUnfold
<1>2. c \in Goroutines /\ Workers \subseteq Goroutines /\ c \notin Workers
  BY GoroutinesDistinct DEF Goroutines
<1>3. \A w \in Workers : goroutine'[w] = goroutine[w]
  BY <1>2
<1>4. peer' = peer /\ done' = done /\ nextIndex' = nextIndex
  OBVIOUS
<1>5. PendingApart' /\ FreshEmpty'
  BY <1>1, <1>3, <1>4 DEF PendingApart, FreshEmpty, Held, At, Answering
<1>6. /\ pending' \subseteq Index /\ done' \in [Index -> {"empty", "ok", "err", "taken"}]
      /\ nextIndex' \in 0 .. MaxIndex /\ nextIndex \in Nat
  BY <1>1, <1>4, TypedUnfold
<1>7. nextIndex <= nextIndex'
  BY <1>4, <1>6
<1> QED
  BY <1>4, <1>5, <1>6, <1>7, CallerStep

LEMMA ConnectSendFailsStep ==
  ASSUME PeersInv, NEW c \in Callers, ConnectSendFails(c)
  PROVE  PeersInv'
<1>1. Typed /\ c \in Goroutines
  BY DEF PeersInv, Goroutines
<1>2. /\ goroutine[c].pc = "send" /\ Return(c) /\ pending' = pending \ {goroutine[c].idx}
      /\ UNCHANGED <<known, peer, byIndex, done, nextIndex, muxes, shutdown, ops>>
  BY DEF ConnectSendFails, At
<1> QED
  BY <1>1, <1>2, ReturnFacts, WithdrawStep

LEMMA ConnectTimeoutStep ==
  ASSUME PeersInv, NEW c \in Callers, ConnectTimeout(c)
  PROVE  PeersInv'
<1>1. Typed /\ c \in Goroutines /\ HasInHand(c)
  BY DEF PeersInv, Goroutines, Shape
<1>2. /\ goroutine[c].pc = "wait" /\ Goto(c, "timeout") /\ pending' = pending \ {goroutine[c].idx}
      /\ UNCHANGED <<known, peer, byIndex, done, nextIndex, muxes, shutdown, ops>>
  BY DEF ConnectTimeout, At
<1>3. /\ goroutine' \in [Goroutines -> GoroutineRecord(0 .. nextMux)]
      /\ \A h \in Goroutines : h # c => goroutine'[h] = goroutine[h]
      /\ goroutine'[c].pc = "timeout" /\ goroutine'[c].peer = goroutine[c].peer
      /\ goroutine'[c].idx = goroutine[c].idx
  <2>1. "timeout" \in GoroutinePcs
    BY DEF GoroutinePcs
  <2> QED
    BY <1>1, <1>2, <2>1, GotoFacts
<1>4. HasInHand(c)'
  BY <1>1, <1>2, <1>3 DEF HasInHand, HandshakePcs
<1> QED
  BY <1>2, <1>3, <1>4, WithdrawStep

LEMMA ConnectDoneStep ==
  ASSUME PeersInv, NEW c \in Callers, ConnectDone(c)
  PROVE  PeersInv'
<1> DEFINE idx == goroutine[c].idx
<1>1. /\ goroutine[c].pc = "wait" /\ Return(c) /\ done[idx] \in {"ok", "err"}
      /\ done' = [done EXCEPT ![idx] = "taken"] /\ pending' = pending /\ nextIndex' = nextIndex
      /\ UNCHANGED <<known, peer, byIndex, muxes, shutdown, ops>>
  BY DEF ConnectDone, At, tables
<1>2. Typed /\ Shape /\ PendingApart /\ FreshEmpty
  BY HandshakesUnfold DEF PeersInv
<1>3. c \in Goroutines /\ Workers \subseteq Goroutines /\ c \notin Workers
  BY GoroutinesDistinct DEF Goroutines
<1>4. /\ goroutine' \in [Goroutines -> GoroutineRecord(0 .. nextMux)]
      /\ \A h \in Goroutines : h # c => goroutine'[h] = goroutine[h]
      /\ goroutine'[c].pc = "idle" /\ HasInHand(c)'
  BY <1>1, <1>2, <1>3, ReturnFacts
<1>5. \A w \in Workers : goroutine'[w] = goroutine[w]
  BY <1>3, <1>4
<1>6. /\ done \in [Index -> {"empty", "ok", "err", "taken"}] /\ pending \subseteq Index
      /\ nextIndex \in 0 .. MaxIndex /\ nextIndex \in Nat
  BY <1>2, TypedUnfold
<1>7. /\ done' \in [Index -> {"empty", "ok", "err", "taken"}]
      /\ \A i \in Index : done[i] = "empty" => done'[i] = "empty"
  BY <1>1, <1>6
<1>8. PendingApart'
  <2>1. peer' = peer
    BY <1>1
  <2> QED
    BY <1>1, <1>2, <1>5, <1>6, <1>7, <2>1 DEF PendingApart, Held, At, Answering
<1>9. FreshEmpty'
  BY <1>1, <1>2, <1>7 DEF FreshEmpty
<1>10. /\ nextIndex <= nextIndex' /\ nextIndex' \in 0 .. MaxIndex /\ pending' \subseteq Index
  BY <1>1, <1>6
<1> QED
  BY <1>1, <1>4, <1>7, <1>8, <1>9, <1>10, CallerStep

(* More muxes leave what is typed typed. *)
LEMMA MuxesGrow ==
  ASSUME Typed, nextMux' \in Nat, nextMux <= nextMux'
  PROVE  /\ \A p \in Peers : peer[p] \in PeerRecord(0 .. nextMux')
         /\ \A g \in Goroutines : goroutine[g] \in GoroutineRecord(0 .. nextMux')
         /\ closer \in CloserRecord(1 .. nextMux')
         /\ muxClosed \subseteq 1 .. nextMux'
<1>1. /\ peer \in [Peers -> PeerRecord(0 .. nextMux)] /\ nextMux \in Nat
      /\ muxClosed \subseteq 1 .. nextMux
      /\ goroutine \in [Goroutines -> GoroutineRecord(0 .. nextMux)]
      /\ closer \in CloserRecord(1 .. nextMux)
  BY TypedUnfold
<1>2. 0 .. nextMux \subseteq 0 .. nextMux' /\ 1 .. nextMux \subseteq 1 .. nextMux'
  BY <1>1
<1>3. \A p \in Peers : peer[p] \in PeerRecord(0 .. nextMux')
  BY <1>1, <1>2 DEF PeerRecord
<1>4. \A g \in Goroutines : goroutine[g] \in GoroutineRecord(0 .. nextMux')
  BY <1>1, <1>2 DEF GoroutineRecord
<1>5. closer \in CloserRecord(1 .. nextMux')
  BY <1>1, <1>2 DEF CloserRecord
<1> QED
  BY <1>1, <1>2, <1>3, <1>4, <1>5

LEMMA InstallSessionStep ==
  ASSUME PeersInv, NEW w \in Workers, InstallSession(w)
  PROVE  PeersInv'
<1> DEFINE p0 == goroutine[w].peer
           idx == goroutine[w].idx
           from == goroutine[w].from
           mux == ensureServiceMuxLocked(p0)
           rec == [endpoint |-> from, session |-> idx, previous |-> peer[p0].session,
                   state |-> "established", mux |-> mux]
           r == [goroutine[w] EXCEPT !.pc = "index", !.oldSession = peer[p0].session,
                                     !.oldPrevious = peer[p0].previous]
<1>1. /\ goroutine[w].pc = "install"
      /\ nextMux' = IF mux > nextMux THEN mux ELSE nextMux
      /\ peer' = [peer EXCEPT ![p0] = rec]
      /\ known' = known /\ byIndex' = byIndex /\ pending' = pending /\ nextIndex' = nextIndex
      /\ done' = done /\ muxClosed' = muxClosed /\ UNCHANGED <<shutdown, ops>>
  BY DEF InstallSession, At, PeerOf, tables
<1>2. /\ Typed /\ PendingApart /\ AnswersApart /\ InstallsApart /\ RotatedApart
      /\ HeldApart /\ FreshEmpty /\ SessionsIndexed
  BY HandshakesUnfold
<1>3. Shape /\ EstablishedHasSession /\ Muxes
  BY DEF PeersInv
<1>4. w \in Goroutines /\ Workers \subseteq Goroutines
  BY DEF Goroutines
<1>5. /\ goroutine \in [Goroutines -> GoroutineRecord(0 .. nextMux)]
      /\ peer \in [Peers -> PeerRecord(0 .. nextMux)] /\ nextMux \in Nat
  BY <1>2, TypedUnfold
<1>6. p0 \in Peers /\ idx \in Index /\ from \in Addr
  BY <1>1, <1>3, <1>4 DEF Shape, HasInHand, HandshakePcs
<1>7. goroutine' = [goroutine EXCEPT ![w] = r]
  BY <1>4, <1>5 DEF InstallSession, PeerOf
<1>8. peer[p0].mux \in 0 .. nextMux /\ peer[p0].session \in Index \cup {0}
      /\ peer[p0].previous \in Index \cup {0} /\ Index \subseteq Nat /\ 0 \notin Index
  BY <1>2, <1>5, <1>6, NatFacts DEF PeerRecord
<1>9. /\ mux \in 0 .. nextMux' /\ nextMux' \in Nat /\ nextMux <= nextMux' /\ mux # 0
      /\ mux = peer[p0].mux \/ peer[p0].mux = 0
      /\ \A m \in 1 .. nextMux' : m \in 1 .. nextMux \/ m = mux
  BY <1>1, <1>5, <1>8 DEF ensureServiceMuxLocked, NoMux
<1> HIDE DEF mux
<1>10. rec \in PeerRecord(0 .. nextMux')
  BY <1>6, <1>8, <1>9 DEF PeerRecord, States, NoSession
<1>11. /\ r \in GoroutineRecord(0 .. nextMux') /\ r.pc = "index" /\ r.peer = p0 /\ r.idx = idx
       /\ r.kind = goroutine[w].kind
       /\ r.oldSession = peer[p0].session /\ r.oldPrevious = peer[p0].previous
  <2>1. goroutine[w] \in GoroutineRecord(0 .. nextMux')
    BY <1>2, <1>4, <1>9, MuxesGrow
  <2> QED
    BY <1>8, <2>1 DEF GoroutineRecord, GoroutinePcs, NoSession
<1>12. /\ peer'[p0] = rec
       /\ \A p \in Peers : p # p0 => peer'[p] = peer[p]
       /\ rec.session = idx /\ rec.previous = peer[p0].session /\ rec.mux = mux
  BY <1>1, <1>5, <1>6
<1>13. goroutine'[w] = r /\ \A h \in Goroutines : h # w => goroutine'[h] = goroutine[h]
  BY <1>4, <1>5, <1>7
<1> HIDE DEF rec, r
<1>14. /\ peer' \in [Peers -> PeerRecord(0 .. nextMux')]
       /\ goroutine' \in [Goroutines -> GoroutineRecord(0 .. nextMux')]
  <2>1. \A p \in Peers : peer'[p] \in PeerRecord(0 .. nextMux')
    BY <1>2, <1>9, <1>10, <1>12, MuxesGrow
  <2>2. \A g \in Goroutines : goroutine'[g] \in GoroutineRecord(0 .. nextMux')
    BY <1>2, <1>9, <1>11, <1>13, MuxesGrow
  <2> QED
    BY <1>1, <1>5, <1>7, <2>1, <2>2
<1>15. Typed'
  <2>1. closing' \in BOOLEAN /\ closed' \in BOOLEAN /\ closer' = closer
    BY <1>1, <1>2 DEF shutdown, Typed, TypeOK
  <2>2. /\ known' \subseteq Peers /\ byIndex' \in [Index -> Peers \cup {NoPeer}]
        /\ pending' \subseteq Index /\ done' \in [Index -> {"empty", "ok", "err", "taken"}]
        /\ nextIndex' \in 0 .. MaxIndex /\ ops' \in 0 .. MaxOps
    BY <1>1, <1>2, TypedUnfold
  <2>3. closer' \in CloserRecord(1 .. nextMux') /\ muxClosed' \subseteq 1 .. nextMux'
    BY <1>1, <1>2, <1>9, <2>1, MuxesGrow
  <2> QED
    BY <1>9, <1>14, <2>1, <2>2, <2>3, TypedFoldNext
<1>16. Shape'
  <2>1. HasInHand(w)'
    BY <1>6, <1>11, <1>13 DEF HasInHand
  <2> QED
    BY <1>3, <1>13, <2>1 DEF Shape, HasInHand
<1>17. \A v \in Workers : v # w => goroutine'[v] = goroutine[v]
  BY <1>4, <1>13
<1>18. /\ goroutine'[w].pc = "index" /\ goroutine'[w].idx = idx /\ goroutine'[w].peer = p0
       /\ goroutine'[w].kind = goroutine[w].kind
       /\ goroutine'[w].oldSession = peer[p0].session
       /\ goroutine'[w].oldPrevious = peer[p0].previous
       /\ "install" \in HandshakePcs /\ "index" \in HandshakePcs
  BY <1>11, <1>13 DEF HandshakePcs
<1>19. /\ peer'[p0].session = idx /\ peer'[p0].previous = peer[p0].session
       /\ peer'[p0].mux = mux
  BY <1>12
<1>20. /\ \A p \in Peers : idx # peer[p].session /\ idx # peer[p].previous
       /\ \A v \in Workers : goroutine[v].pc = "index" =>
            idx # goroutine[v].oldSession /\ idx # goroutine[v].oldPrevious
       /\ \A i \in pending : idx # i /\ i # 0
       /\ \A v \in Workers : v # w /\ goroutine[v].pc \in HandshakePcs =>
            goroutine[v].idx # idx /\ goroutine[v].idx \in Index
  <2>1. \A p \in Peers : idx # peer[p].session /\ idx # peer[p].previous
    BY <1>1, <1>2, <1>6, <1>8 DEF InstallsApart, Held, At, NoSession
  <2>2. \A v \in Workers : goroutine[v].pc = "index" =>
            idx # goroutine[v].oldSession /\ idx # goroutine[v].oldPrevious
    BY <1>1, <1>2 DEF InstallsApart, At
  <2>3. \A i \in pending : idx # i /\ i # 0
    BY <1>1, <1>2, <1>8, <1>18, TypedUnfold DEF PendingApart, Answering
  <2>4. \A v \in Workers : v # w /\ goroutine[v].pc \in HandshakePcs =>
            goroutine[v].idx # idx /\ goroutine[v].idx \in Index
    BY <1>1, <1>2, <1>3, <1>4, <1>18 DEF AnswersApart, Answering, Shape, HasInHand
  <2> QED
    BY <2>1, <2>2, <2>3, <2>4
<1>21. PendingApart'
  <2>1. \A i \in pending : \A p \in Peers : i # peer[p].session /\ i # peer[p].previous
    BY <1>2, <1>20 DEF PendingApart, Held, NoSession
  <2>2. \A i \in pending : \A p \in Peers : i # peer'[p].session /\ i # peer'[p].previous
    BY <1>6, <1>12, <1>19, <1>20, <2>1
  <2>3. \A i \in pending :
          /\ \A v \in Workers : goroutine'[v].pc \in HandshakePcs => goroutine'[v].idx # i
          /\ \A v \in Workers : goroutine'[v].pc = "index" =>
               i # goroutine'[v].oldSession /\ i # goroutine'[v].oldPrevious
    BY <1>2, <1>6, <1>17, <1>18, <1>20, <2>1 DEF PendingApart, At, Answering
  <2> QED
    BY <1>1, <1>2, <2>2, <2>3 DEF PendingApart, Held, At, Answering
<1>22. AnswersApart'
  BY <1>1, <1>2, <1>17, <1>18 DEF AnswersApart, Answering
<1>23. InstallsApart'
  <2> SUFFICES ASSUME NEW v \in Workers, goroutine'[v].pc = "install"
               PROVE  /\ \A p \in Peers :
                           goroutine'[v].idx # peer'[p].session /\ goroutine'[v].idx # peer'[p].previous
                      /\ \A u \in Workers : goroutine'[u].pc = "index" =>
                           /\ goroutine'[v].idx # goroutine'[u].oldSession
                           /\ goroutine'[v].idx # goroutine'[u].oldPrevious
    BY DEF InstallsApart, Held, At
  <2>1. v # w /\ goroutine'[v] = goroutine[v] /\ goroutine[v].idx # idx
        /\ goroutine[v].idx \in Index
    BY <1>17, <1>18, <1>20
  <2>2. \A p \in Peers : goroutine[v].idx # peer[p].session /\ goroutine[v].idx # peer[p].previous
    BY <1>2, <1>8, <2>1 DEF InstallsApart, Held, At, NoSession
  <2>3. \A u \in Workers : goroutine[u].pc = "index" =>
          goroutine[v].idx # goroutine[u].oldSession /\ goroutine[v].idx # goroutine[u].oldPrevious
    BY <1>2, <2>1 DEF InstallsApart, At
  <2> QED
    BY <1>6, <1>12, <1>17, <1>18, <1>19, <2>1, <2>2, <2>3
<1>24. RotatedApart'
  <2>1. \A v \in Workers : goroutine'[v].pc = "index" =>
          goroutine'[v].oldSession <= nextIndex' /\ goroutine'[v].oldPrevious <= nextIndex'
    BY <1>1, <1>2, <1>6, <1>17, <1>18 DEF RotatedApart, HeldApart, At
  <2>2. \A v \in Workers : goroutine'[v].pc = "index" =>
          \A p \in Peers : goroutine'[v].oldPrevious \notin Held(p)'
    <3>1. \A p \in Peers : peer[p0].previous \notin Held(p)'
      <4> SUFFICES ASSUME NEW p \in Peers, peer[p0].previous # NoSession
                   PROVE  peer[p0].previous # peer'[p].session /\ peer[p0].previous # peer'[p].previous
        BY DEF Held
      <4>1. CASE p = p0
        BY <1>2, <1>6, <1>19, <1>20, <4>1 DEF HeldApart
      <4>2. CASE p # p0
        BY <1>2, <1>6, <1>12, <4>2 DEF HeldApart, Held
      <4> QED
        BY <4>1, <4>2
    <3>2. \A v \in Workers : v # w /\ goroutine[v].pc = "index" =>
            \A p \in Peers : goroutine[v].oldPrevious \notin Held(p)'
      <4>1. \A v \in Workers : goroutine[v].pc = "index" =>
              \A p \in Peers : goroutine[v].oldPrevious \notin Held(p) /\ goroutine[v].oldPrevious # idx
        BY <1>2, <1>20 DEF RotatedApart, At
      <4> QED
        BY <1>6, <1>12, <1>19, <4>1 DEF Held
    <3> QED
      BY <1>17, <1>18, <3>1, <3>2
  <2>3. \A v \in Workers : goroutine'[v].pc = "index" =>
          \A p \in Peers : p # goroutine'[v].peer =>
            goroutine'[v].idx \notin Held(p)' /\ goroutine'[v].oldSession \notin Held(p)'
    <3>1. \A p \in Peers : p # p0 => idx \notin Held(p)' /\ peer[p0].session \notin Held(p)'
      BY <1>2, <1>6, <1>12, <1>20 DEF HeldApart, Held
    <3>2. \A v \in Workers : v # w /\ goroutine[v].pc = "index" =>
            \A p \in Peers : p # goroutine[v].peer =>
              goroutine[v].idx \notin Held(p)' /\ goroutine[v].oldSession \notin Held(p)'
      <4>1. \A v \in Workers : v # w /\ goroutine[v].pc = "index" =>
              /\ goroutine[v].idx # idx /\ goroutine[v].oldSession # idx
              /\ \A p \in Peers : p # goroutine[v].peer =>
                   goroutine[v].idx \notin Held(p) /\ goroutine[v].oldSession \notin Held(p)
        BY <1>2, <1>18, <1>20 DEF RotatedApart, At, PeerOf
      <4> QED
        BY <1>6, <1>12, <1>19, <4>1 DEF Held
    <3> QED
      BY <1>17, <1>18, <3>1, <3>2
  <2> QED
    BY <2>1, <2>2, <2>3 DEF RotatedApart, At, PeerOf
<1>25. HeldApart'
  <2>1. idx <= nextIndex
    BY <1>1, <1>2, <1>18 DEF AnswersApart, Answering
  <2>2. \A p \in Peers : peer'[p].session <= nextIndex' /\ peer'[p].previous <= nextIndex'
    BY <1>1, <1>2, <1>6, <1>12, <1>19, <2>1 DEF HeldApart
  <2>3. \A p \in Peers : peer'[p].session = peer'[p].previous => peer'[p].session = NoSession
    BY <1>2, <1>6, <1>12, <1>19, <1>20 DEF HeldApart
  <2>4. \A p, q \in Peers : p # q => Held(p)' \cap Held(q)' = {}
    BY <1>2, <1>6, <1>12, <1>19, <1>20 DEF HeldApart, Held
  <2> QED
    BY <2>2, <2>3, <2>4 DEF HeldApart
<1>26. FreshEmpty'
  BY <1>1, <1>2 DEF FreshEmpty
<1>27. SessionsIndexed'
  <2> SUFFICES ASSUME NEW p \in Peers, NEW s \in Held(p)'
               PROVE  \/ byIndex[s] = p
                      \/ \E v \in Workers :
                           /\ goroutine'[v].pc = "index" /\ goroutine'[v].peer = p
                           /\ s \in {goroutine'[v].idx, goroutine'[v].oldSession}
    BY <1>1 DEF SessionsIndexed, At, PeerOf
  <2>1. CASE p = p0
    BY <1>18, <1>19, <2>1 DEF Held
  <2>2. CASE p # p0
    <3>1. s \in Held(p)
      BY <1>12, <2>2 DEF Held
    <3>2. CASE byIndex[s] # p
      <4>1. PICK v \in Workers : /\ goroutine[v].pc = "index" /\ goroutine[v].peer = p
                                  /\ s \in {goroutine[v].idx, goroutine[v].oldSession}
        BY <1>2, <3>1, <3>2 DEF SessionsIndexed, At, PeerOf
      <4> QED
        BY <1>1, <1>17, <4>1
    <3> QED
      BY <3>2
  <2> QED
    BY <2>1, <2>2
<1>28. Handshakes'
  BY <1>21, <1>22, <1>23, <1>24, <1>25, <1>26, <1>27 DEF Handshakes
<1>29. EstablishedHasSession'
  BY <1>3, <1>6, <1>8, <1>12, <1>19 DEF EstablishedHasSession, NoSession
<1>30. Muxes'
  <2>1. closer' = closer
    BY <1>1 DEF shutdown
  <2>2. NoOrphanMux'
    <3> SUFFICES ASSUME NEW m \in (1 .. nextMux') \ muxClosed
                 PROVE  \/ \E p \in Peers : peer'[p].mux = m
                        \/ \E g \in Goroutines : goroutine'[g].pc = "closeMux" /\ goroutine'[g].mux = m
      BY <1>1 DEF NoOrphanMux, At
    <3>1. CASE m = mux
      BY <1>6, <1>19, <3>1
    <3>2. CASE m \in 1 .. nextMux /\ m # mux
      <4>1. \/ \E p \in Peers : peer[p].mux = m
            \/ \E g \in Goroutines : goroutine[g].pc = "closeMux" /\ goroutine[g].mux = m
        BY <1>3, <3>2 DEF Muxes, NoOrphanMux, At
      <4>2. CASE \E p \in Peers : peer[p].mux = m
        <5>1. PICK p \in Peers : peer[p].mux = m
          BY <4>2
        <5>2. p # p0
          BY <1>9, <3>2, <5>1
        <5> QED
          BY <1>12, <5>1, <5>2
      <4>3. CASE \E g \in Goroutines : goroutine[g].pc = "closeMux" /\ goroutine[g].mux = m
        BY <1>1, <1>13, <4>3
      <4> QED
        BY <4>1, <4>2, <4>3
    <3> QED
      BY <1>9, <3>1, <3>2
  <2> QED
    BY <1>1, <1>3, <2>1, <2>2 DEF Muxes
<1> QED
  BY <1>15, <1>16, <1>28, <1>29, <1>30 DEF PeersInv

-----------------------------------------------------------------------------
(* The steps of the service muxes. *)
LEMMA PeerMuxFacts ==
  ASSUME Typed, nextMux' \in Nat, nextMux <= nextMux',
         NEW p \in Peers, NEW m \in 0 .. nextMux', NEW s \in States,
         peer' = [peer EXCEPT ![p].mux = m, ![p].state = s]
  PROVE  /\ peer' \in [Peers -> PeerRecord(0 .. nextMux')]
         /\ \A q \in Peers : q # p => peer'[q] = peer[q]
         /\ peer'[p].mux = m /\ peer'[p].state = s
         /\ peer'[p].session = peer[p].session /\ peer'[p].previous = peer[p].previous
<1> DEFINE r == [peer[p] EXCEPT !.mux = m, !.state = s]
<1>1. peer \in [Peers -> PeerRecord(0 .. nextMux)]
  BY TypedUnfold
<1>2. peer' = [peer EXCEPT ![p] = r]
  BY <1>1
<1>3. \A q \in Peers : peer[q] \in PeerRecord(0 .. nextMux')
  BY MuxesGrow
<1>4. /\ r \in PeerRecord(0 .. nextMux') /\ r.mux = m /\ r.state = s
      /\ r.session = peer[p].session /\ r.previous = peer[p].previous
  BY <1>3 DEF PeerRecord
<1> HIDE DEF r
<1>5. peer'[p] = r /\ \A q \in Peers : q # p => peer'[q] = peer[q]
  BY <1>1, <1>2
<1>6. \A q \in Peers : peer'[q] \in PeerRecord(0 .. nextMux')
  BY <1>3, <1>4, <1>5
<1> QED
  BY <1>1, <1>2, <1>4, <1>5, <1>6

LEMMA TakeMuxFacts ==
  ASSUME Typed, nextMux' \in Nat, nextMux <= nextMux',
         NEW g \in Goroutines, NEW m \in 1 .. nextMux, goroutine[g].peer \in Peers,
         goroutine' = [goroutine EXCEPT ![g].pc = "closeMux", ![g].mux = m]
  PROVE  /\ goroutine' \in [Goroutines -> GoroutineRecord(0 .. nextMux')]
         /\ \A h \in Goroutines : h # g => goroutine'[h] = goroutine[h]
         /\ goroutine'[g].pc = "closeMux" /\ goroutine'[g].mux = m
         /\ HasInHand(g)'
<1> DEFINE r == [goroutine[g] EXCEPT !.pc = "closeMux", !.mux = m]
<1>1. goroutine \in [Goroutines -> GoroutineRecord(0 .. nextMux)] /\ nextMux \in Nat
  BY TypedUnfold
<1>2. goroutine' = [goroutine EXCEPT ![g] = r]
  BY <1>1
<1>3. \A h \in Goroutines : goroutine[h] \in GoroutineRecord(0 .. nextMux')
  BY MuxesGrow
<1>4. m \in 0 .. nextMux' /\ m # NoMux
  BY <1>1 DEF NoMux
<1>5. /\ r \in GoroutineRecord(0 .. nextMux') /\ r.pc = "closeMux" /\ r.mux = m
      /\ r.peer = goroutine[g].peer
  BY <1>3, <1>4 DEF GoroutineRecord, GoroutinePcs
<1> HIDE DEF r
<1>6. goroutine'[g] = r /\ \A h \in Goroutines : h # g => goroutine'[h] = goroutine[h]
  BY <1>1, <1>2
<1>7. goroutine' \in [Goroutines -> GoroutineRecord(0 .. nextMux')]
  <2>1. \A h \in Goroutines : goroutine'[h] \in GoroutineRecord(0 .. nextMux')
    BY <1>3, <1>5, <1>6
  <2> QED
    BY <1>1, <1>2, <2>1
<1>8. HasInHand(g)'
  BY <1>4, <1>5, <1>6 DEF HasInHand, HandshakePcs
<1> QED
  BY <1>5, <1>6, <1>7, <1>8

LEMMA ReturnGrown ==
  ASSUME Typed, nextMux' \in Nat, nextMux <= nextMux', NEW g \in Goroutines, Return(g)
  PROVE  /\ goroutine' \in [Goroutines -> GoroutineRecord(0 .. nextMux')]
         /\ \A h \in Goroutines : h # g => goroutine'[h] = goroutine[h]
         /\ goroutine'[g].pc = "idle"
         /\ HasInHand(g)'
<1>1. /\ goroutine' \in [Goroutines -> GoroutineRecord(0 .. nextMux)]
      /\ \A h \in Goroutines : h # g => goroutine'[h] = goroutine[h]
      /\ goroutine'[g].pc = "idle"
      /\ HasInHand(g)'
  BY ReturnFacts
<1>2. 0 .. nextMux \subseteq 0 .. nextMux'
  BY TypedUnfold
<1>3. \A h \in Goroutines : goroutine'[h] \in GoroutineRecord(0 .. nextMux')
  BY <1>1, <1>2 DEF GoroutineRecord
<1> QED
  BY <1>1, <1>3

(* A mux a peer loses is in the hands of the goroutine that replaced it. *)
LEMMA NoneOrphaned ==
  ASSUME NoOrphanMux, NEW p0 \in Peers, NEW g \in Goroutines,
         \A p \in Peers : p # p0 => peer'[p] = peer[p],
         \A h \in Goroutines : h # g => goroutine'[h] = goroutine[h],
         goroutine[g].pc # "closeMux", muxClosed' = muxClosed,
         \A m \in 1 .. nextMux' : m \in 1 .. nextMux \/ peer'[p0].mux = m,
         \/ peer[p0].mux = NoMux
         \/ peer'[p0].mux = peer[p0].mux
         \/ goroutine'[g].pc = "closeMux" /\ goroutine'[g].mux = peer[p0].mux
  PROVE  NoOrphanMux'
<1> SUFFICES ASSUME NEW m \in (1 .. nextMux') \ muxClosed, peer'[p0].mux # m
             PROVE  \/ \E p \in Peers : peer'[p].mux = m
                    \/ \E h \in Goroutines : goroutine'[h].pc = "closeMux" /\ goroutine'[h].mux = m
  BY DEF NoOrphanMux, At
<1>1. m \in 1 .. nextMux /\ m # NoMux
  BY DEF NoMux
<1>2. \/ \E p \in Peers : peer[p].mux = m
      \/ \E h \in Goroutines : goroutine[h].pc = "closeMux" /\ goroutine[h].mux = m
  BY <1>1 DEF NoOrphanMux, At
<1>3. CASE \E p \in Peers : peer[p].mux = m
  <2>1. PICK p \in Peers : peer[p].mux = m
    BY <1>3
  <2>2. CASE p = p0
    BY <1>1, <2>1, <2>2
  <2>3. CASE p # p0
    BY <2>1, <2>3
  <2> QED
    BY <2>2, <2>3
<1>4. CASE \E h \in Goroutines : goroutine[h].pc = "closeMux" /\ goroutine[h].mux = m
  BY <1>4
<1> QED
  BY <1>2, <1>3, <1>4

LEMMA MuxStep ==
  ASSUME PeersInv, NEW g \in Goroutines,
         goroutine[g].pc \notin HandshakePcs,
         goroutine'[g].pc \in {"idle", "closeMux"}, HasInHand(g)',
         \A h \in Goroutines : h # g => goroutine'[h] = goroutine[h],
         nextMux' \in Nat, nextMux <= nextMux',
         goroutine' \in [Goroutines -> GoroutineRecord(0 .. nextMux')],
         peer' \in [Peers -> PeerRecord(0 .. nextMux')],
         \A p \in Peers : /\ peer'[p].session = peer[p].session
                          /\ peer'[p].previous = peer[p].previous,
         muxClosed \subseteq muxClosed', muxClosed' \subseteq 1 .. nextMux',
         UNCHANGED <<tables, done, shutdown, ops>>,
         EstablishedHasSession', NoOrphanMux'
  PROVE  PeersInv'
<1>1. Typed /\ Shape /\ Handshakes /\ Muxes
  BY DEF PeersInv
<1>2. /\ known' = known /\ byIndex' = byIndex /\ pending' = pending /\ nextIndex' = nextIndex
      /\ done' = done /\ closer' = closer /\ ops' = ops
  BY DEF tables, shutdown
<1>3. Typed'
  <2>1. closing' \in BOOLEAN /\ closed' \in BOOLEAN
    BY <1>1 DEF shutdown, Typed, TypeOK
  <2>2. /\ known' \subseteq Peers /\ byIndex' \in [Index -> Peers \cup {NoPeer}]
        /\ pending' \subseteq Index /\ done' \in [Index -> {"empty", "ok", "err", "taken"}]
        /\ nextIndex' \in 0 .. MaxIndex /\ ops' \in 0 .. MaxOps
    BY <1>1, <1>2, TypedUnfold
  <2>3. closer' \in CloserRecord(1 .. nextMux')
    BY <1>1, <1>2, MuxesGrow
  <2> QED
    BY <2>1, <2>2, <2>3, TypedFoldNext
<1>4. Shape'
  BY <1>1 DEF Shape, HasInHand
<1>5. Handshakes'
  <2>1. "idle" \notin HandshakePcs /\ "closeMux" \notin HandshakePcs /\ Workers \subseteq Goroutines
    BY DEF HandshakePcs, Goroutines
  <2>2. \A w \in Workers :
          \/ goroutine'[w] = goroutine[w]
          \/ goroutine[w].pc \notin HandshakePcs /\ goroutine'[w].pc \notin HandshakePcs
    BY <2>1
  <2>3. UNCHANGED <<byIndex, pending, done, nextIndex>>
    BY <1>2
  <2>4. \A p \in Peers : peer'[p].session = peer[p].session
                          /\ peer'[p].previous = peer[p].previous
    OBVIOUS
  <2> QED
    BY <1>1, <2>2, <2>3, <2>4, QuietHandshakes
<1>6. Muxes'
  BY <1>1, <1>2 DEF Muxes
<1> QED
  BY <1>3, <1>4, <1>5, <1>6 DEF PeersInv

LEMMA EnsureServiceMuxStep ==
  ASSUME PeersInv, NEW g \in Goroutines, EnsureServiceMux(g)
  PROVE  PeersInv'
<1> DEFINE p0 == goroutine[g].peer
<1>1. /\ Typed /\ Shape /\ EstablishedHasSession /\ NoOrphanMux
  BY DEF PeersInv, Muxes
<1>2. /\ goroutine[g].pc = "ensure" /\ Return(g) /\ muxClosed' = muxClosed
      /\ UNCHANGED <<tables, done, shutdown, ops>>
      /\ \/ peer' = peer /\ nextMux' = nextMux
         \/ /\ peer[p0].session # NoSession /\ peer[p0].mux = NoMux /\ nextMux' = nextMux + 1
            /\ peer' = [peer EXCEPT ![p0].mux = nextMux + 1, ![p0].state = "established"]
  BY DEF EnsureServiceMux, At, PeerOf
<1>3. p0 \in Peers /\ goroutine[g].pc \notin HandshakePcs
  BY <1>1, <1>2 DEF Shape, HasInHand, HandshakePcs
<1>4. nextMux \in Nat /\ nextMux' \in Nat /\ nextMux <= nextMux'
  BY <1>1, <1>2, TypedUnfold
<1>5. /\ goroutine' \in [Goroutines -> GoroutineRecord(0 .. nextMux')]
      /\ \A h \in Goroutines : h # g => goroutine'[h] = goroutine[h]
      /\ goroutine'[g].pc = "idle" /\ HasInHand(g)'
  BY <1>1, <1>2, <1>4, ReturnGrown
<1>6. muxClosed \subseteq muxClosed' /\ muxClosed' \subseteq 1 .. nextMux'
  BY <1>1, <1>2, <1>4, MuxesGrow
<1>7. CASE peer' = peer /\ nextMux' = nextMux
  <2>1. peer' \in [Peers -> PeerRecord(0 .. nextMux')]
    BY <1>1, <1>7, TypedUnfold
  <2>2. EstablishedHasSession'
    BY <1>1, <1>7 DEF EstablishedHasSession
  <2>3. NoOrphanMux'
    BY <1>1, <1>2, <1>3, <1>5, <1>7, NoneOrphaned
  <2> QED
    BY <1>2, <1>3, <1>4, <1>5, <1>6, <1>7, <2>1, <2>2, <2>3, MuxStep
<1>8. CASE /\ peer[p0].session # NoSession /\ peer[p0].mux = NoMux /\ nextMux' = nextMux + 1
           /\ peer' = [peer EXCEPT ![p0].mux = nextMux + 1, ![p0].state = "established"]
  <2>1. "established" \in States /\ nextMux + 1 \in 0 .. nextMux'
    BY <1>4, <1>8 DEF States
  <2>2. /\ peer' \in [Peers -> PeerRecord(0 .. nextMux')]
        /\ \A q \in Peers : q # p0 => peer'[q] = peer[q]
        /\ peer'[p0].mux = nextMux + 1
        /\ peer'[p0].session = peer[p0].session /\ peer'[p0].previous = peer[p0].previous
    <3> HIDE DEF p0
    <3> QED
      BY <1>1, <1>3, <1>4, <1>8, <2>1, PeerMuxFacts
  <2>3. EstablishedHasSession'
    BY <1>1, <1>3, <1>8, <2>2 DEF EstablishedHasSession
  <2>4. \A m \in 1 .. nextMux' : m \in 1 .. nextMux \/ peer'[p0].mux = m
    BY <1>4, <1>8, <2>2
  <2>5. NoOrphanMux'
    BY <1>1, <1>2, <1>3, <1>5, <1>8, <2>2, <2>4, NoneOrphaned
  <2> QED
    BY <1>2, <1>3, <1>4, <1>5, <1>6, <2>2, <2>3, <2>5, MuxStep
<1> QED
  BY <1>2, <1>7, <1>8

LEMMA OpenServiceMuxStep ==
  ASSUME PeersInv, NEW g \in Goroutines, OpenServiceMux(g)
  PROVE  PeersInv'
<1> DEFINE p0 == goroutine[g].peer
<1>1. /\ Typed /\ Shape /\ EstablishedHasSession /\ NoOrphanMux
  BY DEF PeersInv, Muxes
<1>2. /\ goroutine[g].pc = "open" /\ muxClosed' = muxClosed
      /\ UNCHANGED <<tables, done, shutdown, ops>>
      /\ \/ Return(g) /\ peer' = peer /\ nextMux' = nextMux
         \/ /\ peer[p0].session # NoSession /\ nextMux' = nextMux + 1
            /\ peer' = [peer EXCEPT ![p0].mux = nextMux + 1, ![p0].state = "established"]
            /\ \/ peer[p0].mux = NoMux /\ Return(g)
               \/ /\ peer[p0].mux # NoMux
                  /\ goroutine' = [goroutine EXCEPT ![g].pc = "closeMux", ![g].mux = peer[p0].mux]
  BY DEF OpenServiceMux, At, PeerOf
<1>3. p0 \in Peers /\ goroutine[g].pc \notin HandshakePcs
  BY <1>1, <1>2 DEF Shape, HasInHand, HandshakePcs
<1>4. nextMux \in Nat /\ nextMux' \in Nat /\ nextMux <= nextMux'
  BY <1>1, <1>2, TypedUnfold
<1>5. muxClosed \subseteq muxClosed' /\ muxClosed' \subseteq 1 .. nextMux'
  BY <1>1, <1>2, <1>4, MuxesGrow
<1>6. CASE Return(g) /\ peer' = peer /\ nextMux' = nextMux
  <2>1. /\ goroutine' \in [Goroutines -> GoroutineRecord(0 .. nextMux')]
        /\ \A h \in Goroutines : h # g => goroutine'[h] = goroutine[h]
        /\ goroutine'[g].pc = "idle" /\ HasInHand(g)'
    BY <1>1, <1>4, <1>6, ReturnGrown
  <2>2. peer' \in [Peers -> PeerRecord(0 .. nextMux')]
    BY <1>1, <1>6, TypedUnfold
  <2>3. EstablishedHasSession'
    BY <1>1, <1>6 DEF EstablishedHasSession
  <2>4. NoOrphanMux'
    BY <1>1, <1>2, <1>3, <1>6, <2>1, NoneOrphaned
  <2> QED
    BY <1>2, <1>3, <1>4, <1>5, <1>6, <2>1, <2>2, <2>3, <2>4, MuxStep
<1>7. CASE /\ peer[p0].session # NoSession /\ nextMux' = nextMux + 1
           /\ peer' = [peer EXCEPT ![p0].mux = nextMux + 1, ![p0].state = "established"]
           /\ \/ peer[p0].mux = NoMux /\ Return(g)
              \/ /\ peer[p0].mux # NoMux
                 /\ goroutine' = [goroutine EXCEPT ![g].pc = "closeMux", ![g].mux = peer[p0].mux]
  <2>1. "established" \in States /\ nextMux + 1 \in 0 .. nextMux'
    BY <1>4, <1>7 DEF States
  <2>2. /\ peer' \in [Peers -> PeerRecord(0 .. nextMux')]
        /\ \A q \in Peers : q # p0 => peer'[q] = peer[q]
        /\ peer'[p0].mux = nextMux + 1
        /\ peer'[p0].session = peer[p0].session /\ peer'[p0].previous = peer[p0].previous
    <3> HIDE DEF p0
    <3> QED
      BY <1>1, <1>3, <1>4, <1>7, <2>1, PeerMuxFacts
  <2>3. /\ goroutine' \in [Goroutines -> GoroutineRecord(0 .. nextMux')]
        /\ \A h \in Goroutines : h # g => goroutine'[h] = goroutine[h]
        /\ HasInHand(g)' /\ goroutine'[g].pc \in {"idle", "closeMux"}
        /\ \/ peer[p0].mux = NoMux
           \/ goroutine'[g].pc = "closeMux" /\ goroutine'[g].mux = peer[p0].mux
    <3>1. CASE peer[p0].mux = NoMux /\ Return(g)
      BY <1>1, <1>4, <3>1, ReturnGrown
    <3>2. CASE /\ peer[p0].mux # NoMux
               /\ goroutine' = [goroutine EXCEPT ![g].pc = "closeMux", ![g].mux = peer[p0].mux]
      <4>1. peer[p0].mux \in 1 .. nextMux
        BY <1>1, <1>3, <1>4, <3>2, TypedUnfold DEF PeerRecord, NoMux
      <4> QED
        BY <1>1, <1>3, <1>4, <3>2, <4>1, TakeMuxFacts
    <3> QED
      BY <1>7, <3>1, <3>2
  <2>4. EstablishedHasSession'
    BY <1>1, <1>3, <1>7, <2>2 DEF EstablishedHasSession
  <2>5. \A m \in 1 .. nextMux' : m \in 1 .. nextMux \/ peer'[p0].mux = m
    BY <1>4, <1>7, <2>2
  <2>6. NoOrphanMux'
    BY <1>1, <1>2, <1>3, <2>2, <2>3, <2>5, NoneOrphaned
  <2> QED
    BY <1>2, <1>3, <1>4, <1>5, <2>2, <2>3, <2>4, <2>6, MuxStep
<1> QED
  BY <1>2, <1>6, <1>7

LEMMA CloseServiceMuxStep ==
  ASSUME PeersInv, NEW g \in Goroutines, CloseServiceMux(g)
  PROVE  PeersInv'
<1> DEFINE p0 == goroutine[g].peer
<1>1. /\ Typed /\ Shape /\ EstablishedHasSession /\ NoOrphanMux
  BY DEF PeersInv, Muxes
<1>2. /\ goroutine[g].pc = "clear" /\ muxClosed' = muxClosed /\ nextMux' = nextMux
      /\ UNCHANGED <<tables, done, shutdown, ops>>
      /\ \/ Return(g) /\ peer' = peer
         \/ /\ peer' = [peer EXCEPT ![p0].mux = NoMux, ![p0].state = "offline"]
            /\ \/ peer[p0].mux = NoMux /\ Return(g)
               \/ /\ peer[p0].mux # NoMux
                  /\ goroutine' = [goroutine EXCEPT ![g].pc = "closeMux", ![g].mux = peer[p0].mux]
  BY DEF CloseServiceMux, At, PeerOf, muxes
<1>3. p0 \in Peers /\ goroutine[g].pc \notin HandshakePcs
  BY <1>1, <1>2 DEF Shape, HasInHand, HandshakePcs
<1>4. nextMux \in Nat /\ nextMux' \in Nat /\ nextMux <= nextMux'
  BY <1>1, <1>2, TypedUnfold
<1>5. muxClosed \subseteq muxClosed' /\ muxClosed' \subseteq 1 .. nextMux'
  BY <1>1, <1>2, <1>4, MuxesGrow
<1>6. CASE Return(g) /\ peer' = peer
  <2>1. /\ goroutine' \in [Goroutines -> GoroutineRecord(0 .. nextMux')]
        /\ \A h \in Goroutines : h # g => goroutine'[h] = goroutine[h]
        /\ goroutine'[g].pc = "idle" /\ HasInHand(g)'
    BY <1>1, <1>4, <1>6, ReturnGrown
  <2>2. peer' \in [Peers -> PeerRecord(0 .. nextMux')]
    BY <1>1, <1>2, <1>6, TypedUnfold
  <2>3. EstablishedHasSession'
    BY <1>1, <1>6 DEF EstablishedHasSession
  <2>4. NoOrphanMux'
    BY <1>1, <1>2, <1>3, <1>6, <2>1, NoneOrphaned
  <2> QED
    BY <1>2, <1>3, <1>4, <1>5, <1>6, <2>1, <2>2, <2>3, <2>4, MuxStep
<1>7. CASE /\ peer' = [peer EXCEPT ![p0].mux = NoMux, ![p0].state = "offline"]
           /\ \/ peer[p0].mux = NoMux /\ Return(g)
              \/ /\ peer[p0].mux # NoMux
                 /\ goroutine' = [goroutine EXCEPT ![g].pc = "closeMux", ![g].mux = peer[p0].mux]
  <2>1. "offline" \in States /\ NoMux \in 0 .. nextMux'
    BY <1>4 DEF States, NoMux
  <2>2. /\ peer' \in [Peers -> PeerRecord(0 .. nextMux')]
        /\ \A q \in Peers : q # p0 => peer'[q] = peer[q]
        /\ peer'[p0].mux = NoMux /\ peer'[p0].state = "offline"
        /\ peer'[p0].session = peer[p0].session /\ peer'[p0].previous = peer[p0].previous
    <3> HIDE DEF p0
    <3> QED
      BY <1>1, <1>3, <1>4, <1>7, <2>1, PeerMuxFacts
  <2>3. /\ goroutine' \in [Goroutines -> GoroutineRecord(0 .. nextMux')]
        /\ \A h \in Goroutines : h # g => goroutine'[h] = goroutine[h]
        /\ HasInHand(g)' /\ goroutine'[g].pc \in {"idle", "closeMux"}
        /\ \/ peer[p0].mux = NoMux
           \/ goroutine'[g].pc = "closeMux" /\ goroutine'[g].mux = peer[p0].mux
    <3>1. CASE peer[p0].mux = NoMux /\ Return(g)
      BY <1>1, <1>4, <3>1, ReturnGrown
    <3>2. CASE /\ peer[p0].mux # NoMux
               /\ goroutine' = [goroutine EXCEPT ![g].pc = "closeMux", ![g].mux = peer[p0].mux]
      <4>1. peer[p0].mux \in 1 .. nextMux
        BY <1>1, <1>3, <1>4, <3>2, TypedUnfold DEF PeerRecord, NoMux
      <4> QED
        BY <1>1, <1>3, <1>4, <3>2, <4>1, TakeMuxFacts
    <3> QED
      BY <1>7, <3>1, <3>2
  <2>4. EstablishedHasSession'
    BY <1>1, <1>3, <2>2 DEF EstablishedHasSession
  <2>5. \A m \in 1 .. nextMux' : m \in 1 .. nextMux \/ peer'[p0].mux = m
    BY <1>2
  <2>6. NoOrphanMux'
    BY <1>1, <1>2, <1>3, <2>2, <2>3, <2>5, NoneOrphaned
  <2> QED
    BY <1>2, <1>3, <1>4, <1>5, <2>2, <2>3, <2>4, <2>6, MuxStep
<1> QED
  BY <1>2, <1>6, <1>7

LEMMA CloseMuxStep ==
  ASSUME PeersInv, NEW g \in Goroutines, CloseMux(g)
  PROVE  PeersInv'
<1>1. /\ Typed /\ Shape /\ EstablishedHasSession /\ NoOrphanMux
  BY DEF PeersInv, Muxes
<1>2. /\ goroutine[g].pc = "closeMux" /\ Return(g)
      /\ muxClosed' = muxClosed \cup {goroutine[g].mux} /\ nextMux' = nextMux /\ peer' = peer
      /\ UNCHANGED <<tables, done, shutdown, ops>>
  BY DEF CloseMux, At
<1>3. nextMux \in Nat /\ nextMux' \in Nat /\ nextMux <= nextMux'
  BY <1>1, <1>2, TypedUnfold
<1>4. /\ goroutine' \in [Goroutines -> GoroutineRecord(0 .. nextMux')]
      /\ \A h \in Goroutines : h # g => goroutine'[h] = goroutine[h]
      /\ goroutine'[g].pc = "idle" /\ HasInHand(g)'
  BY <1>1, <1>2, <1>3, ReturnGrown
<1>5. goroutine[g].mux \in 1 .. nextMux /\ goroutine[g].pc \notin HandshakePcs
  BY <1>1, <1>2, TypedUnfold DEF Shape, HasInHand, GoroutineRecord, NoMux, HandshakePcs
<1>6. muxClosed \subseteq muxClosed' /\ muxClosed' \subseteq 1 .. nextMux'
  BY <1>1, <1>2, <1>5, TypedUnfold
<1>7. peer' \in [Peers -> PeerRecord(0 .. nextMux')]
  BY <1>1, <1>2, TypedUnfold
<1>8. EstablishedHasSession'
  BY <1>1, <1>2 DEF EstablishedHasSession
<1>9. NoOrphanMux'
  BY <1>1, <1>2, <1>4 DEF NoOrphanMux, At
<1> QED
  BY <1>2, <1>3, <1>4, <1>5, <1>6, <1>7, <1>8, <1>9, MuxStep

-----------------------------------------------------------------------------
(* The steps of UDP.Close. *)
LEMMA CloserStep ==
  ASSUME PeersInv, goroutine' = goroutine, nextMux' = nextMux,
         peer' \in [Peers -> PeerRecord(0 .. nextMux)],
         \A p \in Peers : /\ peer'[p].session = peer[p].session
                          /\ peer'[p].previous = peer[p].previous
                          /\ peer'[p].state = peer[p].state
                          /\ peer'[p].mux = peer[p].mux \/ peer'[p].mux = NoMux,
         muxClosed' \subseteq 1 .. nextMux, closer' \in CloserRecord(1 .. nextMux),
         closing' \in BOOLEAN, closed' \in BOOLEAN,
         UNCHANGED <<tables, done, ops>>, Muxes'
  PROVE  PeersInv'
<1>1. Typed /\ Shape /\ Handshakes /\ EstablishedHasSession
  BY DEF PeersInv
<1>2. /\ known' = known /\ byIndex' = byIndex /\ pending' = pending /\ nextIndex' = nextIndex
      /\ done' = done /\ ops' = ops
  BY DEF tables
<1>3. Typed'
  <2>1. /\ known' \subseteq Peers /\ byIndex' \in [Index -> Peers \cup {NoPeer}]
        /\ pending' \subseteq Index /\ done' \in [Index -> {"empty", "ok", "err", "taken"}]
        /\ nextIndex' \in 0 .. MaxIndex /\ ops' \in 0 .. MaxOps /\ nextMux' \in Nat
        /\ goroutine' \in [Goroutines -> GoroutineRecord(0 .. nextMux')]
    BY <1>1, <1>2, TypedUnfold
  <2> QED
    BY <2>1, TypedFoldNext
<1>4. Shape'
  BY <1>1 DEF Shape, HasInHand
<1>5. Handshakes'
  <2>1. UNCHANGED <<byIndex, pending, done, nextIndex>>
    BY <1>2
  <2>2. \A p \in Peers : peer'[p].session = peer[p].session
                          /\ peer'[p].previous = peer[p].previous
    OBVIOUS
  <2> QED
    BY <1>1, <2>1, <2>2, QuietHandshakes
<1>6. EstablishedHasSession'
  BY <1>1 DEF EstablishedHasSession
<1> QED
  BY <1>3, <1>4, <1>5, <1>6 DEF PeersInv

LEMMA CloseBeginStep ==
  ASSUME PeersInv, CloseBegin
  PROVE  PeersInv'
<1>1. Typed /\ Muxes
  BY DEF PeersInv
<1> DEFINE refs == {r \in {<<p, peer[p].mux>> : p \in known} : r[2] # NoMux}
<1>2. /\ closing' = TRUE /\ closer' = [pc |-> "closing", refs |-> refs]
      /\ closed' = closed /\ goroutine' = goroutine /\ nextMux' = nextMux /\ peer' = peer
      /\ muxClosed' = muxClosed /\ UNCHANGED <<tables, done, ops>>
  BY DEF CloseBegin, muxes
<1>3. /\ known \subseteq Peers /\ peer \in [Peers -> PeerRecord(0 .. nextMux)] /\ nextMux \in Nat
      /\ muxClosed' \subseteq 1 .. nextMux
  BY <1>1, <1>2, TypedUnfold
<1>4. refs \subseteq Peers \X (1 .. nextMux)
  BY <1>3 DEF PeerRecord, NoMux
<1> HIDE DEF refs
<1>5. closer' \in CloserRecord(1 .. nextMux) /\ closer'.pc = "closing"
  BY <1>2, <1>4 DEF CloserRecord
<1>6. Muxes'
  BY <1>1, <1>2, <1>5 DEF Muxes, NoOrphanMux, At
<1>7. closed' \in BOOLEAN /\ closing' \in BOOLEAN
  BY <1>1, <1>2 DEF Typed, TypeOK
<1> QED
  BY <1>2, <1>3, <1>5, <1>6, <1>7, CloserStep

LEMMA CloseMuxesStep ==
  ASSUME PeersInv, CloseMuxes
  PROVE  PeersInv'
<1>1. Typed /\ Muxes
  BY DEF PeersInv
<1>2. /\ closer' = [closer EXCEPT !.pc = "clearing"] /\ closing' = closing
      /\ closed' = closed /\ goroutine' = goroutine /\ nextMux' = nextMux /\ peer' = peer
      /\ muxClosed' = muxClosed \cup {r[2] : r \in closer.refs} /\ UNCHANGED <<tables, done, ops>>
  BY DEF CloseMuxes
<1>3. /\ peer \in [Peers -> PeerRecord(0 .. nextMux)] /\ nextMux \in Nat
      /\ muxClosed \subseteq 1 .. nextMux /\ closer \in CloserRecord(1 .. nextMux)
  BY <1>1, TypedUnfold
<1>4. \A r \in closer.refs : r[2] \in 1 .. nextMux
  BY <1>3 DEF CloserRecord
<1>5. muxClosed' \subseteq 1 .. nextMux
  BY <1>2, <1>3, <1>4
<1>6. closer' \in CloserRecord(1 .. nextMux) /\ closer'.refs = closer.refs
  BY <1>2, <1>3 DEF CloserRecord
<1>7. Muxes'
  BY <1>1, <1>2, <1>6 DEF Muxes, NoOrphanMux, At
<1>8. closed' \in BOOLEAN /\ closing' \in BOOLEAN
  BY <1>1, <1>2 DEF Typed, TypeOK
<1> QED
  BY <1>2, <1>3, <1>5, <1>6, <1>7, <1>8, CloserStep

LEMMA CloseClearStep ==
  ASSUME PeersInv, CloseClear
  PROVE  PeersInv'
<1>1. Typed /\ Muxes
  BY DEF PeersInv
<1>2. /\ closer.pc = "clearing" /\ closer' = [closer EXCEPT !.pc = "waiting"]
      /\ closing' = closing /\ closed' = TRUE
      /\ goroutine' = goroutine /\ nextMux' = nextMux /\ muxClosed' = muxClosed
      /\ peer' = [p \in Peers |-> IF <<p, peer[p].mux>> \in closer.refs
                                  THEN [peer[p] EXCEPT !.mux = NoMux] ELSE peer[p]]
      /\ UNCHANGED <<tables, done, ops>>
  BY DEF CloseClear, muxes
<1>3. /\ peer \in [Peers -> PeerRecord(0 .. nextMux)] /\ nextMux \in Nat
      /\ muxClosed \subseteq 1 .. nextMux /\ closer \in CloserRecord(1 .. nextMux)
  BY <1>1, TypedUnfold
<1>4. closer' \in CloserRecord(1 .. nextMux) /\ closer'.pc = "waiting"
  BY <1>2, <1>3 DEF CloserRecord
<1>5. \A p \in Peers :
        /\ peer'[p] \in PeerRecord(0 .. nextMux)
        /\ peer'[p].session = peer[p].session
        /\ peer'[p].previous = peer[p].previous
        /\ peer'[p].state = peer[p].state
        /\ peer'[p].mux = peer[p].mux \/ (peer'[p].mux = NoMux /\ <<p, peer[p].mux>> \in closer.refs)
  <2> SUFFICES ASSUME NEW p \in Peers
               PROVE  /\ peer'[p] \in PeerRecord(0 .. nextMux)
                      /\ peer'[p].session = peer[p].session
                      /\ peer'[p].previous = peer[p].previous
                      /\ peer'[p].state = peer[p].state
                      /\ \/ peer'[p].mux = peer[p].mux
                         \/ peer'[p].mux = NoMux /\ <<p, peer[p].mux>> \in closer.refs
    OBVIOUS
  <2>1. peer[p] \in PeerRecord(0 .. nextMux) /\ NoMux \in 0 .. nextMux
    BY <1>3 DEF NoMux
  <2>2. CASE <<p, peer[p].mux>> \in closer.refs
    <3>1. peer'[p] = [peer[p] EXCEPT !.mux = NoMux]
      BY <1>2, <2>2
    <3> QED
      BY <2>1, <2>2, <3>1 DEF PeerRecord
  <2>3. CASE <<p, peer[p].mux>> \notin closer.refs
    BY <1>2, <2>1, <2>3
  <2> QED
    BY <2>2, <2>3
<1>6. peer' \in [Peers -> PeerRecord(0 .. nextMux)]
  BY <1>2, <1>5
<1>7. Muxes'
  <2>1. \A p \in Peers : peer'[p].mux = peer[p].mux \/ peer[p].mux \in muxClosed
    BY <1>1, <1>2, <1>5 DEF Muxes
  <2> QED
    BY <1>1, <1>2, <1>4, <2>1 DEF Muxes, NoOrphanMux, At
<1>8. closed' \in BOOLEAN /\ closing' \in BOOLEAN /\ muxClosed' \subseteq 1 .. nextMux
  BY <1>1, <1>2, <1>3 DEF Typed, TypeOK
<1> QED
  BY <1>2, <1>4, <1>5, <1>6, <1>7, <1>8, CloserStep

LEMMA CloseReturnStep ==
  ASSUME PeersInv, CloseReturn
  PROVE  PeersInv'
<1>1. Typed /\ Muxes
  BY DEF PeersInv
<1>2. /\ closer' = [closer EXCEPT !.pc = "returned"] /\ closing' = closing
      /\ closed' = closed /\ goroutine' = goroutine /\ nextMux' = nextMux /\ peer' = peer
      /\ muxClosed' = muxClosed /\ UNCHANGED <<tables, done, ops>>
  BY DEF CloseReturn, muxes
<1>3. /\ peer \in [Peers -> PeerRecord(0 .. nextMux)]
      /\ muxClosed \subseteq 1 .. nextMux /\ closer \in CloserRecord(1 .. nextMux)
  BY <1>1, TypedUnfold
<1>4. closer' \in CloserRecord(1 .. nextMux) /\ closer'.pc = "returned"
  BY <1>2, <1>3 DEF CloserRecord
<1>5. Muxes'
  BY <1>1, <1>2, <1>4 DEF Muxes, NoOrphanMux, At
<1>6. closed' \in BOOLEAN /\ closing' \in BOOLEAN
  BY <1>1, <1>2 DEF Typed, TypeOK
<1> QED
  BY <1>2, <1>3, <1>4, <1>5, <1>6, CloserStep

-----------------------------------------------------------------------------
(* The peer table: initially right, and kept by every step. *)
LEMMA PeersStart == Init => PeersInv
<1> SUFFICES ASSUME Init PROVE PeersInv
  OBVIOUS
<1>1. /\ goroutine = [g \in Goroutines |-> Idle] /\ peer = [p \in Peers |-> NewPeer]
      /\ closer = [pc |-> "open", refs |-> {}] /\ nextMux = 0 /\ nextIndex = 0
      /\ pending = {} /\ muxClosed = {} /\ done = [i \in Index |-> "empty"]
      /\ known = {} /\ byIndex = [i \in Index |-> NoPeer] /\ ops = 0
      /\ closing = FALSE /\ closed = FALSE
  BY DEF Init
<1>2. /\ \A g \in Goroutines : goroutine[g].pc = "idle"
      /\ \A p \in Peers : /\ peer[p].session = NoSession /\ peer[p].previous = NoSession
                          /\ peer[p].mux = NoMux /\ peer[p].state = "new"
  BY <1>1 DEF Idle, NewPeer
<1>3. goroutine \in [Goroutines -> GoroutineRecord(0 .. nextMux)]
  <2>1. Idle \in GoroutineRecord(0 .. nextMux)
    BY <1>1, IdleTyped
  <2> QED
    BY <1>1, <2>1
<1>4. peer \in [Peers -> PeerRecord(0 .. nextMux)]
  <2>1. NewPeer \in PeerRecord(0 .. nextMux)
    BY <1>1 DEF NewPeer, PeerRecord, NoSession, NoMux, States
  <2> QED
    BY <1>1, <2>1
<1>5. Typed
  <2>1. closer \in CloserRecord(1 .. nextMux) /\ closer.pc = "open" /\ closer.refs = {}
    BY <1>1 DEF CloserRecord
  <2>2. nextIndex \in 0 .. MaxIndex /\ ops \in 0 .. MaxOps
    BY <1>1, BoundAssumption
  <2>3. /\ done \in [Index -> {"empty", "ok", "err", "taken"}]
        /\ byIndex \in [Index -> Peers \cup {NoPeer}]
    BY <1>1
  <2> QED
    BY <1>1, <1>3, <1>4, <2>1, <2>2, <2>3
       DEF Typed, TypeOK, GoroutineRecord, GoroutinePcs, Kinds
<1>6. Shape
  BY <1>2 DEF Shape, HasInHand, HandshakePcs
<1>7. Handshakes
  <2>1. /\ Workers \subseteq Goroutines /\ "idle" \notin HandshakePcs
        /\ \A p \in Peers : Held(p) = {}
    BY <1>2 DEF Goroutines, HandshakePcs, Held
  <2>2. PendingApart /\ AnswersApart /\ InstallsApart /\ RotatedApart
    BY <1>1, <1>2, <2>1 DEF PendingApart, AnswersApart, InstallsApart, RotatedApart, At, Answering
  <2>3. HeldApart
    BY <1>1, <1>2, <2>1 DEF HeldApart, NoSession
  <2>4. FreshEmpty /\ SessionsIndexed
    BY <1>1, <2>1 DEF FreshEmpty, SessionsIndexed
  <2> QED
    BY <2>2, <2>3, <2>4 DEF Handshakes
<1>8. EstablishedHasSession
  BY <1>2 DEF EstablishedHasSession
<1>9. Muxes
  BY <1>1 DEF Muxes, NoOrphanMux
<1> QED
  BY <1>5, <1>6, <1>7, <1>8, <1>9 DEF PeersInv

LEMMA PeersStep == PeersInv /\ [Next]_vars => PeersInv'
<1> SUFFICES ASSUME PeersInv, [Next]_vars PROVE PeersInv'
  OBVIOUS
<1> USE DEF Goroutines
<1>1. ASSUME NEW w \in Workers, Packet(w) PROVE PeersInv'
  BY <1>1, HandshakeInitReceiveStep, HandshakeInitSendFailsStep, HandshakeRespReceiveStep,
     TransportReceiveStep DEF Packet
<1>2. ASSUME NEW w \in Workers, Handler(w) PROVE PeersInv'
  BY <1>2, HandshakeRespFailStep, InstallSessionStep, RegisterIndexStep, SignalDoneStep,
     ReadCurrentStep, RecordActivityStep, CloseNoticeStep DEF Handler
<1>3. ASSUME NEW g \in Workers \cup Apps, MuxMethod(g) PROVE PeersInv'
  <2>1. g \in Goroutines
    BY <1>3
  <2> HIDE DEF Goroutines
  <2> QED
    BY <1>3, <2>1, EnsureServiceMuxStep, OpenServiceMuxStep, CloseServiceMuxStep, CloseMuxStep
       DEF MuxMethod
<1>4. ASSUME NEW a \in Apps, App(a) PROVE PeersInv'
  <2>1. NoMux \in 0 .. nextMux
    BY TypedUnfold DEF PeersInv, NoMux
  <2> QED
    BY <1>4, <2>1, AppCallStep DEF App
<1>5. ASSUME NEW c \in Callers, (\E p \in Peers : ConnectCall(c, p)) \/ Connect(c) PROVE PeersInv'
  BY <1>5, ConnectCallStep, ConnectMarkStep, ConnectRegisterStep, ConnectSendStep,
     ConnectSendFailsStep, ConnectDoneStep, ConnectTimeoutStep, ConnectFailStep DEF Connect
<1>6. CASE CloseBegin \/ CloseStep
  BY <1>6, CloseBeginStep, CloseMuxesStep, CloseClearStep, CloseReturnStep DEF CloseStep
<1>7. CASE UNCHANGED vars
  <2>1. /\ peer' = peer /\ goroutine' = goroutine /\ known' = known /\ ops' = ops
        /\ UNCHANGED <<byIndex, pending, done, nextIndex, nextMux, muxClosed, shutdown>>
    BY <1>7 DEF vars, shutdown
  <2>2. /\ peer' \in [Peers -> PeerRecord(0 .. nextMux)] /\ known' \subseteq Peers
        /\ ops' \in 0 .. MaxOps
        /\ goroutine' \in [Goroutines -> GoroutineRecord(0 .. nextMux)]
    BY <2>1, TypedUnfold DEF PeersInv
  <2> QED
    BY <2>1, <2>2, QuietStep
<1> QED
  BY <1>1, <1>2, <1>3, <1>4, <1>5, <1>6, <1>7, WorkerExitStep, SetPeerEndpointStep DEF Next

LEMMA PeersAlways == Spec => []PeersInv
BY PeersStart, PeersStep, PTL DEF Spec

(* The peer table's variables keep their types: no handler ever follows a  *)
(* nil peer, address or session into the table.                            *)
THEOREM PeersTypeCorrect == Spec => []TypeOK
<1>1. PeersInv => TypeOK
  BY DEF PeersInv, Typed
<1> QED
  BY <1>1, PeersAlways, PTL

(* Concurrent handshakes never unregister a session that can still receive *)
(* (the index update of handleHandshakeInit and handleHandshakeResp).      *)
THEOREM SessionsStayIndexed == Spec => []SessionsIndexed
<1>1. PeersInv => SessionsIndexed
  BY DEF PeersInv, Handshakes
<1> QED
  BY <1>1, PeersAlways, PTL

(* No worker ever blocks on a done channel: one Connect attempt is answered *)
(* at most once (handleHandshakeResp removes the pending entry).            *)
THEOREM DoneIsNeverFull == Spec => []DoneNeverBlocks
<1>1. PeersInv => DoneNeverBlocks
  <2> SUFFICES ASSUME PeersInv, NEW w \in Workers, goroutine[w].pc \in {"doneOk", "doneErr"}
               PROVE  done[goroutine[w].idx] = "empty"
    BY DEF DoneNeverBlocks, At
  <2>1. goroutine[w].kind = "resp" /\ Answering(w)
    BY DEF PeersInv, Shape, HasInHand, Goroutines, Answering, HandshakePcs
  <2> QED
    BY <2>1 DEF PeersInv, Handshakes, AnswersApart
<1> QED
  BY <1>1, PeersAlways, PTL

(* A peer that is established, or has a service mux, has a session to send *)
(* on, through every interleaving of handshakes, mux methods and Close.    *)
THEOREM EstablishedMeansSession == Spec => []EstablishedHasSession
<1>1. PeersInv => EstablishedHasSession
  BY DEF PeersInv
<1> QED
  BY <1>1, PeersAlways, PTL

(* A service mux that was created and not closed is its peer's current one *)
(* or in the hands of a goroutine about to close it (OpenServiceMux,       *)
(* CloseServiceMux, UDP.Close).                                            *)
THEOREM NoMuxOrphaned == Spec => []NoOrphanMux
<1>1. PeersInv => NoOrphanMux
  BY DEF PeersInv, Muxes
<1> QED
  BY <1>1, PeersAlways, PTL
=============================================================================
