--------------------------- MODULE GiznetListener ---------------------------
(***************************************************************************)
(* Listener and Conn of package giznet (giznet/listener.go, conn.go): the  *)
(* handles an application gets for its peers.  Accept loops wait for peer  *)
(* events, Dials run handshakes, and Conns are closed, all at once; each   *)
(* step is one critical section of Listener.mu or one call on the peer.    *)
(*                                                                         *)
(* The UDP layer below is UDPPeers: here a peer has the service mux of its *)
(* current generation, which packets and Peer.ServiceMux create and close  *)
(* notices end.                                                            *)
(***************************************************************************)
EXTENDS Integers, Sequences, FiniteSets

CONSTANTS
  GPeers,
  Callers,     \* goroutines in Accept or in Dial
  EventCap,    \* capacity of the events channel
  MaxHandles,  \* bound: Conns made in one behaviour
  MaxGens      \* bound: service mux generations

ASSUME GiznetAssumption == EventCap \in Nat /\ MaxHandles \in Nat /\ MaxGens \in Nat

Handles == 1 .. MaxHandles
NoHandle == 0
NoGen == 0

VARIABLES
  established,  \* peer -> the active Conn, or NoHandle
  handle,       \* Conn -> its peer, the generation of its smux, closed
  nhandles,
  gen,          \* peer -> generation of its service mux, or NoGen
  ngens,
  events,       \* queue of peer events
  gclosed,      \* Listener.Close has begun
  caller        \* caller -> where its Accept or Dial is

gizVars == <<established, handle, nhandles, gen, ngens, events, gclosed, caller>>

Outside == [at |-> "idle"]

Listen ==
  /\ established = [p \in GPeers |-> NoHandle]
  /\ handle = [c \in Handles |-> [peer |-> CHOOSE p \in GPeers : TRUE, gen |-> NoGen, closed |-> TRUE]]
  /\ nhandles = 0
  /\ gen = [p \in GPeers |-> NoGen]
  /\ ngens = 0
  /\ events = <<>>
  /\ gclosed = FALSE
  /\ caller = [a \in Callers |-> Outside]

(* onPeerEvent never blocks: an event that finds the channel full is lost *)
onPeerEvent(p, s) ==
  IF gclosed \/ Len(events) >= EventCap THEN events
  ELSE Append(events, [peer |-> p, state |-> s])

(* Peer.ServiceMux: the current generation, or a new one *)
ensureMux(p) ==
  IF gen[p] # NoGen THEN UNCHANGED <<gen, ngens>>
  ELSE ngens < MaxGens /\ ngens' = ngens + 1 /\ gen' = [gen EXCEPT ![p] = ngens + 1]

-----------------------------------------------------------------------------
(* The UDP layer: a handshake or a packet brings a generation, a close notice ends
   it, and both are reported *)
PeerComes(p) ==
  /\ ~gclosed /\ gen[p] = NoGen
  /\ ensureMux(p)
  /\ events' = onPeerEvent(p, "established")
  /\ UNCHANGED <<established, handle, nhandles, gclosed, caller>>

PeerGoes(p) ==
  /\ gen[p] # NoGen
  /\ gen' = [gen EXCEPT ![p] = NoGen]
  /\ events' = onPeerEvent(p, "offline")
  /\ UNCHANGED <<established, handle, nhandles, ngens, gclosed, caller>>

-----------------------------------------------------------------------------
(* Accept takes the next event; only "established" ones matter to it *)
AcceptEvent(a) ==
  /\ caller[a].at = "idle" /\ events # <<>>
  /\ events' = Tail(events)
  /\ caller' = IF Head(events).state # "established" THEN caller
               ELSE [caller EXCEPT ![a] = [at |-> "lookup", peer |-> Head(events).peer]]
  /\ UNCHANGED <<established, handle, nhandles, gen, ngens, gclosed>>

(* Dial: an active Conn is returned at once, else a handshake is run first *)
DialCall(a, p) ==
  /\ caller[a].at = "idle" /\ ~gclosed /\ established[p] = NoHandle
  /\ caller' = [caller EXCEPT ![a] = [at |-> "connect", peer |-> p]]
  /\ UNCHANGED <<established, handle, nhandles, gen, ngens, events, gclosed>>

DialConnect(a) ==
  /\ caller[a].at = "connect"
  /\ \/ /\ ~gclosed
        /\ ensureMux(caller[a].peer)
        /\ events' = onPeerEvent(caller[a].peer, "established")
        /\ caller' = [caller EXCEPT ![a].at = "lookup"]
     \/ /\ caller' = [caller EXCEPT ![a] = Outside]
        /\ UNCHANGED <<gen, ngens, events>>
  /\ UNCHANGED <<established, handle, nhandles, gclosed>>

(* Both: is there an active Conn; if not, take the peer's service mux; then look
   again before a new Conn is entered *)
LookupConn(a) ==
  /\ caller[a].at = "lookup"
  /\ caller' = [caller EXCEPT ![a] =
       IF established[caller[a].peer] # NoHandle THEN Outside ELSE [@ EXCEPT !.at = "mux"]]
  /\ UNCHANGED <<established, handle, nhandles, gen, ngens, events, gclosed>>

TakeMux(a) ==
  /\ caller[a].at = "mux"
  /\ \/ /\ ~gclosed /\ ensureMux(caller[a].peer)
        /\ caller' = [caller EXCEPT ![a] =
             [at |-> "enter", peer |-> @.peer, gen |-> gen'[caller[a].peer]]]
     \/ /\ gclosed
        /\ caller' = [caller EXCEPT ![a] = Outside] /\ UNCHANGED <<gen, ngens>>
  /\ UNCHANGED <<established, handle, nhandles, events, gclosed>>

(* mutant: the second look is left out *)
EnterConnBlind(a) ==
  /\ caller[a].at = "enter"
  /\ nhandles < MaxHandles /\ nhandles' = nhandles + 1
  /\ handle' = [handle EXCEPT ![nhandles + 1] =
                  [peer |-> caller[a].peer, gen |-> caller[a].gen, closed |-> FALSE]]
  /\ established' = [established EXCEPT ![caller[a].peer] = nhandles + 1]
  /\ caller' = [caller EXCEPT ![a] = Outside]
  /\ UNCHANGED <<gen, ngens, events, gclosed>>

EnterConn(a) ==
  /\ caller[a].at = "enter"
  /\ IF established[caller[a].peer] # NoHandle THEN UNCHANGED <<established, handle, nhandles>>
     ELSE /\ nhandles < MaxHandles /\ nhandles' = nhandles + 1
          /\ handle' = [handle EXCEPT ![nhandles + 1] =
                          [peer |-> caller[a].peer, gen |-> caller[a].gen, closed |-> FALSE]]
          /\ established' = [established EXCEPT ![caller[a].peer] = nhandles + 1]
  /\ caller' = [caller EXCEPT ![a] = Outside]
  /\ UNCHANGED <<gen, ngens, events, gclosed>>

(* Conn.Close under Listener.mu: the first call ends the Conn's own generation, if it
   still is the peer's, and releases the entry.  A second call is refused. *)
ReleaseConn(c) ==
  /\ c <= nhandles /\ ~handle[c].closed
  /\ handle' = [handle EXCEPT ![c].closed = TRUE]
  /\ LET p == handle[c].peer IN
     /\ IF gen[p] = handle[c].gen
          THEN gen' = [gen EXCEPT ![p] = NoGen] /\ events' = onPeerEvent(p, "offline")
          ELSE UNCHANGED <<gen, events>>
     /\ established' = IF established[p] = c THEN [established EXCEPT ![p] = NoHandle]
                       ELSE established
  /\ UNCHANGED <<nhandles, ngens, gclosed, caller>>

(* Listener.Close; UDP.Close ends the generations *)
CloseGiznet ==
  /\ ~gclosed
  /\ gclosed' = TRUE
  /\ gen' = [p \in GPeers |-> NoGen]
  /\ UNCHANGED <<established, handle, nhandles, ngens, events, caller>>

GiznetNext ==
  \/ \E p \in GPeers : PeerComes(p) \/ PeerGoes(p)
  \/ \E a \in Callers : \/ AcceptEvent(a) \/ DialConnect(a) \/ LookupConn(a)
                        \/ TakeMux(a) \/ EnterConn(a)
                        \/ \E p \in GPeers : DialCall(a, p)
  \/ \E c \in Handles : ReleaseConn(c)
  \/ CloseGiznet

GiznetSpec == Listen /\ [][GiznetNext]_gizVars

-----------------------------------------------------------------------------
(* Types of the listener's state. *)
GiznetTypeOK ==
  /\ established \in [GPeers -> Handles \cup {NoHandle}]
  /\ nhandles \in 0 .. MaxHandles /\ ngens \in 0 .. MaxGens
  /\ gen \in [GPeers -> 0 .. MaxGens]
  /\ Len(events) <= EventCap

(* "A peer public key can have at most one active Conn here until that Conn is closed":
   the Conns that are not closed are exactly the registered ones, whatever Accepts,
   Dials and Closes of one peer overlap. *)
OneActiveConn ==
  \A c \in 1 .. nhandles : ~handle[c].closed <=> established[handle[c].peer] = c
=============================================================================
