------------------------------ MODULE CoreConn ------------------------------
(***************************************************************************)
(* One Conn (core/conn.go, core/dial.go): made by Dial or by a listener's  *)
(* accept, then used at once by a Recv goroutine, the maintenance tick     *)
(* (one at a time: singleflight), background rekeys, senders and Close.  A *)
(* step is one critical section of Conn.mu, or one send.                   *)
(*                                                                         *)
(* The remote end and the network are the environment: every initiation    *)
(* sent may be answered any number of times and at any time, and the       *)
(* remote may initiate.  Time is not modelled: a deadline that is armed    *)
(* may have passed.  A handshake and the random index made for it are one  *)
(* fresh number; retransmissions reuse the index with a new handshake.     *)
(***************************************************************************)
EXTENDS Integers, FiniteSets

CONSTANTS
  MaxId,       \* bound: handshakes in one behaviour, plus the Conn's first index
  MaxPending   \* bound: queued packets

ASSUME CoreConnAssumption == MaxId \in Nat \ {0} /\ MaxPending \in Nat

FirstIdx == 1
Handshakes == 2 .. MaxId
NoHs == 0
NoSession == [local |-> 0, key |-> 0]
Session == [local: 1 .. MaxId, key: Handshakes]

VARIABLES
  cstate,       \* ConnState
  localIdx,
  current, previous,
  hsState,      \* the pending handshake, or NoHs
  hsTimes,      \* handshakeAttemptStart and lastHandshakeSent: which are not zero
  isInitiator, rekeyTriggered,
  pendingPackets,   \* how many
  dialer,       \* where Dial, or accept, is
  recver,       \* where Recv is
  ticker,       \* where doTick is, in an operation it decided on
  rekeyer,      \* where the background rekey is
  lastId,       \* handshakes made so far
  wire,         \* initiations that were sent: handshake and index
  used          \* history: handshakes that became a session

sessionVars == <<cstate, localIdx, current, previous, hsState, hsTimes, isInitiator,
                 rekeyTriggered, pendingPackets>>
connVars == <<sessionVars, dialer, recver, ticker, rekeyer, lastId, wire, used>>

AtRest == [at |-> "idle"]

newConn ==
  /\ cstate = "new"
  /\ localIdx = FirstIdx
  /\ current = NoSession /\ previous = NoSession
  /\ hsState = NoHs /\ hsTimes = {}
  /\ isInitiator = FALSE /\ rekeyTriggered = FALSE
  /\ pendingPackets = 0
  /\ dialer = "start"
  /\ recver = AtRest /\ ticker = AtRest /\ rekeyer = AtRest
  /\ lastId = FirstIdx
  /\ wire = {}
  /\ used = {}

(* noise.NewHandshakeState, with the index for it when one is generated *)
Fresh(h) == h = lastId + 1 /\ h <= MaxId /\ lastId' = h

(* current becomes previous, and the new session current *)
Rotate(s) ==
  /\ previous' = IF current # NoSession THEN current ELSE previous
  /\ current' = s
  /\ used' = used \cup {s.key}
  /\ cstate' = "established"
  /\ rekeyTriggered' = FALSE

resetHandshakeState ==
  /\ cstate' = "new" /\ hsState' = NoHs
  /\ UNCHANGED <<localIdx, current, previous, hsTimes, isInitiator, rekeyTriggered,
                 pendingPackets>>

ConnCloseState ==
  /\ cstate' = "closed"
  /\ hsState' = NoHs /\ hsTimes' = {}
  /\ rekeyTriggered' = FALSE /\ pendingPackets' = 0
  /\ UNCHANGED <<localIdx, current, previous, isInitiator>>

-----------------------------------------------------------------------------
(* Dial and accept: nobody else has the Conn yet *)

DialStart ==
  /\ dialer = "start"
  /\ cstate' = "handshaking" /\ hsTimes' = {"attempt"}
  /\ dialer' = "send"
  /\ UNCHANGED <<localIdx, current, previous, hsState, isInitiator, rekeyTriggered,
                 pendingPackets, recver, ticker, rekeyer, lastId, wire, used>>

(* Every attempt has new ephemeral keys and the same index *)
DialSend(h) ==
  /\ dialer = "send" /\ Fresh(h)
  /\ wire' = wire \cup {[hs |-> h, idx |-> localIdx]}
  /\ hsState' = h /\ hsTimes' = hsTimes \cup {"sent"} /\ isInitiator' = TRUE
  /\ dialer' = "wait"
  /\ UNCHANGED <<cstate, localIdx, current, previous, rekeyTriggered, pendingPackets,
                 recver, ticker, rekeyer, used>>

DialTimeout ==
  /\ dialer = "wait" /\ dialer' = "send"
  /\ UNCHANGED <<sessionVars, recver, ticker, rekeyer, lastId, wire, used>>

(* A response to the current attempt; one to an earlier attempt has the same index
   and fails to verify, which ends the dial, as do a cancelled context and errors *)
DialResponse(m) ==
  /\ dialer = "wait" /\ m \in wire /\ m.hs = hsState
  /\ Rotate([local |-> localIdx, key |-> hsState])
  /\ hsState' = NoHs /\ hsTimes' = {}
  /\ dialer' = "done"
  /\ UNCHANGED <<localIdx, isInitiator, pendingPackets, recver, ticker, rekeyer,
                 lastId, wire>>

DialFails ==
  /\ dialer \in {"send", "wait"}
  /\ ConnCloseState
  /\ dialer' = "failed"
  /\ UNCHANGED <<recver, ticker, rekeyer, lastId, wire, used>>

(* The listener's side: the remote's initiation creates the session at once *)
accept(h) ==
  /\ dialer = "start" /\ Fresh(h)
  /\ Rotate([local |-> localIdx, key |-> h])
  /\ dialer' = "accepted"
  /\ UNCHANGED <<localIdx, hsState, hsTimes, isInitiator, pendingPackets, recver,
                 ticker, rekeyer, wire>>

InUse == dialer \in {"done", "accepted"}

-----------------------------------------------------------------------------
(* Senders and Close *)

sendPayload ==
  /\ InUse /\ cstate # "closed"
  /\ current = NoSession \/ cstate # "established"
  /\ pendingPackets < MaxPending
  /\ pendingPackets' = pendingPackets + 1
  /\ UNCHANGED <<cstate, localIdx, current, previous, hsState, hsTimes, isInitiator,
                 rekeyTriggered, dialer, recver, ticker, rekeyer, lastId, wire, used>>

CoreClose ==
  /\ InUse /\ cstate # "closed"
  /\ ConnCloseState
  /\ UNCHANGED <<dialer, recver, ticker, rekeyer, lastId, wire, used>>

-----------------------------------------------------------------------------
(* Recv: only one goroutine calls it *)

RecvCall ==
  /\ InUse /\ recver.at = "idle"
  /\ cstate # "closed"
  /\ ~(cstate = "new" /\ current = NoSession /\ hsState = NoHs)
  /\ recver' = [at |-> "read"]
  /\ UNCHANGED <<sessionVars, dialer, ticker, rekeyer, lastId, wire, used>>

(* A transport packet of either session; it may start a rekey in the background *)
handleTransportMessage ==
  /\ recver.at = "read"
  /\ recver' = AtRest
  /\ \/ UNCHANGED rekeyer
     \/ /\ current # NoSession /\ isInitiator /\ ~rekeyTriggered /\ rekeyer.at = "idle"
        /\ rekeyer' = [at |-> "check"]
  /\ UNCHANGED <<sessionVars, dialer, ticker, lastId, wire, used>>

(* The responses that may arrive: to an initiation that was sent, or one that answers
   none and fails to verify *)
Responses == wire \cup {[hs |-> NoHs, idx |-> localIdx]}

(* mutant: the receiver index of the response is not compared *)
ResponseCopyAnyIndex(m) ==
  /\ recver.at = "read" /\ dialer = "done" /\ m \in Responses
  /\ recver' = IF hsState # NoHs
                 THEN [at |-> "response", hs |-> hsState, answers |-> m.hs, idx |-> localIdx]
                 ELSE AtRest
  /\ UNCHANGED <<sessionVars, dialer, ticker, rekeyer, lastId, wire, used>>

(* handleHandshakeResponse copies hsState and localIdx, works unlocked, and comes
   back.  A listener's Conn is only given transport messages. *)
ResponseCopy(m) ==
  /\ recver.at = "read" /\ dialer = "done" /\ m \in Responses
  /\ recver' = IF hsState # NoHs /\ m.idx = localIdx
                 THEN [at |-> "response", hs |-> hsState, answers |-> m.hs, idx |-> localIdx]
                 ELSE AtRest
  /\ UNCHANGED <<sessionVars, dialer, ticker, rekeyer, lastId, wire, used>>

ResponseFails ==
  /\ recver.at = "response" /\ recver.answers # recver.hs
  /\ resetHandshakeState
  /\ recver' = AtRest
  /\ UNCHANGED <<dialer, ticker, rekeyer, lastId, wire, used>>

ResponseInstall ==
  /\ recver.at = "response" /\ recver.answers = recver.hs
  /\ recver' = AtRest
  /\ IF hsState # recver.hs THEN UNCHANGED <<sessionVars, used>>
     ELSE /\ Rotate([local |-> recver.idx, key |-> recver.hs])
          /\ hsState' = NoHs /\ hsTimes' = {}
          /\ isInitiator' = TRUE
          /\ UNCHANGED <<localIdx, pendingPackets>>
  /\ UNCHANGED <<dialer, ticker, rekeyer, lastId, wire>>

(* handleHandshakeInit answers before it installs, and looks at no state again *)
InitAnswer(h) ==
  /\ recver.at = "read" /\ dialer = "done" /\ Fresh(h)
  /\ recver' = [at |-> "init", hs |-> h]
  /\ UNCHANGED <<sessionVars, dialer, ticker, rekeyer, wire, used>>

InitInstall ==
  /\ recver.at = "init"
  /\ Rotate([local |-> recver.hs, key |-> recver.hs])
  /\ localIdx' = recver.hs /\ isInitiator' = FALSE
  /\ recver' = AtRest
  /\ UNCHANGED <<hsState, hsTimes, pendingPackets, dialer, ticker, rekeyer, lastId, wire>>

-----------------------------------------------------------------------------
(* doTick decides on a copy of the state, and acts later *)

TickCleanup ==
  /\ cstate \in {"new", "established"} /\ (current # NoSession \/ previous # NoSession)
  /\ ticker' = [at |-> "cleanup"]

TickRetransmit ==
  /\ cstate = "established" /\ hsState # NoHs /\ "sent" \in hsTimes
  /\ ticker' = [at |-> "copy"]

(* Nothing heard for a while, or the session is old *)
TickRekey ==
  /\ cstate = "established" /\ hsState = NoHs /\ isInitiator
  /\ ticker' = [at |-> "check"]

doTick ==
  /\ InUse /\ ticker.at = "idle"
  /\ TickCleanup \/ TickRetransmit \/ TickRekey
  /\ UNCHANGED <<sessionVars, dialer, recver, rekeyer, lastId, wire, used>>

(* mutant: the state is left established without a session *)
cleanupSessionsKeepState ==
  /\ ticker.at = "cleanup"
  /\ current' = NoSession /\ previous' = NoSession
  /\ hsState' = NoHs /\ hsTimes' = {}
  /\ pendingPackets' = 0 /\ rekeyTriggered' = FALSE
  /\ ticker' = AtRest
  /\ UNCHANGED <<cstate, localIdx, isInitiator, dialer, recver, rekeyer, lastId, wire, used>>

cleanupSessions ==
  /\ ticker.at = "cleanup"
  /\ current' = NoSession /\ previous' = NoSession
  /\ hsState' = NoHs /\ hsTimes' = {}
  /\ pendingPackets' = 0 /\ rekeyTriggered' = FALSE
  /\ cstate' = IF cstate = "established" THEN "new" ELSE cstate
  /\ ticker' = AtRest
  /\ UNCHANGED <<localIdx, isInitiator, dialer, recver, rekeyer, lastId, wire, used>>

(* initiateRekey, run by goroutine p: check, send, check again and install *)
RekeyCheck(p) ==
  /\ p.at = "check"
  /\ IF cstate = "closed" \/ hsState # NoHs THEN p' = AtRest ELSE p' = [at |-> "send"]
  /\ UNCHANGED <<sessionVars, lastId, wire>>

RekeySend(p, h) ==
  /\ p.at = "send" /\ cstate # "closed" /\ Fresh(h)
  /\ wire' = wire \cup {[hs |-> h, idx |-> h]}
  /\ p' = [at |-> "install", hs |-> h]
  /\ UNCHANGED sessionVars

RekeySendFails(p) ==
  /\ p.at = "send"
  /\ p' = AtRest
  /\ UNCHANGED <<sessionVars, lastId, wire>>

RekeyInstall(p) ==
  /\ p.at = "install" /\ p' = AtRest
  /\ IF cstate = "closed" \/ hsState # NoHs THEN UNCHANGED sessionVars
     ELSE /\ hsState' = p.hs /\ localIdx' = p.hs /\ hsTimes' = {"attempt", "sent"}
          /\ isInitiator' = TRUE /\ rekeyTriggered' = TRUE
          /\ UNCHANGED <<cstate, current, previous, pendingPackets>>
  /\ UNCHANGED <<lastId, wire>>

initiateRekey(p) ==
  \/ RekeyCheck(p) \/ RekeySendFails(p) \/ RekeyInstall(p)
  \/ \E h \in Handshakes : RekeySend(p, h)

(* retransmitHandshake: copy the index, send a new handshake under it, install *)
RetransmitCopy ==
  /\ ticker.at = "copy"
  /\ ticker' = IF cstate = "closed" \/ hsState = NoHs THEN AtRest
               ELSE [at |-> "resend", idx |-> localIdx]
  /\ UNCHANGED <<sessionVars, dialer, recver, rekeyer, lastId, wire, used>>

RetransmitSend(h) ==
  /\ ticker.at = "resend" /\ cstate # "closed" /\ Fresh(h)
  /\ wire' = wire \cup {[hs |-> h, idx |-> ticker.idx]}
  /\ ticker' = [at |-> "reinstall", hs |-> h]
  /\ UNCHANGED <<sessionVars, dialer, recver, rekeyer, used>>

RetransmitInstall ==
  /\ ticker.at = "reinstall"
  /\ IF cstate = "closed" THEN UNCHANGED <<hsState, hsTimes>>
     ELSE hsState' = ticker.hs /\ hsTimes' = hsTimes \cup {"sent"}
  /\ ticker' = AtRest
  /\ UNCHANGED <<cstate, localIdx, current, previous, isInitiator, rekeyTriggered,
                 pendingPackets, dialer, recver, rekeyer, lastId, wire, used>>

(* A send that fails, or is refused because the Conn was closed *)
RetransmitFails ==
  /\ ticker.at = "resend"
  /\ ticker' = AtRest
  /\ UNCHANGED <<sessionVars, dialer, recver, rekeyer, lastId, wire, used>>

-----------------------------------------------------------------------------
DialNext ==
  \/ DialStart \/ DialTimeout \/ DialFails
  \/ \E h \in Handshakes : DialSend(h) \/ accept(h)
  \/ \E m \in wire : DialResponse(m)

RecvNext ==
  \/ RecvCall \/ handleTransportMessage \/ ResponseFails \/ ResponseInstall \/ InitInstall
  \/ \E m \in Responses : ResponseCopy(m)
  \/ \E h \in Handshakes : InitAnswer(h)

TickNext ==
  \/ doTick \/ cleanupSessions
  \/ initiateRekey(ticker) /\ UNCHANGED <<dialer, recver, rekeyer, used>>
  \/ RetransmitCopy \/ RetransmitInstall \/ RetransmitFails
  \/ \E h \in Handshakes : RetransmitSend(h)

ConnNext ==
  \/ DialNext \/ RecvNext \/ TickNext
  \/ initiateRekey(rekeyer) /\ UNCHANGED <<dialer, recver, ticker, used>>
  \/ sendPayload \/ CoreClose

ConnSpec == newConn /\ [][ConnNext]_connVars

-----------------------------------------------------------------------------
(* Types of the connection's state. *)
ConnTypeOK ==
  /\ cstate \in {"new", "handshaking", "established", "closed"}
  /\ localIdx \in 1 .. MaxId
  /\ current \in Session \cup {NoSession} /\ previous \in Session \cup {NoSession}
  /\ hsState \in Handshakes \cup {NoHs}
  /\ pendingPackets \in 0 .. MaxPending

(* An established connection has a session to send with, although a tick that decided
   to clean up, a failed response and a late initiation all rewrite the state. *)
EstablishedHasCurrent == cstate = "established" => current # NoSession

(* A handshake becomes a session at most once: a second session with the same keys
   would start its nonces again.  And its session has the index that its initiation
   named, under which the remote will address it (ReceiverIndex in
   handleHandshakeResponse), although the Conn's own index is rewritten by an initiation
   of the remote, a rekey or a retransmission while the handshake is pending. *)
HandshakesNotMixed ==
  [][<<current, previous>>' # <<current, previous>> /\ current' # NoSession =>
       /\ current'.key \notin used
       /\ \A m \in wire : m.hs = current'.key => m.idx = current'.local]_connVars
=============================================================================
