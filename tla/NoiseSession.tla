---------------------------- MODULE NoiseSession ----------------------------
(***************************************************************************)
(* One direction of an established noise.Session                           *)
(* (pkg/giznet/internal/noise/session.go): goroutines of the sending side  *)
(* call Encrypt, decrypt workers of the receiving side call Decrypt on     *)
(* packets that the network loses, duplicates, reorders and corrupts.      *)
(*                                                                         *)
(* Both calls release the session's lock after they read the state, so     *)
(* each is split where another goroutine can run: state check, nonce       *)
(* allocation and sealing for Encrypt; state check, CheckAndUpdate and     *)
(* opening for Decrypt.  Timestamps are left out (no step here reads them).*)
(***************************************************************************)
EXTENDS ReplayWindow

CONSTANTS Senders,      \* goroutines that call Encrypt
          Workers,      \* decrypt workers that call Decrypt
          NonceMod,     \* number of values of the nonce counter: 2^64 in the code
          MaxCalls,     \* bound on the nonces Encrypt allocates
          MaxCorrupt    \* bound on packets corrupted in transit

ASSUME NonceAssumption ==
  /\ NonceMod \in Nat /\ NonceMod > 2
  /\ MaxCalls \in Nat
  /\ MaxCorrupt \in Nat

VARIABLES
  sendState,  \* Session.state of the sender: "established" or "expired"
  sendNonce,  \* Session.sendNonce, an atomic counter of fixed width
  calls,      \* how many nonces were allocated
  spc,        \* where each sender is in Encrypt
  snonce,     \* the nonce each sender was given
  sealed,     \* nonce -> how many messages it sealed
  recvState,  \* Session.state of the receiver
  recvNonce,  \* the receiver's replay filter
  wpc,        \* where each worker is in Decrypt
  wpkt,       \* the packet each worker holds
  corrupted,  \* how many corrupted packets arrived
  consumed,   \* nonces for which CheckAndUpdate returned true
  delivered   \* nonce -> how often Decrypt returned its plaintext

sendVars == <<sendState, sendNonce, calls, spc, snonce, sealed>>
recvVars == <<recvState, recvNonce, wpc, wpkt, corrupted, consumed, delivered>>
vars == <<sendVars, recvVars>>

Nonce == 0 .. (NonceMod - 1)

(* ^uint64(0) - 1: the largest counter value minus one *)
MaxNonce == NonceMod - 2

(* genuine: the ciphertext authenticates under the receiver's key *)
Packet == [nonce : Nonce, genuine : BOOLEAN]

(* The packet of a worker that holds none *)
NoPacket == [nonce |-> 0, genuine |-> FALSE]

Init ==
  /\ sendState = "established"
  /\ sendNonce = 0
  /\ calls = 0
  /\ spc = [t \in Senders |-> "idle"]
  /\ snonce = [t \in Senders |-> 0]
  /\ sealed = [n \in Nonce |-> 0]
  /\ recvState = "established"
  /\ recvNonce = NewReplayFilter
  /\ wpc = [w \in Workers |-> "idle"]
  /\ wpkt = [w \in Workers |-> NoPacket]
  /\ corrupted = 0
  /\ consumed = {}
  /\ delivered = [n \in Nonce |-> 0]

-----------------------------------------------------------------------------
(* Encrypt *)

(* A call on an expired session returns ErrSessionNotEstablished at once *)
EncryptBegin(t) ==
  /\ spc[t] = "idle"
  /\ sendState = "established"
  /\ spc' = [spc EXCEPT ![t] = "allocate"]
  /\ UNCHANGED <<sendState, sendNonce, calls, snonce, sealed, recvVars>>

(* nonce = sendNonce.Add(1) - 1, then the check that returns               *)
(* ErrNonceExhausted                                                       *)
EncryptAllocate(t) ==
  /\ spc[t] = "allocate"
  /\ calls < MaxCalls
  /\ calls' = calls + 1
  /\ sendNonce' = (sendNonce + 1) % NonceMod
  /\ IF sendNonce >= MaxNonce
     THEN /\ spc' = [spc EXCEPT ![t] = "idle"]
          /\ UNCHANGED snonce
     ELSE /\ snonce' = [snonce EXCEPT ![t] = sendNonce]
          /\ spc' = [spc EXCEPT ![t] = "seal"]
  /\ UNCHANGED <<sendState, sealed, recvVars>>

(* A caller that reloads the counter instead of using the value Add gave it *)
EncryptSealReload(t) ==
  /\ spc[t] = "seal"
  /\ sealed' = [sealed EXCEPT ![(sendNonce + NonceMod - 1) % NonceMod] = @ + 1]
  /\ spc' = [spc EXCEPT ![t] = "idle"]
  /\ snonce' = [snonce EXCEPT ![t] = 0]
  /\ UNCHANGED <<sendState, sendNonce, calls, recvVars>>

EncryptSeal(t) ==
  /\ spc[t] = "seal"
  /\ sealed' = [sealed EXCEPT ![snonce[t]] = @ + 1]
  /\ spc' = [spc EXCEPT ![t] = "idle"]
  /\ snonce' = [snonce EXCEPT ![t] = 0]
  /\ UNCHANGED <<sendState, sendNonce, calls, recvVars>>

-----------------------------------------------------------------------------
(* Decrypt *)

(* A packet of the network: a copy of a sealed one, or a corrupted one *)
Arrives(pkt) == IF pkt.genuine THEN sealed[pkt.nonce] > 0 ELSE corrupted < MaxCorrupt

DecryptBegin(w, pkt) ==
  /\ wpc[w] = "idle"
  /\ Arrives(pkt)
  /\ recvState = "established"
  /\ wpkt' = [wpkt EXCEPT ![w] = pkt]
  /\ wpc' = [wpc EXCEPT ![w] = "check"]
  /\ corrupted' = IF pkt.genuine THEN corrupted ELSE corrupted + 1
  /\ UNCHANGED <<sendVars, recvState, recvNonce, consumed, delivered>>

(* A worker that takes Check's answer and leaves Update for later *)
DecryptCheckOnly(w) ==
  LET n == wpkt[w].nonce
  IN  /\ wpc[w] = "check"
      /\ IF checkLocked(recvNonce, n)
         THEN wpc' = [wpc EXCEPT ![w] = "open"] /\ UNCHANGED wpkt
         ELSE /\ wpc' = [wpc EXCEPT ![w] = "idle"]
              /\ wpkt' = [wpkt EXCEPT ![w] = NoPacket]
      /\ UNCHANGED <<sendVars, recvState, recvNonce, corrupted, consumed, delivered>>

(* CheckAndUpdate, atomic under the filter's mutex *)
DecryptCheck(w) ==
  LET n == wpkt[w].nonce
  IN  /\ wpc[w] = "check"
      /\ IF checkLocked(recvNonce, n)
         THEN /\ recvNonce' = updateLocked(recvNonce, n)
              /\ consumed' = consumed \cup {n}
              /\ wpc' = [wpc EXCEPT ![w] = "open"]
              /\ UNCHANGED wpkt
         ELSE /\ wpc' = [wpc EXCEPT ![w] = "idle"]
              /\ wpkt' = [wpkt EXCEPT ![w] = NoPacket]
              /\ UNCHANGED <<recvNonce, consumed>>
      /\ UNCHANGED <<sendVars, recvState, corrupted, delivered>>

(* AEAD.Open: the plaintext is returned only if the tag verifies *)
DecryptOpen(w) ==
  /\ wpc[w] = "open"
  /\ delivered' = IF wpkt[w].genuine
                  THEN [delivered EXCEPT ![wpkt[w].nonce] = @ + 1]
                  ELSE delivered
  /\ wpc' = [wpc EXCEPT ![w] = "idle"]
  /\ wpkt' = [wpkt EXCEPT ![w] = NoPacket]
  /\ UNCHANGED <<sendVars, recvState, recvNonce, corrupted, consumed>>

-----------------------------------------------------------------------------
(* Expire, on either side, at any moment *)

ExpireSender ==
  /\ sendState' = "expired"
  /\ UNCHANGED <<sendNonce, calls, spc, snonce, sealed, recvVars>>

ExpireReceiver ==
  /\ recvState' = "expired"
  /\ UNCHANGED <<sendVars, recvNonce, wpc, wpkt, corrupted, consumed, delivered>>

Encrypt(t) == EncryptBegin(t) \/ EncryptAllocate(t) \/ EncryptSeal(t)

Decrypt(w) ==
  \/ \E pkt \in Packet : DecryptBegin(w, pkt)
  \/ DecryptCheck(w)
  \/ DecryptOpen(w)

Next ==
  \/ \E t \in Senders : Encrypt(t)
  \/ \E w \in Workers : Decrypt(w)
  \/ ExpireSender
  \/ ExpireReceiver

Spec == Init /\ [][Next]_vars

-----------------------------------------------------------------------------
(* Properties *)

(* Every variable stays in its domain; in particular the bitmap built by   *)
(* slideWindow and updateLocked never has a bit outside its words.         *)
TypeOK ==
  /\ sendState \in {"established", "expired"}
  /\ sendNonce \in Nonce
  /\ calls \in 0 .. MaxCalls
  /\ spc \in [Senders -> {"idle", "allocate", "seal"}]
  /\ snonce \in [Senders -> Nonce]
  /\ sealed \in [Nonce -> Nat]
  /\ recvState \in {"established", "expired"}
  /\ recvNonce \in [bitmap : [Word -> SUBSET Bit], maxNonce : Nonce]
  /\ wpc \in [Workers -> {"idle", "check", "open"}]
  /\ wpkt \in [Workers -> Packet]
  /\ corrupted \in 0 .. MaxCorrupt
  /\ consumed \in SUBSET Nonce
  /\ delivered \in [Nonce -> Nat]

(* The replay filter is exact: whatever order the nonces arrived in, and   *)
(* however far the window slid, CheckAndUpdate accepts a nonce if and only *)
(* if it is above the highest one seen, or inside the window and not yet   *)
(* consumed.  No replay is let through and no fresh packet of the window   *)
(* is refused (replay.go, checkLocked/updateLocked/slideWindow).           *)
FilterExact ==
  \A n \in Nonce :
    checkLocked(recvNonce, n) <=>
      \/ n > recvNonce.maxNonce
      \/ recvNonce.maxNonce - n < ReplayWindowSize /\ n \notin consumed

(* Concurrent Encrypt calls never seal two messages under one nonce, up to *)
(* and including the calls that report exhaustion (session.go, Encrypt).   *)
NonceUsedOnce == \A n \in Nonce : sealed[n] <= 1

(* Concurrent workers never return the plaintext of one nonce twice, no    *)
(* matter how the network duplicates it, corrupts other packets, or when   *)
(* the session expires (session.go, Decrypt with CheckAndUpdate).          *)
DeliveredOnce == \A n \in Nonce : delivered[n] <= 1

(* The session implements the abstract at-most-once channel (session.go,   *)
(* Encrypt and Decrypt).                                                   *)
Channel == INSTANCE AntiReplay
ImplementsAntiReplay == Channel!Spec
=============================================================================
