----------------------------- MODULE AntiReplay -----------------------------
(***************************************************************************)
(* What one direction of a transport session promises: every nonce seals   *)
(* at most one message, and a sealed message is handed to the reader at    *)
(* most once.  Messages may be lost and may be delivered in any order.     *)
(***************************************************************************)
EXTENDS Naturals

CONSTANT Nonce

VARIABLES sealed,     \* how often each nonce sealed a message
          delivered   \* how often the message of each nonce was delivered

vars == <<sealed, delivered>>

Init == /\ sealed = [n \in Nonce |-> 0]
        /\ delivered = [n \in Nonce |-> 0]

Seal(n) == /\ sealed[n] = 0
           /\ sealed' = [sealed EXCEPT ![n] = 1]
           /\ UNCHANGED delivered

Deliver(n) == /\ sealed[n] = 1
              /\ delivered[n] = 0
              /\ delivered' = [delivered EXCEPT ![n] = 1]
              /\ UNCHANGED sealed

Next == \E n \in Nonce : Seal(n) \/ Deliver(n)

Spec == Init /\ [][Next]_vars
=============================================================================
