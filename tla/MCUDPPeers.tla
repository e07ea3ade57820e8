----------------------------- MODULE MCUDPPeers -----------------------------
(* Small instances of UDPPeers.                                             *)
EXTENDS UDPPeers, TLC

CONSTANTS w1, w2

MCWorkers == {w1, w2}

(* Decrypt workers are interchangeable *)
Symmetry == Permutations(MCWorkers)
=============================================================================
