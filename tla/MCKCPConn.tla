------------------------------ MODULE MCKCPConn ------------------------------
(***************************************************************************)
(* Small instances of KCPConn.  A scenario says which methods are called   *)
(* in a behaviour: "read" is Read, SetReadDeadline, Input and one Close,   *)
(* "write" is Write, by one writer more often than by the others, and      *)
(* every Close, "any" is all of them.                                      *)
(***************************************************************************)
EXTENDS KCPConn

CONSTANTS Scenarios, ReadCloser, MainWriter

VARIABLE scenario

mcVars == <<vars, scenario>>

Allowed ==
  /\ scenario = "read" =>
       UNCHANGED writeVars /\ \A c \in Closers \ {ReadCloser} : cpc'[c] = "idle"
  /\ scenario = "write" =>
       /\ UNCHANGED <<readVars, deadlineVars, inputVars>>
       /\ \A w \in Writers \ {MainWriter} : wcount'[w] <= 1

MCInit == Init /\ scenario \in Scenarios

MCNext == Next /\ Allowed /\ UNCHANGED scenario

MCSpec == MCInit /\ [][MCNext]_mcVars

MCFairSpec == MCSpec /\ Fairness
=============================================================================
