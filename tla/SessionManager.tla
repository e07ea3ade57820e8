--------------------------- MODULE SessionManager ---------------------------
(***************************************************************************)
(* SessionManager (core/manager.go): sessions found by local index and by  *)
(* remote key.  A session is its local index and the key of its peer, so a *)
(* map from one to the other stands for each of the two maps of sessions.  *)
(* Every operation holds SessionManager.mu from beginning to end.          *)
(***************************************************************************)
EXTENDS Integers, FiniteSets

CONSTANTS
  Keys,       \* public keys of remote peers
  NoKey,      \* no entry in byIndex
  MaxIndex    \* indexes are 1 .. MaxIndex (2^32 - 1 in the code), 0 is reserved

ASSUME SessionManagerAssumption == NoKey \notin Keys /\ MaxIndex \in Nat \ {0}

Indexes == 1 .. MaxIndex
NoIndex == 0

VARIABLES byIndex, byPubkey, nextIndex
managerVars == <<byIndex, byPubkey, nextIndex>>

NewSessionManager ==
  /\ byIndex = [i \in Indexes |-> NoKey]
  /\ byPubkey = [k \in Keys |-> NoIndex]
  /\ nextIndex = 1

(* The index n places after i; 0 is skipped when the counter wraps *)
IndexAfter(i, n) == ((i - 1 + n) % MaxIndex) + 1

(* mutant: the index of the peer's earlier session is left in byIndex *)
ReplaceKeepsOld(i, k) ==
  /\ byIndex' = [byIndex EXCEPT ![i] = k]
  /\ byPubkey' = [byPubkey EXCEPT ![k] = i]

(* The session (i, k) takes the place of whatever session k had *)
Replace(i, k) ==
  /\ byIndex' = [j \in Indexes |->
       IF j = i THEN k ELSE IF j = byPubkey[k] THEN NoKey ELSE byIndex[j]]
  /\ byPubkey' = [byPubkey EXCEPT ![k] = i]

(* allocateIndex tries the indexes in turn and gives up after a full round *)
CreateSession(k) ==
  IF \A i \in Indexes : byIndex[i] # NoKey THEN UNCHANGED managerVars
  ELSE \E n \in 0 .. (MaxIndex - 1) :
         /\ byIndex[IndexAfter(nextIndex, n)] = NoKey
         /\ \A m \in 0 .. (n - 1) : byIndex[IndexAfter(nextIndex, m)] # NoKey
         /\ nextIndex' = IndexAfter(nextIndex, n + 1)
         /\ Replace(IndexAfter(nextIndex, n), k)

(* ErrIndexInUse, or the session is registered *)
RegisterSession(i, k) ==
  /\ IF byIndex[i] # NoKey THEN UNCHANGED <<byIndex, byPubkey>> ELSE Replace(i, k)
  /\ UNCHANGED nextIndex

(* The sessions with these indexes leave both maps *)
Forget(is) ==
  /\ byIndex' = [j \in Indexes |-> IF j \in is THEN NoKey ELSE byIndex[j]]
  /\ byPubkey' = [k \in Keys |->
       IF \E j \in is : byIndex[j] = k THEN NoIndex ELSE byPubkey[k]]
  /\ UNCHANGED nextIndex

RemoveSession(i) == Forget({i})

RemoveByPubkey(k) == Forget({byPubkey[k]} \ {NoIndex})

(* Which sessions are expired by now is not modelled *)
ExpireSessions(is) == Forget(is)

Clear ==
  /\ byIndex' = [i \in Indexes |-> NoKey]
  /\ byPubkey' = [k \in Keys |-> NoIndex]
  /\ UNCHANGED nextIndex

ManagerNext ==
  \/ \E k \in Keys : CreateSession(k) \/ RemoveByPubkey(k)
  \/ \E i \in Indexes, k \in Keys : RegisterSession(i, k)
  \/ \E i \in Indexes : RemoveSession(i)
  \/ \E is \in SUBSET Indexes : ExpireSessions(is)
  \/ Clear

ManagerSpec == NewSessionManager /\ [][ManagerNext]_managerVars

-----------------------------------------------------------------------------
(* Both maps and the counter have their types; 0 is never handed out. *)
ManagerTypeOK ==
  /\ byIndex \in [Indexes -> Keys \cup {NoKey}]
  /\ byPubkey \in [Keys -> Indexes \cup {NoIndex}]
  /\ nextIndex \in Indexes

(* The two maps are each other's inverse, whatever mixture of created, registered,
   replaced, removed and expired sessions led there: a session found by key is found
   by its index, and no index leads to a session its peer has given up. *)
MapsInverse ==
  \A i \in Indexes, k \in Keys : byIndex[i] = k <=> byPubkey[k] = i
=============================================================================
