---------------------------- MODULE ServerProofs ----------------------------
(***************************************************************************)
(* Proofs about the server: the gear store, the peer manager on top of it, *)
(* the public login and the firmware depot, for any number of gears,       *)
(* serial numbers, requests and connections, any clock, any set of builds  *)
(* and any number of operations.                                           *)
(*                                                                         *)
(* The store: between its two transactions a write holds the lock, and its *)
(* first one left no index entry of the gear, so what the second replaces  *)
(* no entry refers to.  The manager: a connection that a refresh gave up   *)
(* was online once, and no connection comes online twice.  The login: the  *)
(* key of an assertion that bought a session is in the store until the     *)
(* assertion has expired, and an expired one buys nothing.  The depot:     *)
(* unless it is torn, every directory is at each step where the metadata   *)
(* and the progress of the operation say, so when an operation gives the   *)
(* lock back, directories and metadata agree, and what the users see is    *)
(* the metadata, which one write changes: it implements the atomic depot.  *)
(***************************************************************************)
EXTENDS PeerManager, PublicLogin, FirmwareDepot, TLAPS

Request ==
  {NoRequest} \cup
  [at : {"create", "existing", "put", "new", "set"}, key : Gears, gear : Record]

StoreTyped ==
  /\ gears \in [Gears -> Record \cup {NoGear}]
  /\ byId \in [Identifiers -> Gears \cup {NoGear}]
  /\ gearMu \in Actors \cup {NoGear}
  /\ req \in [Actors -> Request]

(* Exactly the goroutine between the checks and the last write has the lock *)
Storing(r) == req[r].at \in {"new", "set"}
StoreLock == \A r \in Actors : Storing(r) <=> gearMu = r

(* A record that was seen stays *)
SeenStays == \A r \in Actors : req[r].at = "existing" => gears[req[r].key] # NoGear

(* The second transaction of put replaces a record no index entry refers to *)
Unindexed == \A r \in Actors : req[r].at = "set" => \A s \in Identifiers : byId[s] # req[r].key

StoreInv == StoreTyped /\ StoreLock /\ SeenStays /\ Unindexed /\ StoreSound

(* A creation under way has its record still to write, or found one *)
Ensuring(l) ==
  \/ req[l].at \in {"create", "new"} /\ req[l].key = Device
  \/ req[l].at = "idle" /\ gears[Device] # NoGear

Refresh ==
  {NoRequest} \cup [at : {"active"}, gear : Record]
  \cup [at : {"client", "ask"}, gear : Record, conn : Links]

PeerTyped ==
  /\ activePeer \in [conn : Links \cup {NoLink}, client : BOOLEAN]
  /\ serve \in [Links -> {"new", "ensure", "mark", "online", "ended"}]
  /\ refresh \in [Requests -> Refresh]
  /\ lastMark \in Links \cup {NoLink}
  /\ givenUp \subseteq Links

(* A connection refers to a record from the moment it may be marked online *)
ServedHasRecord ==
  \A l \in Links :
    /\ serve[l] = "ensure" => Ensuring(l)
    /\ serve[l] # "ensure" => req[l].at = "idle"
    /\ serve[l] \in {"mark", "online"} => gears[Device] # NoGear

(* What a refresh asks or has given up was online *)
WasOnline(l) == serve[l] \in {"online", "ended"}
AskedWasOnline ==
  /\ \A l \in givenUp : WasOnline(l)
  /\ \A r \in Requests : refresh[r].at \in {"client", "ask"} => WasOnline(refresh[r].conn)
  /\ activePeer.conn = NoLink => activePeer.client = FALSE

(* A request refreshes before it stores *)
RefreshFirst == \A r \in Requests : refresh[r].at # "idle" => req[r].at = "idle"

PeersInv ==
  StoreInv /\ PeerTyped /\ ServedHasRecord /\ AskedWasOnline /\ RefreshFirst /\ LatestConnActive

(* Who stores holds the lock, and found the assertion's key absent *)
LoginLock ==
  \A l \in Logins :
    /\ login[l].at = "store" <=> loginMu = l
    /\ login[l].at # "idle" => login[l].assertion \in Assertions
    /\ login[l].at = "store" => login[l].assertion \notin usedKeys

(* An assertion that bought its session is in the store or has expired *)
Spent == \A a \in Assertions :
  \/ issued[a] = 0
  \/ issued[a] = 1 /\ (a \in usedKeys \/ Expired(exp[a]))

LoginInv == LoginTypeOK /\ LoginLock /\ Spent

-----------------------------------------------------------------------------
LEMMA GearFacts ==
  /\ NoRequest.at = "idle" /\ NoRequest \in Request
  /\ \A q \in Request : q.at # "idle" =>
       /\ q.at \in {"create", "existing", "put", "new", "set"}
       /\ q.key \in Gears /\ q.gear \in Record
<1>1. NoRequest.at = "idle" /\ NoRequest \in Request
  BY DEF NoRequest, Request
<1> QED
  BY <1>1 DEF Request

(* A step of one goroutine that leaves the store and the lock alone. *)
LEMMA CallStep ==
  ASSUME StoreInv, NEW r \in Actors, NEW q \in Request, req' = [req EXCEPT ![r] = q],
         ~Storing(r), q.at \notin {"new", "set"},
         q.at = "existing" => gears[q.key] # NoGear,
         UNCHANGED <<gears, byId, gearMu>>
  PROVE  StoreInv'
<1>1. /\ req \in [Actors -> Request] /\ gears' = gears /\ byId' = byId /\ gearMu' = gearMu
      /\ StoreTyped /\ StoreLock /\ SeenStays /\ Unindexed /\ IndexSound /\ CreateNeverReplaces
  BY DEF StoreInv, StoreTyped, StoreSound
<1>2. req'[r] = q /\ \A a \in Actors : a # r => req'[a] = req[a]
  BY <1>1
<1>3. StoreTyped'
  <2>1. req' \in [Actors -> Request]
    BY <1>1
  <2> QED
    BY <1>1, <2>1 DEF StoreTyped
<1>4. StoreLock'
  BY <1>1, <1>2 DEF StoreLock, Storing
<1>5. SeenStays' /\ Unindexed'
  BY <1>1, <1>2 DEF SeenStays, Unindexed
<1>6. IndexSound' /\ CreateNeverReplaces'
  BY <1>1, <1>2 DEF IndexSound, CreateNeverReplaces
<1> QED
  BY <1>3, <1>4, <1>5, <1>6 DEF StoreInv, StoreSound

LEMMA GotoRequest ==
  ASSUME NEW where \in {"create", "existing", "put", "new", "set"}, NEW k \in Gears, NEW g \in Record
  PROVE  /\ [at |-> where, key |-> k, gear |-> g] \in Request
         /\ [at |-> where, key |-> k, gear |-> g].at = where
         /\ [at |-> where, key |-> k, gear |-> g].key = k
BY DEF Request

LEMMA RecordFacts ==
  /\ \A g \in Record, ids \in SUBSET Identifiers : [g EXCEPT !.ids = ids] \in Record
  /\ \A g \in Record : [g EXCEPT !.status = "active", !.approved = TRUE] \in Record
  /\ \A g \in Record : [g EXCEPT !.status = "blocked"] \in Record
  /\ \A g \in Record : [g EXCEPT !.status = "unspecified", !.approved = FALSE] \in Record
  /\ \A ids \in SUBSET Identifiers : DefaultGear(ids) \in Record
<1>1. \A g \in Record, ids \in SUBSET Identifiers : [g EXCEPT !.ids = ids] \in Record
  BY DEF Record
<1>2. \A g \in Record : [g EXCEPT !.status = "active", !.approved = TRUE] \in Record
  BY DEF Record
<1>3. \A g \in Record : [g EXCEPT !.status = "blocked"] \in Record
  BY DEF Record
<1>4. \A g \in Record : [g EXCEPT !.status = "unspecified", !.approved = FALSE] \in Record
  BY DEF Record
<1>5. \A ids \in SUBSET Identifiers : DefaultGear(ids) \in Record
  BY DEF Record, DefaultGear
<1> QED
  BY <1>1, <1>2, <1>3, <1>4, <1>5

LEMMA StoreUnfold ==
  ASSUME StoreInv
  PROVE  /\ gears \in [Gears -> Record \cup {NoGear}]
         /\ byId \in [Identifiers -> Gears \cup {NoGear}]
         /\ gearMu \in Actors \cup {NoGear} /\ req \in [Actors -> Request]
         /\ StoreLock /\ SeenStays /\ Unindexed /\ IndexSound /\ CreateNeverReplaces
BY DEF StoreInv, StoreTyped, StoreSound

(* The steps that read and decide. *)
LEMMA RegisterCallStep ==
  ASSUME StoreInv, NEW r \in Actors, NEW k \in Gears, NEW ids \in SUBSET Identifiers,
         RegisterCall(r, k, ids)
  PROVE  StoreInv'
<1> DEFINE x == IF gears[k] = NoGear THEN "create" ELSE "existing"
           q == [at |-> x, key |-> k, gear |-> DefaultGear(ids)]
<1>1. req[r].at = "idle" /\ req' = [req EXCEPT ![r] = q] /\ UNCHANGED <<gears, byId, gearMu>>
  BY DEF RegisterCall, Goto
<1>2. x \in {"create", "existing"} /\ (x = "existing" => gears[k] # NoGear)
  OBVIOUS
<1>3. ~Storing(r)
  BY <1>1 DEF Storing
<1> HIDE DEF x
<1>4. q \in Request /\ q.at = x /\ q.key = k
  BY <1>2, RecordFacts, GotoRequest
<1> HIDE DEF q
<1> QED
  BY <1>1, <1>2, <1>3, <1>4, CallStep

LEMMA RegisterExistingStep ==
  ASSUME StoreInv, NEW r \in Actors, registerExistingConnectedGear(r)
  PROVE  StoreInv'
<1> DEFINE k == req[r].key
           g == [gears[k] EXCEPT !.ids = req[r].gear.ids]
           q == [at |-> "put", key |-> k, gear |-> g]
<1>1. /\ req[r].at = "existing" /\ UNCHANGED <<gears, byId, gearMu>>
      /\ req' = [req EXCEPT ![r] = NoRequest] \/ req' = [req EXCEPT ![r] = q]
  BY DEF registerExistingConnectedGear, Goto, Finish
<1>2. ~Storing(r)
  BY <1>1 DEF Storing
<1>3. /\ req[r] \in Request /\ k \in Gears /\ req[r].gear \in Record /\ gears[k] \in Record
  BY <1>1, StoreUnfold, GearFacts DEF SeenStays
<1>4. req[r].gear.ids \in SUBSET Identifiers
  BY <1>3 DEF Record
<1>5. g \in Record
  BY <1>3, <1>4, RecordFacts
<1> HIDE DEF g, k
<1>6. q \in Request /\ q.at = "put"
  BY <1>3, <1>5, GotoRequest
<1> HIDE DEF q
<1>7. CASE req' = [req EXCEPT ![r] = NoRequest]
  BY <1>1, <1>2, <1>7, GearFacts, CallStep
<1>8. CASE req' = [req EXCEPT ![r] = q]
  BY <1>1, <1>2, <1>6, <1>8, CallStep
<1> QED
  BY <1>1, <1>7, <1>8

LEMMA EnsureConnectedGearStep ==
  ASSUME StoreInv, NEW r \in Actors, NEW k \in Gears, EnsureConnectedGear(r, k)
  PROVE  StoreInv'
<1> DEFINE q == [at |-> "create", key |-> k, gear |-> DefaultGear({})]
<1>1. req[r].at = "idle" /\ req' = [req EXCEPT ![r] = q] /\ UNCHANGED <<gears, byId, gearMu>>
  BY DEF EnsureConnectedGear, Goto
<1>2. ~Storing(r)
  BY <1>1 DEF Storing
<1>3. q \in Request /\ q.at = "create"
  BY RecordFacts, GotoRequest
<1> HIDE DEF q
<1> QED
  BY <1>1, <1>2, <1>3, CallStep

LEMMA ChangeStep ==
  ASSUME StoreInv, NEW r \in Actors, NEW k \in Gears, NEW g \in Record,
         req[r].at \notin {"new", "set"}, Goto(r, "put", k, g), UNCHANGED <<gears, byId, gearMu>>
  PROVE  StoreInv'
<1> DEFINE q == [at |-> "put", key |-> k, gear |-> g]
<1>1. req' = [req EXCEPT ![r] = q] /\ ~Storing(r)
  BY DEF Goto, Storing
<1>2. q \in Request /\ q.at = "put"
  BY GotoRequest
<1> HIDE DEF q
<1> QED
  BY <1>1, <1>2, CallStep

(* The steps under the lock. *)
LEMMA CreateStep ==
  ASSUME StoreInv, NEW r \in Actors, create(r)
  PROVE  StoreInv'
<1>1. /\ req[r].at = "create" /\ gearMu = NoGear /\ gears' = gears /\ byId' = byId
      /\ \/ req' = [req EXCEPT ![r] = NoRequest] /\ gearMu' = gearMu
         \/ /\ gears[req[r].key] = NoGear /\ gearMu' = r
            /\ req' = [req EXCEPT ![r].at = "new"]
  BY DEF create, Finish
<1>2. CASE req' = [req EXCEPT ![r] = NoRequest] /\ gearMu' = gearMu
  <2>1. ~Storing(r)
    BY <1>1 DEF Storing
  <2> QED
    BY <1>1, <1>2, <2>1, GearFacts, CallStep
<1>3. CASE /\ gears[req[r].key] = NoGear /\ gearMu' = r
           /\ req' = [req EXCEPT ![r].at = "new"]
  <2>1. /\ gears \in [Gears -> Record \cup {NoGear}]
        /\ byId \in [Identifiers -> Gears \cup {NoGear}] /\ req \in [Actors -> Request]
        /\ StoreLock /\ SeenStays /\ Unindexed /\ IndexSound /\ CreateNeverReplaces
    BY StoreUnfold
  <2> DEFINE q == [req[r] EXCEPT !.at = "new"]
  <2>2. req' = [req EXCEPT ![r] = q]
    BY <1>3, <2>1
  <2>3. req[r] \in [at : {"create", "existing", "put", "new", "set"}, key : Gears, gear : Record]
    BY <1>1, <2>1 DEF Request, NoRequest
  <2>4. q \in Request /\ q.at = "new" /\ q.key = req[r].key
    BY <2>3 DEF Request
  <2> HIDE DEF q
  <2>5. req'[r] = q /\ \A a \in Actors : a # r => req'[a] = req[a]
    BY <2>1, <2>2
  <2>6. StoreTyped'
    <3>1. req' \in [Actors -> Request]
      BY <2>1, <2>2, <2>4
    <3> QED
      BY <1>1, <1>3, <2>1, <3>1 DEF StoreTyped
  <2>7. \A a \in Actors : ~Storing(a)
    BY <1>1, <2>1, GearStoreAssumption DEF StoreLock, Actors
  <2>8. StoreLock'
    BY <1>3, <2>4, <2>5, <2>7 DEF StoreLock, Storing
  <2>9. SeenStays' /\ Unindexed'
    BY <1>1, <2>1, <2>4, <2>5 DEF SeenStays, Unindexed
  <2>10. IndexSound'
    BY <1>1, <2>1 DEF IndexSound
  <2>11. CreateNeverReplaces'
    BY <1>1, <1>3, <2>1, <2>4, <2>5 DEF CreateNeverReplaces
  <2> QED
    BY <2>6, <2>8, <2>9, <2>10, <2>11 DEF StoreInv, StoreSound
<1> QED
  BY <1>1, <1>2, <1>3

LEMMA PutStep ==
  ASSUME StoreInv, NEW r \in Actors, put(r)
  PROVE  StoreInv'
<1> DEFINE k == req[r].key
           old == gears[k]
           q == [req[r] EXCEPT !.at = "set"]
<1>1. /\ req[r].at = "put" /\ gearMu = NoGear /\ gears' = gears /\ gearMu' = r
      /\ byId' = [s \in Identifiers |-> IF old # NoGear /\ s \in old.ids THEN NoGear ELSE byId[s]]
      /\ req' = [req EXCEPT ![r].at = "set"]
  BY DEF put
<1>2. /\ gears \in [Gears -> Record \cup {NoGear}]
      /\ byId \in [Identifiers -> Gears \cup {NoGear}] /\ req \in [Actors -> Request]
      /\ StoreLock /\ SeenStays /\ Unindexed /\ IndexSound /\ CreateNeverReplaces
  BY StoreUnfold
<1>3. req[r] \in [at : {"create", "existing", "put", "new", "set"}, key : Gears, gear : Record]
  BY <1>1, <1>2 DEF Request, NoRequest
<1>4. req' = [req EXCEPT ![r] = q]
  BY <1>1, <1>2
<1>5. q \in Request /\ q.at = "set" /\ q.key = k /\ k \in Gears
  BY <1>3 DEF Request
<1> HIDE DEF q
<1>6. req'[r] = q /\ \A a \in Actors : a # r => req'[a] = req[a]
  BY <1>2, <1>4
<1>7. /\ byId' \in [Identifiers -> Gears \cup {NoGear}]
      /\ \A s \in Identifiers : byId'[s] # NoGear => byId'[s] = byId[s]
      /\ \A s \in Identifiers : old # NoGear /\ s \in old.ids => byId'[s] = NoGear
  BY <1>1, <1>2
<1>8. StoreTyped'
  <2>1. req' \in [Actors -> Request]
    BY <1>2, <1>4, <1>5
  <2> QED
    BY <1>1, <1>2, <1>7, <2>1 DEF StoreTyped
<1>9. \A a \in Actors : ~Storing(a)
  BY <1>1, <1>2, GearStoreAssumption DEF StoreLock, Actors
<1>10. StoreLock'
  BY <1>1, <1>5, <1>6, <1>9 DEF StoreLock, Storing
<1>11. SeenStays'
  BY <1>1, <1>2, <1>5, <1>6 DEF SeenStays
<1>12. Unindexed'
  <2>1. \A s \in Identifiers : byId'[s] # k
    BY <1>2, <1>5, <1>7, GearStoreAssumption DEF IndexSound
  <2>2. \A a \in Actors : a # r => req'[a].at # "set"
    BY <1>6, <1>9 DEF Storing
  <2> QED
    BY <1>5, <1>6, <2>1, <2>2 DEF Unindexed
<1>13. IndexSound'
  BY <1>1, <1>2, <1>7 DEF IndexSound
<1>14. CreateNeverReplaces'
  BY <1>1, <1>2, <1>5, <1>6 DEF CreateNeverReplaces
<1> QED
  BY <1>8, <1>10, <1>11, <1>12, <1>13, <1>14 DEF StoreInv, StoreSound

LEMMA WriteGearStep ==
  ASSUME StoreInv, NEW r \in Actors, writeGear(r)
  PROVE  StoreInv'
<1> DEFINE k == req[r].key
           g == req[r].gear
<1>1. /\ req[r].at \in {"new", "set"} /\ gearMu' = NoGear
      /\ gears' = [gears EXCEPT ![k] = g]
      /\ byId' = [s \in Identifiers |-> IF s \in g.ids THEN k ELSE byId[s]]
      /\ req' = [req EXCEPT ![r] = NoRequest]
  BY DEF writeGear, Finish
<1>2. /\ gears \in [Gears -> Record \cup {NoGear}]
      /\ byId \in [Identifiers -> Gears \cup {NoGear}] /\ req \in [Actors -> Request]
      /\ StoreLock /\ SeenStays /\ Unindexed /\ IndexSound /\ CreateNeverReplaces
  BY StoreUnfold
<1>3. k \in Gears /\ g \in Record /\ g # NoGear
  BY <1>1, <1>2, GearFacts, NilRecordAssumption
<1>4. req'[r] = NoRequest /\ \A a \in Actors : a # r => req'[a] = req[a]
  BY <1>1, <1>2
<1>5. \A a \in Actors : a # r => ~Storing(a)
  BY <1>1, <1>2 DEF StoreLock, Storing
<1>6. \A s \in Identifiers : byId[s] # k
  BY <1>1, <1>2 , <1>3, GearStoreAssumption DEF Unindexed, CreateNeverReplaces, IndexSound
<1>7. /\ gears' \in [Gears -> Record \cup {NoGear}] /\ gears'[k] = g
      /\ \A h \in Gears : h # k => gears'[h] = gears[h]
  <2> HIDE DEF k, g
  <2> QED
    BY <1>1, <1>2, <1>3
<1>8. /\ byId' \in [Identifiers -> Gears \cup {NoGear}]
      /\ \A s \in Identifiers : s \in g.ids => byId'[s] = k
      /\ \A s \in Identifiers : s \notin g.ids => byId'[s] = byId[s]
  <2> HIDE DEF k, g
  <2> QED
    BY <1>1, <1>2, <1>3
<1>9. StoreTyped'
  <2>1. req' \in [Actors -> Request]
    BY <1>1, <1>2, GearFacts
  <2> QED
    BY <1>1, <1>7, <1>8, <2>1 DEF StoreTyped
<1>10. StoreLock'
  BY <1>1, <1>4, <1>5, GearFacts, GearStoreAssumption DEF StoreLock, Storing, Actors
<1>11. SeenStays'
  <2>1. \A a \in Actors : req'[a].at = "existing" => a # r /\ req'[a].key \in Gears
    BY <1>2, <1>4, GearFacts
  <2> QED
    BY <1>2, <1>3, <1>4, <1>7, <2>1 DEF SeenStays
<1>12. Unindexed' /\ CreateNeverReplaces'
  BY <1>4, <1>5, GearFacts DEF Unindexed, CreateNeverReplaces, Storing
<1>13. IndexSound'
  <2> SUFFICES ASSUME NEW s \in Identifiers, byId'[s] # NoGear
               PROVE  gears'[byId'[s]] # NoGear /\ s \in gears'[byId'[s]].ids
    BY DEF IndexSound
  <2>1. CASE s \in g.ids
    BY <1>3, <1>7, <1>8, <2>1
  <2>2. CASE s \notin g.ids
    <3>1. byId'[s] = byId[s] /\ byId[s] \in Gears /\ byId[s] # k
      BY <1>2, <1>6, <1>8, <2>2
    <3> QED
      BY <1>2, <1>7, <3>1 DEF IndexSound
  <2> QED
    BY <2>1, <2>2
<1> QED
  BY <1>9, <1>10, <1>11, <1>12, <1>13 DEF StoreInv, StoreSound

LEMMA StoreFailsStep ==
  ASSUME StoreInv, NEW r \in Actors, StoreFails(r)
  PROVE  StoreInv'
<1>1. /\ gearMu = NoGear \/ req[r].at \in {"new", "set"}
      /\ gearMu' = NoGear /\ req' = [req EXCEPT ![r] = NoRequest]
      /\ gears' = gears /\ byId' = byId
  BY DEF StoreFails, Finish
<1>2. /\ gears \in [Gears -> Record \cup {NoGear}]
      /\ byId \in [Identifiers -> Gears \cup {NoGear}] /\ req \in [Actors -> Request]
      /\ StoreLock /\ SeenStays /\ Unindexed /\ IndexSound /\ CreateNeverReplaces
  BY StoreUnfold
<1>3. req'[r] = NoRequest /\ \A a \in Actors : a # r => req'[a] = req[a]
  BY <1>1, <1>2
<1>4. \A a \in Actors : a # r => ~Storing(a)
  BY <1>1, <1>2, GearStoreAssumption DEF StoreLock, Storing, Actors
<1>5. StoreTyped'
  <2>1. req' \in [Actors -> Request]
    BY <1>1, <1>2, GearFacts
  <2> QED
    BY <1>1, <1>2, <2>1 DEF StoreTyped
<1>6. StoreLock'
  BY <1>1, <1>3, <1>4, GearFacts, GearStoreAssumption DEF StoreLock, Storing, Actors
<1>7. SeenStays' /\ Unindexed'
  BY <1>1, <1>2, <1>3, GearFacts DEF SeenStays, Unindexed
<1>8. IndexSound' /\ CreateNeverReplaces'
  BY <1>1, <1>2, <1>3, GearFacts DEF IndexSound, CreateNeverReplaces
<1> QED
  BY <1>5, <1>6, <1>7, <1>8 DEF StoreInv, StoreSound

LEMMA StoreCrashStep ==
  ASSUME StoreInv, StoreCrash
  PROVE  StoreInv'
<1>1. /\ gearMu' = NoGear /\ req' = [r \in Actors |-> NoRequest]
      /\ gears' = gears /\ byId' = byId
  BY DEF StoreCrash
<1>2. /\ gears \in [Gears -> Record \cup {NoGear}]
      /\ byId \in [Identifiers -> Gears \cup {NoGear}] /\ IndexSound
  BY StoreUnfold
<1>3. \A a \in Actors : req'[a].at = "idle"
  BY <1>1, GearFacts
<1>4. StoreTyped'
  BY <1>1, <1>2, GearFacts DEF StoreTyped
<1>5. StoreLock'
  BY <1>1, <1>3, GearStoreAssumption DEF StoreLock, Storing, Actors
<1>6. SeenStays' /\ Unindexed' /\ CreateNeverReplaces'
  BY <1>3 DEF SeenStays, Unindexed, CreateNeverReplaces
<1>7. IndexSound'
  BY <1>1, <1>2 DEF IndexSound
<1> QED
  BY <1>4, <1>5, <1>6, <1>7 DEF StoreInv, StoreSound

LEMMA StoreStart == GearStoreInit => StoreInv
<1> SUFFICES ASSUME GearStoreInit PROVE StoreInv
  OBVIOUS
<1>1. /\ gears = [k \in Gears |-> NoGear] /\ byId = [s \in Identifiers |-> NoGear]
      /\ gearMu = NoGear /\ req = [r \in Actors |-> NoRequest]
  BY DEF GearStoreInit
<1>2. \A a \in Actors : req[a].at = "idle"
  BY <1>1, GearFacts
<1>3. StoreTyped
  BY <1>1, GearFacts DEF StoreTyped
<1>4. StoreLock
  BY <1>1, <1>2, GearStoreAssumption DEF StoreLock, Storing, Actors
<1>5. SeenStays /\ Unindexed /\ StoreSound
  BY <1>1, <1>2 DEF SeenStays, Unindexed, StoreSound, IndexSound, CreateNeverReplaces
<1> QED
  BY <1>3, <1>4, <1>5 DEF StoreInv

LEMMA StoreStutter == StoreInv /\ UNCHANGED storeVars => StoreInv'
<1> SUFFICES ASSUME StoreInv, UNCHANGED storeVars PROVE StoreInv'
  OBVIOUS
<1>1. gears' = gears /\ byId' = byId /\ gearMu' = gearMu /\ req' = req
  BY DEF storeVars
<1>2. StoreTyped' /\ StoreLock' /\ SeenStays' /\ Unindexed'
  BY <1>1 DEF StoreInv, StoreTyped, StoreLock, Storing, SeenStays, Unindexed
<1>3. StoreSound'
  BY <1>1 DEF StoreInv, StoreSound, IndexSound, CreateNeverReplaces
<1> QED
  BY <1>2, <1>3 DEF StoreInv

LEMMA GearStepKeeps ==
  ASSUME StoreInv, NEW r \in Actors, GearStep(r)
  PROVE  StoreInv'
<1>1. \A k \in Gears : gears[k] # NoGear => gears[k] \in Record
  BY StoreUnfold
<1>2. ASSUME NEW k \in Gears, NEW g, gears[k] \in Record => g \in Record, Change(r, k, g)
      PROVE  StoreInv'
  <2>1. g \in Record /\ Goto(r, "put", k, g) /\ UNCHANGED <<gears, byId, gearMu>>
        /\ req[r].at \notin {"new", "set"}
    BY <1>1, <1>2 DEF Change
  <2> QED
    BY <2>1, ChangeStep
<1>3. ASSUME NEW k \in Gears, NEW ids \in SUBSET Identifiers, putInfo(r, k, ids)
      PROVE  StoreInv'
  <2>1. gears[k] \in Record => [gears[k] EXCEPT !.ids = ids] \in Record
    BY RecordFacts
  <2> QED
    BY <1>2, <1>3, <2>1 DEF putInfo
<1>4. ASSUME NEW k \in Gears, putConfig(r, k) \/ approve(r, k) \/ block(r, k) \/ delete(r, k)
      PROVE  StoreInv'
  <2>1. CASE putConfig(r, k)
    BY <1>2, <2>1 DEF putConfig
  <2>2. CASE approve(r, k)
    BY <1>2, <2>2, RecordFacts DEF approve
  <2>3. CASE block(r, k)
    BY <1>2, <2>3, RecordFacts DEF block
  <2>4. CASE delete(r, k)
    BY <1>2, <2>4, RecordFacts DEF delete
  <2> QED
    BY <1>4, <2>1, <2>2, <2>3, <2>4
<1> QED
  BY <1>3, <1>4, RegisterExistingStep, CreateStep, PutStep, WriteGearStep, StoreFailsStep,
     EnsureConnectedGearStep, RegisterCallStep DEF GearStep

(* ResolveBySN never leads to a gear without the serial number, and no     *)
(* creation replaces a record, through failed transactions and crashes at  *)
(* any step (put, create and writeGearLocked of gizclaw/gear).             *)
THEOREM StoreStaysSound == GearStoreSpec => []StoreSound
<1>1. StoreInv /\ [GearStoreNext]_storeVars => StoreInv'
  <2> SUFFICES ASSUME StoreInv, [GearStoreNext]_storeVars PROVE StoreInv'
    OBVIOUS
  <2>1. ASSUME NEW r \in Requests, GearStep(r) PROVE StoreInv'
    BY <2>1, GearStepKeeps DEF Actors
  <2> QED
    BY <2>1, StoreCrashStep, StoreStutter DEF GearStoreNext
<1>2. StoreInv => StoreSound
  BY DEF StoreInv
<1> QED
  BY <1>1, <1>2, StoreStart, PTL DEF GearStoreSpec

-----------------------------------------------------------------------------
LEMMA PeerUnfold ==
  ASSUME PeersInv
  PROVE  /\ StoreInv /\ ServedHasRecord /\ AskedWasOnline /\ RefreshFirst /\ LatestConnActive
         /\ activePeer \in [conn : Links \cup {NoLink}, client : BOOLEAN]
         /\ serve \in [Links -> {"new", "ensure", "mark", "online", "ended"}]
         /\ refresh \in [Requests -> Refresh] /\ lastMark \in Links \cup {NoLink}
         /\ givenUp \subseteq Links /\ gears \in [Gears -> Record \cup {NoGear}]
         /\ req \in [Actors -> Request]
BY StoreUnfold DEF PeersInv, PeerTyped

LEMMA RefreshFacts ==
  /\ NoRequest \in Refresh
  /\ \A f \in Refresh : f.at # "idle" => f.gear \in Record
  /\ \A f \in Refresh : f.at \in {"client", "ask"} => f.conn \in Links
  /\ \A g \in Record : /\ [at |-> "active", gear |-> g] \in Refresh
                       /\ \A c \in Links : [at |-> "client", gear |-> g, conn |-> c] \in Refresh
  /\ \A f \in Refresh : f.at = "client" => /\ [f EXCEPT !.at = "ask"] \in Refresh
                                          /\ [f EXCEPT !.at = "ask"].conn = f.conn
                                          /\ [f EXCEPT !.at = "ask"].at = "ask"
<1>1. \A f \in Refresh : f.at # "idle" => f.gear \in Record
  BY DEF Refresh, NoRequest
<1>2. \A f \in Refresh : f.at \in {"client", "ask"} =>
        f \in [at : {"client", "ask"}, gear : Record, conn : Links]
  BY DEF Refresh, NoRequest
<1>3. NoRequest \in Refresh
  BY DEF Refresh
<1>4. \A g \in Record : /\ [at |-> "active", gear |-> g] \in Refresh
                        /\ \A c \in Links : [at |-> "client", gear |-> g, conn |-> c] \in Refresh
  BY DEF Refresh
<1>5. ASSUME NEW f \in [at : {"client", "ask"}, gear : Record, conn : Links]
      PROVE  /\ [f EXCEPT !.at = "ask"] \in [at : {"client", "ask"}, gear : Record, conn : Links]
             /\ [f EXCEPT !.at = "ask"].conn = f.conn /\ [f EXCEPT !.at = "ask"].at = "ask"
  BY <1>5
<1>6. \A f \in Refresh : f.at = "client" =>
         /\ [f EXCEPT !.at = "ask"] \in Refresh
         /\ [f EXCEPT !.at = "ask"].conn = f.conn /\ [f EXCEPT !.at = "ask"].at = "ask"
  BY <1>2, <1>5 DEF Refresh
<1> QED
  BY <1>1, <1>2, <1>3, <1>4, <1>6

(* Storing a record takes none away and is a step of one goroutine. *)
LEMMA StoringMoves ==
  ASSUME StoreInv, NEW a \in Actors, create(a) \/ put(a) \/ writeGear(a) \/ StoreFails(a)
  PROVE  /\ StoreInv'
         /\ \A k \in Gears : gears[k] # NoGear => gears'[k] # NoGear
         /\ \A b \in Actors : b # a => req'[b] = req[b]
         /\ req[a].at # "idle"
         /\ req[a].at \in {"create", "new"} /\ ~StoreFails(a) =>
              \/ req'[a].at = "new" /\ req'[a].key = req[a].key
              \/ req'[a].at = "idle" /\ gears'[req[a].key] # NoGear
<1>1. /\ gears \in [Gears -> Record \cup {NoGear}] /\ req \in [Actors -> Request]
  BY StoreUnfold
<1>2. StoreInv'
  BY CreateStep, PutStep, WriteGearStep, StoreFailsStep
<1>3. req[a].at # "idle"
  BY DEF create, put, writeGear, StoreFails
<1>4. /\ req[a].key \in Gears /\ req[a].gear \in Record /\ req[a].gear # NoGear
      /\ req[a] \in [at : {"create", "existing", "put", "new", "set"}, key : Gears, gear : Record]
  BY <1>1, <1>3, GearFacts, NilRecordAssumption DEF Request, NoRequest
<1>5. \A b \in Actors : b # a => req'[b] = req[b]
  BY <1>1 DEF create, put, writeGear, StoreFails, Finish
<1>6. gears' = gears \/ gears' = [gears EXCEPT ![req[a].key] = req[a].gear]
  BY DEF create, put, writeGear, StoreFails
<1>7. \A k \in Gears : gears[k] # NoGear => gears'[k] # NoGear
  BY <1>1, <1>4, <1>6
<1>8. ASSUME req[a].at \in {"create", "new"}, ~StoreFails(a)
      PROVE  \/ req'[a].at = "new" /\ req'[a].key = req[a].key
             \/ req'[a].at = "idle" /\ gears'[req[a].key] # NoGear
  <2>1. CASE create(a)
    <3>1. gears' = gears
      BY <2>1 DEF create
    <3>2. CASE gears[req[a].key] # NoGear
      BY <1>1, <2>1, <3>1, <3>2, GearFacts DEF create, Finish
    <3>3. CASE gears[req[a].key] = NoGear
      <4>1. req' = [req EXCEPT ![a].at = "new"]
        BY <2>1, <3>3 DEF create
      <4>2. req'[a] = [req[a] EXCEPT !.at = "new"]
        BY <1>1, <4>1
      <4> QED
        BY <1>4, <4>2
    <3> QED
      BY <3>2, <3>3
  <2>2. CASE writeGear(a)
    <3>1. gears' = [gears EXCEPT ![req[a].key] = req[a].gear] /\ req' = [req EXCEPT ![a] = NoRequest]
      BY <2>2 DEF writeGear, Finish
    <3> QED
      BY <1>1, <1>4, <3>1, GearFacts
  <2>3. ~put(a)
    BY <1>8 DEF put
  <2> QED
    BY <1>8, <2>1, <2>2, <2>3
<1> QED
  BY <1>2, <1>3, <1>5, <1>7, <1>8

(* A step that only moves one connection between two of its places. *)
LEMMA ServeConnStep ==
  ASSUME PeersInv, NEW l \in Links, ServeConn(l)
  PROVE  PeersInv'
<1>1. serve[l] = "new" /\ UNCHANGED <<activePeer, refresh, lastMark, givenUp>>
  BY DEF ServeConn
<1>2. /\ StoreInv /\ ServedHasRecord /\ AskedWasOnline /\ RefreshFirst /\ LatestConnActive
      /\ activePeer \in [conn : Links \cup {NoLink}, client : BOOLEAN]
      /\ serve \in [Links -> {"new", "ensure", "mark", "online", "ended"}]
      /\ refresh \in [Requests -> Refresh] /\ lastMark \in Links \cup {NoLink}
      /\ givenUp \subseteq Links /\ req \in [Actors -> Request]
  BY PeerUnfold
<1>3. PICK x \in {"mark", "ensure"} : serve' = [serve EXCEPT ![l] = x]
  BY DEF ServeConn
<1>4. serve'[l] = x /\ \A m \in Links : m # l => serve'[m] = serve[m]
  BY <1>2, <1>3
<1>5. gears' = gears
  BY DEF ServeConn, EnsureConnectedGear, storeVars
<1>6. l \in Actors /\ Device \in Gears /\ l \notin Requests
  BY PeerManagerAssumption, GearStoreAssumption DEF Actors
<1>7. StoreInv'
  BY <1>2, <1>6, StoreStutter, EnsureConnectedGearStep DEF ServeConn
<1>8. /\ \A a \in Actors : a # l => req'[a] = req[a]
      /\ x = "mark" => req'[l] = req[l] /\ gears[Device] # NoGear
      /\ x = "ensure" => req'[l].at = "create" /\ req'[l].key = Device
  <2>1. CASE gears[Device] # NoGear
    <3>1. serve' = [serve EXCEPT ![l] = "mark"] /\ req' = req
      BY <2>1 DEF ServeConn, storeVars
    <3>2. x = "mark"
      BY <1>2, <1>4, <3>1
    <3> QED
      BY <2>1, <3>1, <3>2
  <2>2. CASE gears[Device] = NoGear
    <3>1. serve' = [serve EXCEPT ![l] = "ensure"] /\ EnsureConnectedGear(l, Device)
      BY <2>2 DEF ServeConn
    <3>2. x = "ensure"
      BY <1>2, <1>4, <3>1
    <3>3. req' = [req EXCEPT ![l] = [at |-> "create", key |-> Device, gear |-> DefaultGear({})]]
      BY <3>1 DEF EnsureConnectedGear, Goto
    <3> QED
      BY <1>2, <1>6, <3>2, <3>3
  <2> QED
    BY <2>1, <2>2
<1>9. PeerTyped'
  BY <1>1, <1>2, <1>3 DEF PeerTyped
<1>10. ServedHasRecord'
  <2> SUFFICES ASSUME NEW m \in Links
               PROVE  /\ serve'[m] = "ensure" => Ensuring(m)'
                      /\ serve'[m] # "ensure" => req'[m].at = "idle"
                      /\ serve'[m] \in {"mark", "online"} => gears'[Device] # NoGear
    BY DEF ServedHasRecord
  <2>1. CASE m = l
    BY <1>1, <1>2, <1>4, <1>5, <1>8, <2>1 DEF ServedHasRecord, Ensuring
  <2>2. CASE m # l
    <3>1. m \in Actors /\ req'[m] = req[m] /\ serve'[m] = serve[m]
      BY <1>4, <1>8, <2>2 DEF Actors
    <3> QED
      BY <1>2, <1>5, <3>1 DEF ServedHasRecord, Ensuring
  <2> QED
    BY <2>1, <2>2
<1>11. AskedWasOnline'
  BY <1>1, <1>2, <1>4, RefreshFacts DEF AskedWasOnline, WasOnline
<1>12. RefreshFirst'
  BY <1>1, <1>2, <1>6, <1>8 DEF RefreshFirst, Actors
<1>13. LatestConnActive'
  BY <1>1, <1>2, <1>3, <1>4 DEF LatestConnActive
<1> QED
  BY <1>7, <1>9, <1>10, <1>11, <1>12, <1>13 DEF PeersInv

LEMMA EnsurePeerGearStep ==
  ASSUME PeersInv, NEW l \in Links, EnsurePeerGear(l)
  PROVE  PeersInv'
<1>1. /\ serve[l] = "ensure" /\ req[l].at = "idle" /\ serve' = [serve EXCEPT ![l] = "mark"]
      /\ UNCHANGED <<storeVars, activePeer, refresh, lastMark, givenUp>>
      /\ gears' = gears /\ req' = req
  BY DEF EnsurePeerGear, storeVars
<1>2. /\ StoreInv /\ ServedHasRecord /\ AskedWasOnline /\ RefreshFirst /\ LatestConnActive
      /\ activePeer \in [conn : Links \cup {NoLink}, client : BOOLEAN]
      /\ serve \in [Links -> {"new", "ensure", "mark", "online", "ended"}]
      /\ refresh \in [Requests -> Refresh] /\ lastMark \in Links \cup {NoLink}
      /\ givenUp \subseteq Links
  BY PeerUnfold
<1>3. serve'[l] = "mark" /\ \A m \in Links : m # l => serve'[m] = serve[m]
  BY <1>1, <1>2
<1>4. StoreInv' /\ PeerTyped'
  BY <1>1, <1>2, StoreStutter DEF PeerTyped
<1>5. ServedHasRecord'
  BY <1>1, <1>2, <1>3 DEF ServedHasRecord, Ensuring
<1>6. AskedWasOnline' /\ RefreshFirst'
  BY <1>1, <1>2, <1>3, RefreshFacts DEF AskedWasOnline, WasOnline, RefreshFirst
<1>7. LatestConnActive'
  BY <1>1, <1>2, <1>3 DEF LatestConnActive
<1> QED
  BY <1>4, <1>5, <1>6, <1>7 DEF PeersInv

LEMMA EnsureFailsStep ==
  ASSUME PeersInv, NEW l \in Links, EnsureFails(l)
  PROVE  PeersInv'
<1>1. /\ serve[l] = "ensure" /\ StoreFails(l) /\ serve' = [serve EXCEPT ![l] = "ended"]
      /\ UNCHANGED <<activePeer, refresh, lastMark, givenUp>>
  BY DEF EnsureFails
<1>2. /\ StoreInv /\ ServedHasRecord /\ AskedWasOnline /\ RefreshFirst /\ LatestConnActive
      /\ activePeer \in [conn : Links \cup {NoLink}, client : BOOLEAN]
      /\ serve \in [Links -> {"new", "ensure", "mark", "online", "ended"}]
      /\ refresh \in [Requests -> Refresh] /\ lastMark \in Links \cup {NoLink}
      /\ givenUp \subseteq Links /\ req \in [Actors -> Request]
  BY PeerUnfold
<1>3. l \in Actors /\ l \notin Requests
  BY GearStoreAssumption DEF Actors
<1>4. /\ StoreInv' /\ gears' = gears /\ req'[l].at = "idle"
      /\ \A a \in Actors : a # l => req'[a] = req[a]
  BY <1>1, <1>2, <1>3, StoreFailsStep, GearFacts DEF StoreFails, Finish
<1>5. serve'[l] = "ended" /\ \A m \in Links : m # l => serve'[m] = serve[m]
  BY <1>1, <1>2
<1>6. PeerTyped'
  BY <1>1, <1>2 DEF PeerTyped
<1>7. ServedHasRecord'
  BY <1>2, <1>4, <1>5 DEF ServedHasRecord, Ensuring, Actors
<1>8. AskedWasOnline'
  BY <1>1, <1>2, <1>5, RefreshFacts DEF AskedWasOnline, WasOnline
<1>9. RefreshFirst'
  BY <1>1, <1>2, <1>3, <1>4 DEF RefreshFirst, Actors
<1>10. LatestConnActive'
  BY <1>1, <1>2, <1>5 DEF LatestConnActive
<1> QED
  BY <1>4, <1>6, <1>7, <1>8, <1>9, <1>10 DEF PeersInv

(* A connection that comes online was never given up. *)
LEMMA MarkPeerOnlineStep ==
  ASSUME PeersInv, NEW l \in Links, MarkPeerOnline(l)
  PROVE  PeersInv'
<1>1. /\ serve[l] = "mark" /\ serve' = [serve EXCEPT ![l] = "online"]
      /\ activePeer' = [conn |-> l, client |-> FALSE] /\ lastMark' = l
      /\ UNCHANGED <<storeVars, refresh, givenUp>> /\ gears' = gears /\ req' = req
  BY DEF MarkPeerOnline, storeVars
<1>2. /\ StoreInv /\ ServedHasRecord /\ AskedWasOnline /\ RefreshFirst /\ LatestConnActive
      /\ serve \in [Links -> {"new", "ensure", "mark", "online", "ended"}]
      /\ refresh \in [Requests -> Refresh] /\ givenUp \subseteq Links
  BY PeerUnfold
<1>3. serve'[l] = "online" /\ \A m \in Links : m # l => serve'[m] = serve[m]
  BY <1>1, <1>2
<1>4. l \notin givenUp /\ l # NoLink
  BY <1>1, <1>2, PeerManagerAssumption DEF AskedWasOnline, WasOnline
<1>5. StoreInv' /\ PeerTyped'
  BY <1>1, <1>2, StoreStutter DEF PeerTyped
<1>6. ServedHasRecord'
  BY <1>1, <1>2, <1>3 DEF ServedHasRecord, Ensuring
<1>7. AskedWasOnline' /\ RefreshFirst'
  BY <1>1, <1>2, <1>3, RefreshFacts DEF AskedWasOnline, WasOnline, RefreshFirst
<1>8. LatestConnActive'
  BY <1>1, <1>3, <1>4 DEF LatestConnActive
<1> QED
  BY <1>5, <1>6, <1>7, <1>8 DEF PeersInv

LEMMA ServeEndsStep ==
  ASSUME PeersInv, NEW l \in Links, ServeEnds(l)
  PROVE  PeersInv'
<1>1. /\ serve[l] = "online" /\ serve' = [serve EXCEPT ![l] = "ended"]
      /\ activePeer' = IF activePeer.conn = l THEN Offline ELSE activePeer
      /\ UNCHANGED <<storeVars, refresh, lastMark, givenUp>> /\ gears' = gears /\ req' = req
  BY DEF ServeEnds, MarkPeerOffline, storeVars
<1>2. /\ StoreInv /\ ServedHasRecord /\ AskedWasOnline /\ RefreshFirst /\ LatestConnActive
      /\ activePeer \in [conn : Links \cup {NoLink}, client : BOOLEAN]
      /\ serve \in [Links -> {"new", "ensure", "mark", "online", "ended"}]
      /\ refresh \in [Requests -> Refresh] /\ lastMark \in Links \cup {NoLink}
      /\ givenUp \subseteq Links
  BY PeerUnfold
<1>3. serve'[l] = "ended" /\ \A m \in Links : m # l => serve'[m] = serve[m]
  BY <1>1, <1>2
<1>4. Offline.conn = NoLink /\ Offline.client = FALSE /\ l # NoLink
      /\ Offline \in [conn : Links \cup {NoLink}, client : BOOLEAN]
  BY PeerManagerAssumption DEF Offline
<1>5. StoreInv' /\ PeerTyped'
  BY <1>1, <1>2, <1>4, StoreStutter DEF PeerTyped
<1>6. ServedHasRecord'
  BY <1>1, <1>2, <1>3 DEF ServedHasRecord, Ensuring
<1>7. AskedWasOnline' /\ RefreshFirst'
  BY <1>1, <1>2, <1>3, <1>4, RefreshFacts DEF AskedWasOnline, WasOnline, RefreshFirst
<1>8. LatestConnActive'
  BY <1>1, <1>2, <1>3, <1>4 DEF LatestConnActive
<1> QED
  BY <1>5, <1>6, <1>7, <1>8 DEF PeersInv

(* A step of RefreshGear: one request's refresh, the active peer, what was *)
(* given up.                                                               *)
LEMMA RefreshStep ==
  ASSUME PeersInv, NEW r \in Requests, NEW f \in Refresh, refresh' = [refresh EXCEPT ![r] = f],
         f.at # "idle" => req[r].at = "idle",
         f.at \in {"client", "ask"} => WasOnline(f.conn),
         activePeer' \in [conn : Links \cup {NoLink}, client : BOOLEAN],
         activePeer'.conn = NoLink => activePeer'.client = FALSE,
         givenUp' \subseteq Links, \A l \in givenUp' : WasOnline(l),
         LatestConnActive', UNCHANGED <<storeVars, serve, lastMark>>
  PROVE  PeersInv'
<1>1. gears' = gears /\ req' = req /\ UNCHANGED <<storeVars, serve, lastMark>>
  BY DEF storeVars
<1>2. /\ StoreInv /\ ServedHasRecord /\ AskedWasOnline /\ RefreshFirst
      /\ serve \in [Links -> {"new", "ensure", "mark", "online", "ended"}]
      /\ refresh \in [Requests -> Refresh] /\ lastMark \in Links \cup {NoLink}
  BY PeerUnfold
<1>3. refresh'[r] = f /\ \A q \in Requests : q # r => refresh'[q] = refresh[q]
  BY <1>2
<1>4. StoreInv' /\ PeerTyped'
  BY <1>1, <1>2, StoreStutter DEF PeerTyped
<1>5. ServedHasRecord'
  BY <1>1, <1>2 DEF ServedHasRecord, Ensuring
<1>6. AskedWasOnline'
  BY <1>1, <1>2, <1>3 DEF AskedWasOnline, WasOnline
<1>7. RefreshFirst'
  BY <1>1, <1>2, <1>3 DEF RefreshFirst
<1> QED
  BY <1>4, <1>5, <1>6, <1>7 DEF PeersInv

LEMMA RefreshGearStep ==
  ASSUME PeersInv, NEW r \in Requests,
         \/ LoadGear(r) \/ ActivePeer(r) \/ peerPublicClientForConn(r)
         \/ RefreshNothing(r) \/ RefreshOffline(r)
  PROVE  PeersInv'
<1>1. /\ AskedWasOnline /\ RefreshFirst /\ LatestConnActive
      /\ activePeer \in [conn : Links \cup {NoLink}, client : BOOLEAN]
      /\ serve \in [Links -> {"new", "ensure", "mark", "online", "ended"}]
      /\ refresh \in [Requests -> Refresh] /\ lastMark \in Links \cup {NoLink}
      /\ givenUp \subseteq Links /\ gears \in [Gears -> Record \cup {NoGear}]
  BY PeerUnfold
<1>2. /\ NoRequest \in Refresh /\ NoRequest.at = "idle"
      /\ activePeer.conn = NoLink => activePeer.client = FALSE
      /\ \A l \in givenUp : WasOnline(l)
  BY <1>1, RefreshFacts, GearFacts DEF AskedWasOnline
<1>3. UNCHANGED <<activePeer, givenUp, serve, lastMark>> => LatestConnActive'
  BY <1>1 DEF LatestConnActive
<1>4. CASE LoadGear(r)
  <2> DEFINE f == [at |-> "active", gear |-> gears[Device]]
  <2>1. /\ refresh' = [refresh EXCEPT ![r] = f] /\ req[r].at = "idle" /\ gears[Device] # NoGear
        /\ UNCHANGED <<storeVars, activePeer, serve, lastMark, givenUp>>
    BY <1>4 DEF LoadGear
  <2>2. f \in Refresh /\ f.at = "active"
    BY <1>1, <2>1, RefreshFacts, PeerManagerAssumption
  <2> HIDE DEF f
  <2> QED
    BY <1>1, <1>2, <1>3, <2>1, <2>2, RefreshStep
<1>5. CASE ActivePeer(r)
  <2> DEFINE c == [at |-> "client", gear |-> refresh[r].gear, conn |-> activePeer.conn]
             f == IF activePeer = Offline THEN NoRequest ELSE c
  <2>1. /\ refresh[r].at = "active" /\ refresh' = [refresh EXCEPT ![r] = f]
        /\ UNCHANGED <<storeVars, activePeer, serve, lastMark, givenUp>>
    BY <1>1, <1>5 DEF ActivePeer
  <2>2. activePeer # Offline => activePeer.conn \in Links /\ WasOnline(activePeer.conn)
    <3>1. activePeer.conn = NoLink => activePeer = Offline
      BY <1>1, <1>2 DEF Offline
    <3> QED
      BY <1>1, <3>1 DEF LatestConnActive, WasOnline
  <2>3. refresh[r].gear \in Record /\ req[r].at = "idle"
    BY <1>1, <2>1, RefreshFacts DEF RefreshFirst
  <2>4. activePeer # Offline => c \in Refresh /\ c.at = "client" /\ c.conn = activePeer.conn
    BY <2>2, <2>3, RefreshFacts
  <2>5. f \in Refresh /\ (f.at \in {"client", "ask"} => WasOnline(f.conn))
    <3> HIDE DEF c
    <3> QED
      BY <1>2, <2>2, <2>4
  <2> HIDE DEF f
  <2> QED
    BY <1>1, <1>2, <1>3, <2>1, <2>3, <2>5, RefreshStep
<1>6. CASE peerPublicClientForConn(r)
  <2>1. /\ refresh[r].at = "client" /\ UNCHANGED <<storeVars, serve, lastMark, givenUp>>
        /\ \/ refresh' = [refresh EXCEPT ![r] = NoRequest] /\ UNCHANGED activePeer
           \/ /\ activePeer.conn = refresh[r].conn
              /\ activePeer' = [activePeer EXCEPT !.client = TRUE]
              /\ refresh' = [refresh EXCEPT ![r].at = "ask"]
    BY <1>6 DEF peerPublicClientForConn
  <2>2. CASE refresh' = [refresh EXCEPT ![r] = NoRequest] /\ UNCHANGED activePeer
    BY <1>1, <1>2, <1>3, <2>1, <2>2, RefreshStep
  <2>3. CASE /\ activePeer.conn = refresh[r].conn
             /\ activePeer' = [activePeer EXCEPT !.client = TRUE]
             /\ refresh' = [refresh EXCEPT ![r].at = "ask"]
    <3> DEFINE f == [refresh[r] EXCEPT !.at = "ask"]
    <3>1. refresh' = [refresh EXCEPT ![r] = f]
      BY <1>1, <2>3
    <3>2. f \in Refresh /\ f.at = "ask" /\ f.conn = refresh[r].conn /\ refresh[r].conn \in Links
      BY <1>1, <2>1, RefreshFacts
    <3>3. /\ activePeer' \in [conn : Links \cup {NoLink}, client : BOOLEAN]
          /\ activePeer'.conn = activePeer.conn /\ activePeer.conn # NoLink
      BY <1>1, <2>3, <3>2, PeerManagerAssumption
    <3>4. req[r].at = "idle" /\ WasOnline(refresh[r].conn)
      BY <1>1, <2>1 DEF RefreshFirst, AskedWasOnline
    <3>5. LatestConnActive'
      BY <1>1, <2>1, <3>3 DEF LatestConnActive
    <3> HIDE DEF f
    <3> QED
      BY <1>1, <1>2, <2>1, <3>1, <3>2, <3>3, <3>4, <3>5, RefreshStep
  <2> QED
    BY <2>1, <2>2, <2>3
<1>7. CASE RefreshNothing(r)
  <2>1. /\ refresh' = [refresh EXCEPT ![r] = NoRequest]
        /\ UNCHANGED <<storeVars, activePeer, serve, lastMark, givenUp>>
    BY <1>7 DEF RefreshNothing
  <2> QED
    BY <1>1, <1>2, <1>3, <2>1, RefreshStep
<1>8. CASE RefreshOffline(r)
  <2> DEFINE c == refresh[r].conn
  <2>1. /\ refresh[r].at = "ask" /\ refresh' = [refresh EXCEPT ![r] = NoRequest]
        /\ activePeer' = IF activePeer.conn = c THEN Offline ELSE activePeer
        /\ givenUp' = givenUp \cup {c} /\ UNCHANGED <<storeVars, serve, lastMark>>
    BY <1>8 DEF RefreshOffline, MarkPeerOffline
  <2>2. c \in Links /\ WasOnline(c) /\ c # NoLink
    BY <1>1, <2>1, RefreshFacts, PeerManagerAssumption DEF AskedWasOnline
  <2>3. /\ Offline \in [conn : Links \cup {NoLink}, client : BOOLEAN]
        /\ Offline.conn = NoLink /\ Offline.client = FALSE
    BY DEF Offline
  <2> HIDE DEF c
  <2>4. /\ activePeer' \in [conn : Links \cup {NoLink}, client : BOOLEAN]
        /\ activePeer'.conn = NoLink => activePeer'.client = FALSE
        /\ givenUp' \subseteq Links /\ \A l \in givenUp' : WasOnline(l)
    BY <1>1, <1>2, <2>1, <2>2, <2>3
  <2>5. LatestConnActive'
    BY <1>1, <2>1, <2>2, <2>3 DEF LatestConnActive
  <2> QED
    BY <1>1, <1>2, <2>1, <2>4, <2>5, RefreshStep
<1> QED
  BY <1>4, <1>5, <1>6, <1>7, <1>8

LEMMA RefreshSaveStep ==
  ASSUME PeersInv, NEW r \in Requests, NEW ids \in SUBSET Identifiers, RefreshSave(r, ids)
  PROVE  PeersInv'
<1> DEFINE g == [refresh[r].gear EXCEPT !.ids = ids]
<1>1. /\ refresh[r].at = "ask" /\ Goto(r, "put", Device, g)
      /\ refresh' = [refresh EXCEPT ![r] = NoRequest]
      /\ UNCHANGED <<gears, byId, gearMu>> /\ UNCHANGED <<activePeer, serve, lastMark, givenUp>>
  BY DEF RefreshSave
<1>2. /\ StoreInv /\ ServedHasRecord /\ AskedWasOnline /\ RefreshFirst /\ LatestConnActive
      /\ activePeer \in [conn : Links \cup {NoLink}, client : BOOLEAN]
      /\ serve \in [Links -> {"new", "ensure", "mark", "online", "ended"}]
      /\ refresh \in [Requests -> Refresh] /\ lastMark \in Links \cup {NoLink}
      /\ givenUp \subseteq Links /\ req \in [Actors -> Request]
  BY PeerUnfold
<1>3. r \in Actors /\ req[r].at = "idle" /\ r \notin Links
  BY <1>1, <1>2, GearStoreAssumption DEF RefreshFirst, Actors
<1>4. g \in Record
  BY <1>1, <1>2, RefreshFacts, RecordFacts
<1> HIDE DEF g
<1>5. StoreInv'
  BY <1>1, <1>2, <1>3, <1>4, ChangeStep, PeerManagerAssumption
<1>6. \A a \in Actors : a # r => req'[a] = req[a]
  BY <1>1, <1>2 DEF Goto
<1>7. refresh'[r].at = "idle" /\ \A q \in Requests : q # r => refresh'[q] = refresh[q]
  BY <1>1, <1>2, GearFacts
<1>8. PeerTyped'
  BY <1>1, <1>2, RefreshFacts DEF PeerTyped
<1>9. ServedHasRecord'
  BY <1>1, <1>2, <1>3, <1>6 DEF ServedHasRecord, Ensuring, Actors
<1>10. AskedWasOnline'
  BY <1>1, <1>2, <1>7 DEF AskedWasOnline, WasOnline
<1>11. RefreshFirst'
  BY <1>1, <1>2, <1>6, <1>7 DEF RefreshFirst, Actors
<1>12. LatestConnActive'
  BY <1>1, <1>2 DEF LatestConnActive
<1> QED
  BY <1>5, <1>8, <1>9, <1>10, <1>11, <1>12 DEF PeersInv

LEMMA StoreStepStep ==
  ASSUME PeersInv, NEW a \in Actors, StoreStep(a)
  PROVE  PeersInv'
<1>1. /\ create(a) \/ put(a) \/ writeGear(a) \/ StoreFails(a)
      /\ a \in Requests \/ create(a) \/ put(a) \/ writeGear(a)
      /\ UNCHANGED <<activePeer, serve, refresh, lastMark, givenUp>>
  BY DEF StoreStep, peerOnly
<1>2. /\ StoreInv /\ ServedHasRecord /\ AskedWasOnline /\ RefreshFirst /\ LatestConnActive
      /\ activePeer \in [conn : Links \cup {NoLink}, client : BOOLEAN]
      /\ serve \in [Links -> {"new", "ensure", "mark", "online", "ended"}]
      /\ refresh \in [Requests -> Refresh] /\ lastMark \in Links \cup {NoLink}
      /\ givenUp \subseteq Links /\ req \in [Actors -> Request]
  BY PeerUnfold
<1>3. /\ StoreInv'
      /\ \A k \in Gears : gears[k] # NoGear => gears'[k] # NoGear
      /\ \A b \in Actors : b # a => req'[b] = req[b]
      /\ req[a].at # "idle"
  BY <1>1, <1>2, StoringMoves
<1>4. PeerTyped'
  BY <1>1, <1>2 DEF PeerTyped
<1>5. ServedHasRecord'
  <2> SUFFICES ASSUME NEW m \in Links
               PROVE  /\ serve'[m] = "ensure" => Ensuring(m)'
                      /\ serve'[m] # "ensure" => req'[m].at = "idle"
                      /\ serve'[m] \in {"mark", "online"} => gears'[Device] # NoGear
    BY DEF ServedHasRecord
  <2>1. m \in Actors /\ Device \in Gears /\ serve' = serve
    BY <1>1, PeerManagerAssumption DEF Actors
  <2>2. CASE m # a
    BY <1>2, <1>3, <2>1, <2>2 DEF ServedHasRecord, Ensuring
  <2>3. CASE m = a
    <3>1. serve[m] = "ensure" /\ req[a].at \in {"create", "new"} /\ req[a].key = Device
      BY <1>2, <1>3, <2>3 DEF ServedHasRecord, Ensuring
    <3>2. create(a) \/ put(a) \/ writeGear(a)
      BY <1>1, <2>3, GearStoreAssumption
    <3>3. \/ req'[a].at = "new" /\ req'[a].key = req[a].key
          \/ req'[a].at = "idle" /\ gears'[req[a].key] # NoGear
      <4>1. ASSUME StoreFails(a) PROVE ~create(a) /\ ~put(a)
        BY <3>1, <4>1 DEF StoreFails, create, put
      <4>2. CASE writeGear(a)
        <5>1. /\ gears' = [gears EXCEPT ![Device] = req[a].gear] /\ req[a].gear # NoGear
              /\ req' = [req EXCEPT ![a] = NoRequest]
          BY <1>2, <1>3, <3>1, <4>2, GearFacts, NilRecordAssumption DEF writeGear, Finish
        <5> QED
          BY <1>2, <2>1, <3>1, <5>1, GearFacts, PeerUnfold
      <4> QED
        BY <1>1, <1>2, <3>1, <3>2, <4>1, <4>2, StoringMoves
    <3> QED
      BY <2>1, <2>3, <3>1, <3>3 DEF Ensuring
  <2> QED
    BY <2>2, <2>3
<1>6. AskedWasOnline'
  BY <1>1, <1>2 DEF AskedWasOnline, WasOnline
<1>7. RefreshFirst'
  BY <1>1, <1>2, <1>3 DEF RefreshFirst, Actors
<1>8. LatestConnActive'
  BY <1>1, <1>2 DEF LatestConnActive
<1> QED
  BY <1>3, <1>4, <1>5, <1>6, <1>7, <1>8 DEF PeersInv

LEMMA PeerStart == GearStoreInit /\ NewManager => PeersInv
<1> SUFFICES ASSUME GearStoreInit, NewManager PROVE PeersInv
  OBVIOUS
<1>1. /\ activePeer = Offline /\ serve = [l \in Links |-> "new"]
      /\ refresh = [r \in Requests |-> NoRequest] /\ lastMark = NoLink /\ givenUp = {}
  BY DEF NewManager
<1>2. Offline \in [conn : Links \cup {NoLink}, client : BOOLEAN]
      /\ Offline.conn = NoLink /\ Offline.client = FALSE
  BY DEF Offline
<1>3. PeerTyped
  BY <1>1, <1>2, RefreshFacts DEF PeerTyped
<1>4. ServedHasRecord
  BY <1>1, GearFacts DEF GearStoreInit, ServedHasRecord, Actors
<1>5. AskedWasOnline /\ RefreshFirst /\ LatestConnActive
  BY <1>1, <1>2, GearFacts DEF AskedWasOnline, RefreshFirst, LatestConnActive
<1> QED
  BY <1>3, <1>4, <1>5, StoreStart DEF PeersInv

LEMMA PeerNextKeeps == PeersInv /\ [PeerNext]_peerVars => PeersInv'
<1> SUFFICES ASSUME PeersInv, [PeerNext]_peerVars PROVE PeersInv'
  OBVIOUS
<1>1. CASE UNCHANGED peerVars
  <2>1. UNCHANGED storeVars /\ UNCHANGED <<activePeer, serve, refresh, lastMark, givenUp>>
        /\ gears' = gears /\ req' = req
    BY <1>1 DEF peerVars, peerOnly, storeVars
  <2> QED
    BY <2>1, StoreStutter DEF PeersInv, PeerTyped, ServedHasRecord, Ensuring, AskedWasOnline,
                              WasOnline, RefreshFirst, LatestConnActive
<1> QED
  BY <1>1, ServeConnStep, EnsurePeerGearStep, EnsureFailsStep, MarkPeerOnlineStep, ServeEndsStep,
     RefreshGearStep, RefreshSaveStep, StoreStepStep DEF PeerNext

(* A device is reached by the connection that came online last as long as  *)
(* that one is served and was not found dead: neither the end of an older  *)
(* connection nor a refresh that failed on one takes it offline            *)
(* (MarkPeerOffline and RefreshGear of gizclaw/manager.go).                *)
THEOREM LatestConnStaysActive == PeerSpec => []LatestConnActive
<1>1. PeersInv => LatestConnActive
  BY DEF PeersInv
<1> QED
  BY <1>1, PeerStart, PeerNextKeeps, PTL DEF PeerSpec

(* The connections and refreshes that store records next to each other     *)
(* keep the store sound, and a peer is online only once it has a record.   *)
THEOREM PeersKeepStoreSound == PeerSpec => [](PeerTypeOK /\ StoreSound)
<1>1. PeersInv => PeerTypeOK /\ StoreSound
  <2> SUFFICES ASSUME PeersInv PROVE PeerTypeOK /\ StoreSound
    OBVIOUS
  <2>1. /\ ServedHasRecord /\ AskedWasOnline /\ LatestConnActive
        /\ activePeer \in [conn : Links \cup {NoLink}, client : BOOLEAN]
        /\ serve \in [Links -> {"new", "ensure", "mark", "online", "ended"}]
        /\ lastMark \in Links \cup {NoLink} /\ givenUp \subseteq Links /\ StoreInv
    BY PeerUnfold
  <2>2. activePeer # Offline => activePeer.conn # NoLink
    BY <2>1 DEF AskedWasOnline, Offline
  <2>3. activePeer # Offline => gears[Device] # NoGear
    BY <2>1, <2>2 DEF LatestConnActive, ServedHasRecord
  <2> QED
    BY <2>1, <2>3 DEF PeerTypeOK, StoreInv
<1> QED
  BY <1>1, PeerStart, PeerNextKeeps, PTL DEF PeerSpec

-----------------------------------------------------------------------------
LEMMA LoginRecords ==
  LET Login == [at : {"idle", "lock", "store"},
                assertion : Assertions \cup {NoAssertion}, now : 0 .. MaxClock]
  IN  /\ NoLogin \in Login /\ NoLogin.at = "idle"
      /\ \A p \in Login : /\ [p EXCEPT !.at = "store"] \in Login
                          /\ [p EXCEPT !.at = "store"].at = "store"
                          /\ [p EXCEPT !.at = "store"].assertion = p.assertion
BY LoginAssumption DEF NoLogin

LEMMA LoginUnfold ==
  ASSUME LoginInv
  PROVE  LoginTypeOK /\ LoginLock /\ Spent
BY DEF LoginInv

LEMMA VerifyStep ==
  ASSUME LoginInv, NEW l \in Logins, NEW a \in Assertions, verifyLoginAssertion(l, a)
  PROVE  LoginInv'
<1> DEFINE q == [at |-> "lock", assertion |-> a, now |-> clock]
<1>1. /\ login[l].at = "idle" /\ login' = [login EXCEPT ![l] = q]
      /\ UNCHANGED <<clock, exp, usedKeys, sessions, issued, loginMu>>
  BY DEF verifyLoginAssertion
<1>2. LoginTypeOK /\ LoginLock /\ Spent
  BY LoginUnfold
<1>3. /\ q \in [at : {"idle", "lock", "store"},
                assertion : Assertions \cup {NoAssertion}, now : 0 .. MaxClock]
      /\ q.at = "lock" /\ q.assertion = a
  BY <1>2 DEF LoginTypeOK
<1> HIDE DEF q
<1>4. login'[l] = q /\ \A m \in Logins : m # l => login'[m] = login[m]
  BY <1>1, <1>2 DEF LoginTypeOK
<1>5. LoginTypeOK'
  BY <1>1, <1>2, <1>3 DEF LoginTypeOK
<1>6. LoginLock'
  BY <1>1, <1>2, <1>3, <1>4 DEF LoginLock
<1>7. Spent'
  BY <1>1, <1>2 DEF Spent, Expired
<1> QED
  BY <1>5, <1>6, <1>7 DEF LoginInv

LEMMA LoginGetStep ==
  ASSUME LoginInv, NEW l \in Logins, LoginGet(l)
  PROVE  LoginInv'
<1> DEFINE a == login[l].assertion
           q == [login[l] EXCEPT !.at = "store"]
<1>1. /\ login[l].at = "lock" /\ loginMu = "free"
      /\ UNCHANGED <<clock, exp, sessions, issued>>
      /\ \/ /\ login' = [login EXCEPT ![l] = NoLogin]
            /\ UNCHANGED <<usedKeys, loginMu>>
         \/ /\ ~(a \in usedKeys /\ ~Expired(exp[a])) /\ usedKeys' = usedKeys \ {a} /\ loginMu' = l
            /\ login' = [login EXCEPT ![l].at = "store"]
  BY DEF LoginGet
<1>2. LoginTypeOK /\ LoginLock /\ Spent
  BY LoginUnfold
<1>3. CASE login' = [login EXCEPT ![l] = NoLogin] /\ UNCHANGED <<usedKeys, loginMu>>
  <2>1. login'[l] = NoLogin /\ \A m \in Logins : m # l => login'[m] = login[m]
    BY <1>2, <1>3 DEF LoginTypeOK
  <2>2. LoginTypeOK'
    BY <1>1, <1>2, <1>3, LoginRecords DEF LoginTypeOK
  <2>3. LoginLock'
    BY <1>1, <1>2, <1>3, <2>1, LoginRecords DEF LoginLock
  <2>4. Spent'
    BY <1>1, <1>2, <1>3 DEF Spent, Expired
  <2> QED
    BY <2>2, <2>3, <2>4 DEF LoginInv
<1>4. CASE /\ ~(a \in usedKeys /\ ~Expired(exp[a])) /\ usedKeys' = usedKeys \ {a} /\ loginMu' = l
           /\ login' = [login EXCEPT ![l].at = "store"]
  <2>1. login' = [login EXCEPT ![l] = q]
    BY <1>2, <1>4 DEF LoginTypeOK
  <2>2. /\ q \in [at : {"idle", "lock", "store"},
                  assertion : Assertions \cup {NoAssertion}, now : 0 .. MaxClock]
        /\ q.at = "store" /\ q.assertion = a
    BY <1>2, LoginRecords DEF LoginTypeOK
  <2>3. a \in Assertions
    BY <1>1, <1>2 DEF LoginLock
  <2> HIDE DEF q
  <2>4. login'[l] = q /\ \A m \in Logins : m # l => login'[m] = login[m]
    BY <1>2, <2>1 DEF LoginTypeOK
  <2>5. LoginTypeOK'
    BY <1>1, <1>2, <1>4, <2>1, <2>2 DEF LoginTypeOK
  <2>6. \A m \in Logins : login[m].at # "store"
    BY <1>1, <1>2, LoginAssumption DEF LoginLock
  <2>7. LoginLock'
    BY <1>2, <1>4, <2>2, <2>3, <2>4, <2>6 DEF LoginLock
  <2>8. Spent'
    BY <1>1, <1>2, <1>4 DEF Spent, Expired
  <2> QED
    BY <2>5, <2>7, <2>8 DEF LoginInv
<1> QED
  BY <1>1, <1>3, <1>4

LEMMA LoginFailsStep ==
  ASSUME LoginInv, NEW l \in Logins, LoginFails(l)
  PROVE  LoginInv'
<1>1. /\ login[l].at \in {"lock", "store"} /\ loginMu' = "free"
      /\ loginMu = "free" \/ login[l].at = "store"
      /\ login' = [login EXCEPT ![l] = NoLogin]
      /\ UNCHANGED <<clock, exp, usedKeys, sessions, issued>>
  BY DEF LoginFails
<1>2. LoginTypeOK /\ LoginLock /\ Spent
  BY LoginUnfold
<1>3. login'[l] = NoLogin /\ \A m \in Logins : m # l => login'[m] = login[m]
  BY <1>1, <1>2 DEF LoginTypeOK
<1>4. \A m \in Logins : m # l => login[m].at # "store"
  BY <1>1, <1>2, LoginAssumption DEF LoginLock
<1>5. LoginTypeOK'
  BY <1>1, <1>2, LoginRecords DEF LoginTypeOK
<1>6. LoginLock'
  BY <1>1, <1>2, <1>3, <1>4, LoginRecords, LoginAssumption DEF LoginLock
<1>7. Spent'
  BY <1>1, <1>2 DEF Spent, Expired
<1> QED
  BY <1>5, <1>6, <1>7 DEF LoginInv

LEMMA LoginStoreStep ==
  ASSUME LoginInv, NEW l \in Logins, LoginStore(l)
  PROVE  LoginInv'
<1> DEFINE a == login[l].assertion
           s == [owner |-> a, deadline |-> login[l].now + SessionTTL]
<1>1. /\ login[l].at = "store" /\ ~Expired(exp[a])
      /\ usedKeys' = usedKeys \cup {a} /\ sessions' = sessions \cup {s}
      /\ issued' = [issued EXCEPT ![a] = @ + 1] /\ loginMu' = "free"
      /\ login' = [login EXCEPT ![l] = NoLogin] /\ UNCHANGED <<clock, exp>>
  BY DEF LoginStore, BatchSet
<1>2. LoginTypeOK /\ LoginLock /\ Spent
  BY LoginUnfold
<1>3. a \in Assertions /\ a \notin usedKeys
  BY <1>1, <1>2 DEF LoginLock
<1>4. issued[a] = 0
  BY <1>1, <1>2, <1>3 DEF Spent
<1>5. s \in [owner : Assertions, deadline : 0 .. MaxClock + SessionTTL]
  BY <1>2, <1>3, LoginAssumption DEF LoginTypeOK
<1>6. login'[l] = NoLogin /\ \A m \in Logins : m # l => login'[m] = login[m]
  BY <1>1, <1>2 DEF LoginTypeOK
<1>7. \A m \in Logins : m # l => login[m].at # "store"
  BY <1>1, <1>2, LoginAssumption DEF LoginLock
<1> HIDE DEF s, a
<1>8. issued' \in [Assertions -> Nat] /\ issued'[a] = 1
      /\ \A b \in Assertions : b # a => issued'[b] = issued[b]
  BY <1>1, <1>2, <1>3, <1>4 DEF LoginTypeOK
<1>9. LoginTypeOK'
  BY <1>1, <1>2, <1>3, <1>5, <1>8, LoginRecords DEF LoginTypeOK
<1>10. LoginLock'
  BY <1>1, <1>2, <1>6, <1>7, LoginRecords, LoginAssumption DEF LoginLock
<1>11. Spent'
  BY <1>1, <1>2, <1>8 DEF Spent, Expired
<1> QED
  BY <1>9, <1>10, <1>11 DEF LoginInv

(* A session's expiry, a restart and the clock. *)
LEMMA LoginOtherStep ==
  ASSUME LoginInv,
         \/ \E s \in sessions : SessionExpires(s)
         \/ LoginCrash \/ ClockTick \/ UNCHANGED loginVars
  PROVE  LoginInv'
<1>1. LoginTypeOK /\ LoginLock /\ Spent
  BY LoginUnfold
<1>2. CASE \E s \in sessions : SessionExpires(s)
  <2>1. sessions' \subseteq sessions /\ UNCHANGED <<clock, exp, usedKeys, issued, loginMu, login>>
    BY <1>2 DEF SessionExpires
  <2> QED
    BY <1>1, <2>1 DEF LoginInv, LoginTypeOK, LoginLock, Spent, Expired
<1>3. CASE LoginCrash
  <2>1. /\ loginMu' = "free" /\ \A l \in Logins : login'[l].at = "idle"
        /\ login' = [l \in Logins |-> NoLogin] /\ UNCHANGED <<clock, exp, usedKeys, sessions, issued>>
    BY <1>3, LoginRecords DEF LoginCrash
  <2>2. LoginTypeOK'
    BY <1>1, <2>1, LoginRecords DEF LoginTypeOK
  <2>3. LoginLock' /\ Spent'
    BY <1>1, <2>1, LoginAssumption DEF LoginLock, Spent, Expired
  <2> QED
    BY <2>2, <2>3 DEF LoginInv
<1>4. CASE ClockTick
  <2>1. /\ clock' = clock + 1 /\ clock < MaxClock
        /\ UNCHANGED <<exp, usedKeys, sessions, issued, loginMu, login>>
    BY <1>4 DEF ClockTick
  <2>2. LoginTypeOK' /\ LoginLock'
    BY <1>1, <2>1, LoginAssumption DEF LoginTypeOK, LoginLock
  <2>3. \A a \in Assertions : Expired(exp[a]) => Expired(exp[a])'
    BY <1>1, <2>1, LoginAssumption DEF LoginTypeOK, Expired
  <2>4. Spent'
    BY <1>1, <2>1, <2>3 DEF Spent, Expired
  <2> QED
    BY <2>2, <2>4 DEF LoginInv
<1>5. CASE UNCHANGED loginVars
  BY <1>1, <1>5 DEF loginVars, LoginInv, LoginTypeOK, LoginLock, Spent, Expired
<1> QED
  BY <1>2, <1>3, <1>4, <1>5

LEMMA LoginStart == NewLoginManager => LoginInv
<1> SUFFICES ASSUME NewLoginManager PROVE LoginInv
  OBVIOUS
<1>1. LoginTypeOK
  BY LoginRecords, LoginAssumption DEF NewLoginManager, LoginTypeOK
<1>2. LoginLock
  BY LoginRecords, LoginAssumption DEF NewLoginManager, LoginLock
<1>3. Spent
  BY DEF NewLoginManager, Spent
<1> QED
  BY <1>1, <1>2, <1>3 DEF LoginInv

(* An assertion buys at most one session: not for copies presented at the  *)
(* same time, not around its expiry, when its key leaves the store, and    *)
(* not after a restart (login and BatchSet of gizclaw/publiclogin).        *)
THEOREM AssertionBuysOnce == LoginSpec => [](LoginTypeOK /\ OneSessionPerAssertion)
<1>1. LoginInv /\ [LoginNext]_loginVars => LoginInv'
  BY VerifyStep, LoginGetStep, LoginFailsStep, LoginStoreStep, LoginOtherStep DEF LoginNext
<1>2. LoginInv => LoginTypeOK /\ OneSessionPerAssertion
  BY DEF LoginInv, Spent, OneSessionPerAssertion
<1> QED
  BY <1>1, <1>2, LoginStart, PTL DEF LoginSpec

-----------------------------------------------------------------------------
(* The firmware depot *)

Releases == [Channels -> Builds \cup {NoBuild}]

UploadOp == [kind : {"upload"}, at : {"swap", "place", "meta"}, chan : Channels,
             build : Builds, current : Releases]
SwitchOp == [kind : {"release", "rollback"},
             at : {"backup", "layout", "manifest", "meta", "cleanup", "unapply"},
             current : Releases, todo : SUBSET Channels, applied : SUBSET Channels]
InfoOp == [kind : {"info"}, at : {"meta"}, current : Releases]

DepotTyped ==
  /\ meta \in Releases /\ dirs \in Releases /\ baks \in Releases /\ olds \in Releases
  /\ op \in {NoOp} \cup UploadOp \cup SwitchOp \cup InfoOp
  /\ torn \in BOOLEAN
  /\ validateVersionOrder(meta)

(* The lock keeps the metadata an operation read current, and with it what *)
(* the operation found at its start                                        *)
ReadStaysCurrent ==
  /\ op \in UploadOp \cup InfoOp => op.current = meta
  /\ op \in SwitchOp /\ op.at # "cleanup" =>
       /\ op.current = meta
       /\ op.kind = "release" => meta["beta"] # NoBuild /\ meta["testing"] # NoBuild
       /\ op.kind = "rollback" => meta["rollback"] # NoBuild

(* The second loop is over the targets of the layout *)
Targets ==
  op \in SwitchOp => /\ op.applied \subseteq DOMAIN Layout(op.kind)
                     /\ op.at = "layout" => op.todo \subseteq DOMAIN Layout(op.kind)

(* Where an upload has put the directory it replaces *)
UploadPlaced ==
  op \in UploadOp =>
    /\ \A c \in Channels \ {op.chan} : dirs[c] = meta[c]
    /\ op.at = "swap" => dirs[op.chan] = meta[op.chan]
    /\ op.at \in {"place", "meta"} => olds[op.chan] = meta[op.chan]
    /\ op.at = "meta" => dirs[op.chan] = op.build

(* The first loop of a switch: what is done is in its backup *)
BackedUp ==
  op \in SwitchOp /\ op.at = "backup" =>
    /\ op.applied = {} /\ op.todo \subseteq Paths(op.kind)
    /\ \A c \in Channels : \/ dirs[c] = meta[c] /\ c \notin Paths(op.kind) \ op.todo
                           \/ /\ c \in Paths(op.kind) \ op.todo
                              /\ dirs[c] = NoBuild /\ baks[c] = meta[c]

(* The second loop, and its undo: an applied target has its new directory, *)
(* the backup of any other one is still there                              *)
Moved ==
  op \in SwitchOp /\ op.at \in {"layout", "manifest", "meta", "unapply"} =>
    /\ \A t \in op.applied : /\ dirs[t] = meta[Layout(op.kind)[t]]
                             /\ baks[Layout(op.kind)[t]] = NoBuild
    /\ \A t \in DOMAIN Layout(op.kind) \ op.applied :
         dirs[t] = NoBuild /\ baks[Layout(op.kind)[t]] = meta[Layout(op.kind)[t]]
    /\ \A c \in Paths(op.kind) \ DOMAIN Layout(op.kind) : dirs[c] = NoBuild
    /\ \A c \in Paths(op.kind) : \/ \E t \in DOMAIN Layout(op.kind) : Layout(op.kind)[t] = c
                                 \/ baks[c] = meta[c]
    /\ \A c \in Channels \ Paths(op.kind) : dirs[c] = meta[c]

(* A target the second loop passed by had nothing to receive *)
PassedBy ==
  op \in SwitchOp /\ op.at \in {"layout", "manifest", "meta"} =>
    /\ op.todo \subseteq DOMAIN Layout(op.kind) \ op.applied
    /\ op.at # "layout" => op.todo = {}
    /\ \A t \in DOMAIN Layout(op.kind) \ (op.todo \cup op.applied) : meta[Layout(op.kind)[t]] = NoBuild

(* Without an operation, in one that only writes the metadata, and after the *)
(* metadata is written, directories and metadata agree                       *)
Agree == (op = NoOp \/ op \in InfoOp \/ (op \in SwitchOp /\ op.at = "cleanup")) => dirs = meta

DepotInv ==
  /\ DepotTyped /\ ReadStaysCurrent /\ Targets
  /\ ~torn => UploadPlaced /\ BackedUp /\ Moved /\ PassedBy /\ Agree

-----------------------------------------------------------------------------
(* The operators. *)
LEMMA OpKinds ==
  /\ NoOp.kind = "none"
  /\ \A o \in UploadOp : o.kind = "upload"
  /\ \A o \in SwitchOp : o.kind \in {"release", "rollback"}
  /\ \A o \in InfoOp : o.kind = "info"
BY DEF NoOp, UploadOp, SwitchOp, InfoOp

LEMMA OpApart ==
  /\ \A o \in UploadOp : o # NoOp /\ o \notin SwitchOp /\ o \notin InfoOp
  /\ \A o \in SwitchOp : o # NoOp /\ o \notin UploadOp /\ o \notin InfoOp
  /\ \A o \in InfoOp : o # NoOp /\ o \notin UploadOp /\ o \notin SwitchOp
  /\ NoOp \notin UploadOp \cup SwitchOp \cup InfoOp
BY OpKinds

LEMMA LayoutTables ==
  /\ Paths("release") = Channels /\ DOMAIN Layout("release") = {"stable", "beta", "rollback"}
  /\ Layout("release")["stable"] = "beta" /\ Layout("release")["beta"] = "testing"
  /\ Layout("release")["rollback"] = "stable"
  /\ Paths("rollback") = {"stable", "rollback"} /\ DOMAIN Layout("rollback") = {"stable", "rollback"}
  /\ Layout("rollback")["stable"] = "rollback" /\ Layout("rollback")["rollback"] = "stable"
BY DEF Paths, Layout

LEMMA LayoutFacts ==
  ASSUME NEW kind \in {"release", "rollback"}
  PROVE  /\ Paths(kind) \subseteq Channels /\ DOMAIN Layout(kind) \subseteq Paths(kind)
         /\ \A t \in DOMAIN Layout(kind) : Layout(kind)[t] \in Paths(kind)
         /\ \A t, u \in DOMAIN Layout(kind) : Layout(kind)[t] = Layout(kind)[u] => t = u
BY LayoutTables DEF Channels

LEMMA NextMetaFacts ==
  ASSUME NEW kind \in {"release", "rollback"}, NEW cur \in Releases
  PROVE  /\ NextMeta(kind, cur) \in Releases
         /\ \A t \in DOMAIN Layout(kind) : NextMeta(kind, cur)[t] = cur[Layout(kind)[t]]
         /\ \A c \in Paths(kind) \ DOMAIN Layout(kind) : NextMeta(kind, cur)[c] = NoBuild
         /\ \A c \in Channels \ Paths(kind) : NextMeta(kind, cur)[c] = cur[c]
<1>1. /\ Paths(kind) \subseteq Channels /\ DOMAIN Layout(kind) \subseteq Paths(kind)
      /\ \A t \in DOMAIN Layout(kind) : Layout(kind)[t] \in Channels
  BY LayoutFacts
<1> DEFINE m(c) == CASE c \in DOMAIN Layout(kind) -> cur[Layout(kind)[c]]
                     [] c \notin DOMAIN Layout(kind) /\ c \in Paths(kind) -> NoBuild
                     [] OTHER -> cur[c]
<1>2. NextMeta(kind, cur) = [c \in Channels |-> m(c)]
  BY DEF NextMeta
<1>3. /\ \A t \in DOMAIN Layout(kind) : m(t) = cur[Layout(kind)[t]]
      /\ \A c \in Paths(kind) \ DOMAIN Layout(kind) : m(c) = NoBuild
      /\ \A c \in Channels \ Paths(kind) : m(c) = cur[c]
  BY <1>1
<1> HIDE DEF m
<1>4. \A c \in Channels : m(c) \in Builds \cup {NoBuild}
  BY <1>1, <1>3 DEF Releases
<1> QED
  BY <1>1, <1>2, <1>3, <1>4 DEF Releases

LEMMA DepotUnfold ==
  ASSUME DepotInv
  PROVE  /\ meta \in Releases /\ dirs \in Releases /\ baks \in Releases /\ olds \in Releases
         /\ op \in {NoOp} \cup UploadOp \cup SwitchOp \cup InfoOp /\ torn \in BOOLEAN
         /\ validateVersionOrder(meta) /\ ReadStaysCurrent /\ Targets
         /\ ~torn => UploadPlaced /\ BackedUp /\ Moved /\ PassedBy /\ Agree
BY DEF DepotInv, DepotTyped

LEMMA OpIs ==
  ASSUME DepotInv
  PROVE  /\ op.kind = "upload" => op \in UploadOp
         /\ op.kind \in {"release", "rollback"} => op \in SwitchOp
         /\ op.kind = "info" => op \in InfoOp
BY DepotUnfold, OpKinds

LEMMA OrderUnchanged == validateVersionOrder(meta) /\ meta' = meta => validateVersionOrder(meta')
OBVIOUS

-----------------------------------------------------------------------------
(* An operation ends: the depot is torn, or directories and metadata agree. *)
LEMMA EndsStep ==
  ASSUME DepotInv, op' = NoOp, meta' \in Releases, validateVersionOrder(meta'),
         dirs' \in Releases, baks' \in Releases, olds' \in Releases, torn' \in BOOLEAN,
         ~torn' => dirs' = meta'
  PROVE  DepotInv'
<1>1. DepotTyped'
  BY DEF DepotTyped, validateVersionOrder
<1>2. ReadStaysCurrent' /\ Targets'
  BY OpApart DEF ReadStaysCurrent, Targets
<1>3. UploadPlaced' /\ BackedUp' /\ Moved' /\ PassedBy'
  BY OpApart DEF UploadPlaced, BackedUp, Moved, PassedBy
<1>4. ~torn' => Agree'
  BY DEF Agree
<1> QED
  BY <1>1, <1>2, <1>3, <1>4 DEF DepotInv

(* An upload goes on. *)
LEMMA UploadsStep ==
  ASSUME DepotInv, op' \in UploadOp, op'.current = meta, meta' = meta, torn' = torn,
         dirs' \in Releases, baks' \in Releases, olds' \in Releases,
         ~torn => UploadPlaced'
  PROVE  DepotInv'
<1>1. DepotTyped'
  BY DepotUnfold DEF DepotTyped, validateVersionOrder
<1>2. ReadStaysCurrent' /\ Targets'
  BY OpApart DEF ReadStaysCurrent, Targets
<1>3. BackedUp' /\ Moved' /\ PassedBy' /\ Agree'
  BY OpApart DEF BackedUp, Moved, PassedBy, Agree
<1> QED
  BY <1>1, <1>2, <1>3 DEF DepotInv

(* A release or a rollback goes on, before it writes the metadata. *)
LEMMA SwitchesStep ==
  ASSUME DepotInv, op \in SwitchOp, op.at # "cleanup", op' \in SwitchOp, op'.at # "cleanup",
         op'.kind = op.kind, op'.current = op.current, meta' = meta, olds' = olds,
         dirs' \in Releases, baks' \in Releases, torn' \in BOOLEAN,
         Targets', ~torn' => BackedUp' /\ Moved' /\ PassedBy'
  PROVE  DepotInv'
<1>1. DepotTyped'
  BY DepotUnfold DEF DepotTyped, validateVersionOrder
<1>2. ReadStaysCurrent'
  BY OpApart, DepotUnfold DEF ReadStaysCurrent
<1>3. UploadPlaced' /\ Agree'
  BY OpApart DEF UploadPlaced, Agree
<1> QED
  BY <1>1, <1>2, <1>3 DEF DepotInv

LEMMA AbandonStep ==
  ASSUME DepotInv, Abandon, meta' = meta, dirs' = dirs, olds' = olds, baks' \in Releases
  PROVE  DepotInv'
<1>1. op' = NoOp /\ torn' = (torn \/ dirs # meta)
  BY DEF Abandon
<1>2. torn' \in BOOLEAN /\ (~torn' => dirs' = meta')
  BY <1>1
<1> QED
  BY <1>1, <1>2, DepotUnfold, OrderUnchanged, EndsStep

-----------------------------------------------------------------------------
(* Uploads. *)
LEMMA UploadTarStep ==
  ASSUME DepotInv, NEW c \in Channels, NEW b \in Builds, uploadTar(c, b)
  PROVE  DepotInv'
<1> DEFINE o == [kind |-> "upload", at |-> "swap", chan |-> c, build |-> b, current |-> meta]
<1>1. /\ op = NoOp /\ op' = o /\ olds' = [olds EXCEPT ![c] = NoBuild]
      /\ meta' = meta /\ dirs' = dirs /\ baks' = baks /\ torn' = torn
  BY DEF uploadTar, Begin
<1>2. o \in UploadOp /\ o.current = meta /\ o.at = "swap" /\ o.chan = c
  BY DepotUnfold DEF UploadOp
<1> HIDE DEF o
<1>3. olds' \in Releases
  BY <1>1, DepotUnfold DEF Releases
<1>4. ~torn => dirs = meta
  BY <1>1, DepotUnfold DEF Agree
<1>5. ~torn => UploadPlaced'
  BY <1>1, <1>2, <1>4 DEF UploadPlaced
<1> QED
  BY <1>1, <1>2, <1>3, <1>5, DepotUnfold, UploadsStep

LEMMA UploadSwapStep ==
  ASSUME DepotInv, UploadSwap
  PROVE  DepotInv'
<1> DEFINE o == [op EXCEPT !.at = "place"]
<1>1. /\ op.kind = "upload" /\ op.at = "swap" /\ op' = o
      /\ olds' = [olds EXCEPT ![op.chan] = dirs[op.chan]]
      /\ dirs' = [dirs EXCEPT ![op.chan] = NoBuild]
      /\ meta' = meta /\ baks' = baks /\ torn' = torn
  BY DEF UploadSwap
<1>2. op \in UploadOp
  BY <1>1, OpIs
<1>3. /\ o \in UploadOp /\ o.current = op.current /\ o.at = "place"
      /\ o.chan = op.chan /\ op.chan \in Channels
  BY <1>2 DEF UploadOp
<1> HIDE DEF o
<1>4. /\ olds' \in Releases /\ dirs' \in Releases /\ olds'[op.chan] = dirs[op.chan]
      /\ \A c \in Channels \ {op.chan} : dirs'[c] = dirs[c]
  BY <1>1, <1>3, DepotUnfold DEF Releases
<1>5. op.current = meta
  BY <1>2, DepotUnfold DEF ReadStaysCurrent
<1>6. ~torn => UploadPlaced'
  <2> SUFFICES ASSUME ~torn PROVE UploadPlaced'
    OBVIOUS
  <2>1. UploadPlaced
    BY DepotUnfold
  <2> QED
    BY <1>1, <1>2, <1>3, <1>4, <2>1 DEF UploadPlaced
<1> QED
  BY <1>1, <1>3, <1>4, <1>5, <1>6, DepotUnfold, UploadsStep

LEMMA UploadPlaceStep ==
  ASSUME DepotInv, UploadPlace
  PROVE  DepotInv'
<1> DEFINE o == [op EXCEPT !.at = "meta"]
<1>1. /\ op.kind = "upload" /\ op.at = "place" /\ op' = o
      /\ dirs' = [dirs EXCEPT ![op.chan] = op.build]
      /\ meta' = meta /\ baks' = baks /\ olds' = olds /\ torn' = torn
  BY DEF UploadPlace
<1>2. op \in UploadOp
  BY <1>1, OpIs
<1>3. /\ o \in UploadOp /\ o.current = op.current /\ o.at = "meta" /\ o.build = op.build
      /\ o.chan = op.chan /\ op.chan \in Channels /\ op.build \in Builds
  BY <1>2 DEF UploadOp
<1> HIDE DEF o
<1>4. /\ dirs' \in Releases /\ dirs'[op.chan] = op.build
      /\ \A c \in Channels \ {op.chan} : dirs'[c] = dirs[c]
  BY <1>1, <1>3, DepotUnfold DEF Releases
<1>5. op.current = meta
  BY <1>2, DepotUnfold DEF ReadStaysCurrent
<1>6. ~torn => UploadPlaced'
  <2> SUFFICES ASSUME ~torn PROVE UploadPlaced'
    OBVIOUS
  <2>1. UploadPlaced
    BY DepotUnfold
  <2> QED
    BY <1>1, <1>2, <1>3, <1>4, <2>1 DEF UploadPlaced
<1> QED
  BY <1>1, <1>3, <1>4, <1>5, <1>6, DepotUnfold, UploadsStep

LEMMA UploadSwapFailsStep ==
  ASSUME DepotInv, UploadSwapFails
  PROVE  DepotInv'
<1>1. /\ op.kind = "upload" /\ op.at = "swap" /\ op' = NoOp
      /\ UNCHANGED <<meta, dirs, baks, olds, torn>>
  BY DEF UploadSwapFails
<1>2. op \in UploadOp
  BY <1>1, OpIs
<1>3. ASSUME ~torn PROVE dirs = meta
  <2>1. \A c \in Channels : dirs[c] = meta[c]
    BY <1>1, <1>2, <1>3, DepotUnfold DEF UploadPlaced
  <2> QED
    BY <2>1, DepotUnfold DEF Releases
<1> QED
  BY <1>1, <1>3, DepotUnfold, OrderUnchanged, EndsStep

LEMMA UploadUndoStep ==
  ASSUME DepotInv, op.kind = "upload", op.at \in {"place", "meta"}, UploadUndo,
         meta' = meta, baks' = baks
  PROVE  DepotInv'
<1>1. op \in UploadOp /\ op.chan \in Channels
  BY OpIs DEF UploadOp
<1>2. dirs' \in Releases /\ olds' \in Releases
  BY <1>1, DepotUnfold DEF UploadUndo, Releases
<1>3. op' = NoOp
  BY DEF UploadUndo
<1>4. CASE /\ dirs' \in {dirs, [dirs EXCEPT ![op.chan] = NoBuild]}
           /\ torn' = (torn \/ dirs' # meta)
  BY <1>2, <1>3, <1>4, DepotUnfold, OrderUnchanged, EndsStep
<1>5. CASE dirs' = [dirs EXCEPT ![op.chan] = olds[op.chan]] /\ torn' = torn
  <2>1. ASSUME ~torn PROVE dirs' = meta
    <3>1. \A c \in Channels : dirs'[c] = meta[c]
      BY <1>1, <1>5, <2>1, DepotUnfold DEF UploadPlaced, Releases
    <3> QED
      BY <1>2, <3>1, DepotUnfold DEF Releases
  <2> QED
    BY <1>2, <1>3, <1>5, <2>1, DepotUnfold, OrderUnchanged, EndsStep
<1> QED
  BY <1>4, <1>5 DEF UploadUndo

LEMMA UploadMetaStep ==
  ASSUME DepotInv, UploadMeta
  PROVE  DepotInv'
<1>1. op.kind = "upload" /\ op.at = "meta" /\ baks' = baks
  BY DEF UploadMeta
<1>2. CASE UploadUndo /\ UNCHANGED meta
  BY <1>1, <1>2, UploadUndoStep
<1>3. CASE /\ validateVersionOrder(UploadNext) /\ meta' = UploadNext
           /\ olds' = [olds EXCEPT ![op.chan] = NoBuild]
           /\ op' = NoOp /\ UNCHANGED <<dirs, torn>>
  <2>1. op \in UploadOp /\ op.current = meta
    BY <1>1, OpIs, DepotUnfold DEF ReadStaysCurrent
  <2>2. op.chan \in Channels /\ op.build \in Builds
    BY <2>1 DEF UploadOp
  <2>3. meta' = [meta EXCEPT ![op.chan] = op.build]
    BY <1>3, <2>1 DEF UploadNext
  <2>4. meta' \in Releases /\ olds' \in Releases
    BY <1>3, <2>2, <2>3, DepotUnfold DEF Releases
  <2>5. ASSUME ~torn PROVE dirs = meta'
    <3>1. \A c \in Channels : dirs[c] = meta'[c]
      BY <1>1, <2>1, <2>2, <2>3, <2>5, DepotUnfold DEF UploadPlaced, Releases
    <3> QED
      BY <2>4, <3>1, DepotUnfold DEF Releases
  <2>6. validateVersionOrder(meta')
    BY <1>3
  <2>7. dirs' = dirs /\ torn' = torn /\ op' = NoOp
    BY <1>3
  <2> QED
    BY <1>1, <2>4, <2>5, <2>6, <2>7, DepotUnfold, EndsStep
<1> QED
  BY <1>2, <1>3 DEF UploadMeta

-----------------------------------------------------------------------------
(* Releases and rollbacks. *)
LEMMA SwitchBeginsStep ==
  ASSUME DepotInv, releaseDepot \/ rollbackDepot
  PROVE  DepotInv'
<1>1. PICK kind \in {"release", "rollback"} :
        /\ op = NoOp
        /\ op' = [kind |-> kind, at |-> "backup", current |-> meta,
                  todo |-> Paths(kind), applied |-> {}]
        /\ kind = "release" => meta["beta"] # NoBuild /\ meta["testing"] # NoBuild
        /\ kind = "rollback" => meta["rollback"] # NoBuild
        /\ meta' = meta /\ dirs' = dirs /\ baks' = baks /\ olds' = olds /\ torn' = torn
  <2>1. CASE releaseDepot
    BY <2>1 DEF releaseDepot, Begin, scanRelease, Paths
  <2>2. CASE rollbackDepot
    BY <2>2 DEF rollbackDepot, Begin, scanRelease, Paths
  <2> QED
    BY <2>1, <2>2
<1>2. Paths(kind) \subseteq Channels
  BY LayoutFacts
<1>3. /\ op' \in SwitchOp /\ op'.kind = kind /\ op'.current = meta /\ op'.at = "backup"
      /\ op'.todo = Paths(kind) /\ op'.applied = {}
  BY <1>1, <1>2, DepotUnfold DEF SwitchOp
<1>4. DepotTyped'
  BY <1>1, <1>3, DepotUnfold DEF DepotTyped, validateVersionOrder
<1>5. ReadStaysCurrent' /\ Targets'
  BY <1>1, <1>3, OpApart DEF ReadStaysCurrent, Targets
<1>6. UploadPlaced' /\ Moved' /\ PassedBy' /\ Agree'
  BY <1>3, OpApart DEF UploadPlaced, Moved, PassedBy, Agree
<1>7. ~torn => BackedUp'
  <2>1. ~torn => dirs = meta
    BY <1>1, DepotUnfold DEF Agree
  <2> QED
    BY <1>1, <1>3, <2>1 DEF BackedUp
<1> QED
  BY <1>1, <1>4, <1>5, <1>6, <1>7 DEF DepotInv

LEMMA BackupChannelStep ==
  ASSUME DepotInv, NEW c \in Channels, BackupChannel(c)
  PROVE  DepotInv'
<1> DEFINE L == DOMAIN Layout(op.kind)
           P == Paths(op.kind)
<1>1. /\ op.kind \in {"release", "rollback"} /\ op.at = "backup" /\ c \in op.todo
      /\ baks' = [baks EXCEPT ![c] = dirs[c]] /\ dirs' = [dirs EXCEPT ![c] = NoBuild]
      /\ op' = IF op.todo = {c} THEN [op EXCEPT !.at = "layout", !.todo = L]
               ELSE [op EXCEPT !.todo = @ \ {c}]
      /\ meta' = meta /\ olds' = olds /\ torn' = torn
  BY DEF BackupChannel, Switching
<1>2. op \in SwitchOp
  BY <1>1, OpIs
<1>3. /\ P \subseteq Channels /\ L \subseteq P
      /\ \A t \in L : Layout(op.kind)[t] \in P
  BY <1>1, LayoutFacts
<1>4. /\ dirs' \in Releases /\ baks' \in Releases /\ dirs'[c] = NoBuild /\ baks'[c] = dirs[c]
      /\ \A d \in Channels : d # c => dirs'[d] = dirs[d] /\ baks'[d] = baks[d]
  BY <1>1, DepotUnfold DEF Releases
<1>5. /\ op' \in SwitchOp /\ op'.kind = op.kind /\ op'.current = op.current /\ op'.applied = op.applied
      /\ \/ op.todo = {c} /\ op'.at = "layout" /\ op'.todo = L
         \/ op.todo # {c} /\ op'.at = "backup" /\ op'.todo = op.todo \ {c}
  <2> HIDE DEF L, P
  <2>1. op.todo \subseteq Channels /\ L \subseteq Channels
    BY <1>2, <1>3 DEF SwitchOp
  <2>2. CASE op.todo = {c}
    BY <1>1, <1>2, <2>1, <2>2 DEF SwitchOp
  <2>3. CASE op.todo # {c}
    BY <1>1, <1>2, <2>1, <2>3 DEF SwitchOp
  <2> QED
    BY <2>2, <2>3
<1>6. ASSUME ~torn PROVE BackedUp' /\ Moved' /\ PassedBy'
  <2>1. /\ op.applied = {} /\ op.todo \subseteq P
        /\ \A d \in Channels : \/ dirs[d] = meta[d] /\ d \notin P \ op.todo
                               \/ d \in P \ op.todo /\ dirs[d] = NoBuild /\ baks[d] = meta[d]
    BY <1>1, <1>2, <1>6, DepotUnfold DEF BackedUp
  <2>2. \A d \in Channels : \/ dirs'[d] = meta[d] /\ d \notin P \ (op.todo \ {c})
                            \/ /\ d \in P \ (op.todo \ {c})
                               /\ dirs'[d] = NoBuild /\ baks'[d] = meta[d]
    BY <1>1, <1>4, <2>1
  <2>3. CASE op'.at = "backup"
    BY <1>1, <1>5, <2>1, <2>2, <2>3 DEF BackedUp, Moved, PassedBy
  <2>4. CASE op'.at = "layout"
    <3>1. op.todo \ {c} = {} /\ op'.todo = L /\ op'.applied = {}
      BY <1>5, <2>1, <2>4
    <3>2. /\ \A d \in P : dirs'[d] = NoBuild /\ baks'[d] = meta[d]
          /\ \A d \in Channels \ P : dirs'[d] = meta[d]
      BY <1>3, <2>2, <3>1
    <3>3. BackedUp'
      BY <2>4 DEF BackedUp
    <3>4. Moved'
      BY <1>1, <1>3, <1>5, <3>1, <3>2 DEF Moved
    <3>5. PassedBy'
      BY <1>5, <2>4, <3>1 DEF PassedBy
    <3> QED
      BY <3>3, <3>4, <3>5
  <2> QED
    BY <1>5, <2>3, <2>4
<1>7. op.at # "cleanup" /\ op'.at # "cleanup" /\ Targets'
  BY <1>1, <1>2, <1>5, DepotUnfold DEF Targets
<1> QED
  BY <1>1, <1>2, <1>4, <1>5, <1>6, <1>7, DepotUnfold, SwitchesStep

LEMMA BackupFailsStep ==
  ASSUME DepotInv, NEW c \in Channels, BackupFails(c)
  PROVE  DepotInv'
<1>1. baks' \in Releases
  BY DepotUnfold DEF BackupFails, Releases
<1> QED
  BY <1>1, AbandonStep DEF BackupFails

LEMMA ApplyLayoutStep ==
  ASSUME DepotInv, NEW t \in Channels, ApplyLayout(t)
  PROVE  DepotInv'
<1> DEFINE L == DOMAIN Layout(op.kind)
           src == Layout(op.kind)[t]
           A == IF baks[src] = NoBuild THEN op.applied ELSE op.applied \cup {t}
           w == IF op.todo = {t} THEN "manifest" ELSE op.at
<1>1. /\ op.kind \in {"release", "rollback"} /\ op.at = "layout" /\ t \in op.todo
      /\ op' = [op EXCEPT !.todo = @ \ {t}, !.applied = A, !.at = w]
      /\ \/ baks[src] = NoBuild /\ dirs' = dirs /\ baks' = baks
         \/ /\ baks[src] # NoBuild /\ dirs' = [dirs EXCEPT ![t] = baks[src]]
            /\ baks' = [baks EXCEPT ![src] = NoBuild]
      /\ meta' = meta /\ olds' = olds /\ torn' = torn
  <2>1. op \in SwitchOp
    BY OpIs DEF ApplyLayout, Switching
  <2> QED
    BY <2>1 DEF ApplyLayout, Switching, SwitchOp
<1>2. op \in SwitchOp
  BY <1>1, OpIs
<1>3. /\ A \in SUBSET Channels /\ w \in {"layout", "manifest"}
      /\ w = "manifest" => op.todo = {t}
  BY <1>1, <1>2 DEF SwitchOp
<1>4. /\ baks[src] = NoBuild => A = op.applied
      /\ baks[src] # NoBuild => A = op.applied \cup {t}
  OBVIOUS
<1> HIDE DEF A, w
<1>5. /\ op' \in SwitchOp /\ op'.kind = op.kind /\ op'.current = op.current
      /\ op'.at = w /\ op'.todo = op.todo \ {t} /\ op'.applied = A
  BY <1>1, <1>2, <1>3 DEF SwitchOp
<1>6. /\ Paths(op.kind) \subseteq Channels /\ L \subseteq Paths(op.kind)
      /\ \A u \in L : Layout(op.kind)[u] \in Paths(op.kind)
      /\ \A u, v \in L : Layout(op.kind)[u] = Layout(op.kind)[v] => u = v
  BY <1>1, LayoutFacts
<1>7. dirs' \in Releases /\ baks' \in Releases
  <2>1. CASE baks[src] = NoBuild
    BY <1>1, <2>1, DepotUnfold
  <2>2. CASE baks[src] # NoBuild
    <3>1. src \in Channels
      BY <1>1, <1>2, <1>6, DepotUnfold DEF Targets
    <3> QED
      BY <1>1, <2>2, <3>1, DepotUnfold DEF Releases
  <2> QED
    BY <2>1, <2>2
<1>8. ASSUME ~torn PROVE BackedUp' /\ Moved' /\ PassedBy'
  <2>1. /\ op.applied \subseteq L /\ op.todo \subseteq L \ op.applied
        /\ \A u \in op.applied : /\ dirs[u] = meta[Layout(op.kind)[u]]
                                 /\ baks[Layout(op.kind)[u]] = NoBuild
        /\ \A u \in L \ op.applied :
             dirs[u] = NoBuild /\ baks[Layout(op.kind)[u]] = meta[Layout(op.kind)[u]]
        /\ \A c \in Paths(op.kind) \ L : dirs[c] = NoBuild
        /\ \A c \in Paths(op.kind) : \/ \E u \in L : Layout(op.kind)[u] = c
                                     \/ baks[c] = meta[c]
        /\ \A c \in Channels \ Paths(op.kind) : dirs[c] = meta[c]
        /\ \A u \in L \ (op.todo \cup op.applied) : meta[Layout(op.kind)[u]] = NoBuild
    BY <1>1, <1>2, <1>8, DepotUnfold DEF Moved, PassedBy, Targets
  <2>2. t \in L /\ t \notin op.applied /\ baks[src] = meta[src] /\ dirs[t] = NoBuild
    BY <1>1, <2>1
  <2>3. BackedUp'
    BY <1>3, <1>5 DEF BackedUp
  <2>4. CASE baks[src] = NoBuild
    <3>1. A = op.applied /\ dirs' = dirs /\ baks' = baks
      BY <1>1, <1>4, <2>4
    <3>2. Moved'
      BY <1>1, <1>5, <2>1, <3>1 DEF Moved
    <3>3. PassedBy'
      BY <1>1, <1>3, <1>5, <2>1, <2>2, <2>4, <3>1 DEF PassedBy
    <3> QED
      BY <2>3, <3>2, <3>3
  <2>5. CASE baks[src] # NoBuild
    <3> HIDE DEF src, L
    <3>1. src \in Channels /\ src \in Paths(op.kind)
      BY <1>6, <2>2 DEF src, L
    <3>2. /\ A = op.applied \cup {t} /\ dirs'[t] = meta[src] /\ baks'[src] = NoBuild
          /\ \A c \in Channels : c # t => dirs'[c] = dirs[c]
          /\ \A c \in Channels : c # src => baks'[c] = baks[c]
      BY <1>1, <1>4, <2>2, <2>5, <3>1, DepotUnfold DEF Releases
    <3>3. \A u \in L : u # t => Layout(op.kind)[u] # src
      BY <1>6, <2>2 DEF src
    <3>4. /\ A \subseteq L
          /\ \A u \in A : dirs'[u] = meta[Layout(op.kind)[u]] /\ baks'[Layout(op.kind)[u]] = NoBuild
      BY <1>6, <2>1, <2>2, <3>2, <3>3 DEF src
    <3>5. \A u \in L \ A :
            dirs'[u] = NoBuild /\ baks'[Layout(op.kind)[u]] = meta[Layout(op.kind)[u]]
      BY <1>6, <2>1, <2>2, <3>2, <3>3
    <3>6. /\ \A c \in Paths(op.kind) \ L : dirs'[c] = NoBuild
          /\ \A c \in Channels \ Paths(op.kind) : dirs'[c] = meta[c]
      BY <1>6, <2>1, <2>2, <3>2
    <3>7. \A c \in Paths(op.kind) : (\E u \in L : Layout(op.kind)[u] = c) \/ baks'[c] = meta[c]
      BY <1>6, <2>1, <2>2, <3>2 DEF src
    <3>8. Moved'
      BY <1>1, <1>5, <3>4, <3>5, <3>6, <3>7 DEF Moved, L
    <3>9. PassedBy'
      <4>1. op'.todo \subseteq L \ A /\ (w # "layout" => op'.todo = {})
        BY <1>3, <1>5, <2>1, <3>2
      <4>2. \A u \in L \ (op'.todo \cup A) : meta[Layout(op.kind)[u]] = NoBuild
        BY <1>5, <2>1, <3>2
      <4> QED
        BY <1>1, <1>5, <4>1, <4>2 DEF PassedBy, L
    <3> QED
      BY <2>3, <3>8, <3>9
  <2> QED
    BY <2>4, <2>5
<1>9. op.at # "cleanup" /\ op'.at # "cleanup" /\ Targets'
  <2>1. op.applied \subseteq L /\ op.todo \subseteq L
    BY <1>1, <1>2, DepotUnfold DEF Targets
  <2>2. A \subseteq L
    BY <1>1, <1>4, <2>1
  <2> QED
    BY <1>1, <1>3, <1>5, <2>1, <2>2 DEF Targets
<1> QED
  BY <1>1, <1>2, <1>5, <1>7, <1>8, <1>9, DepotUnfold, SwitchesStep

(* Only the place of a switch changes. *)
LEMMA PlaceStep ==
  ASSUME DepotInv, op.kind \in {"release", "rollback"},
         op.at \in {"layout", "manifest", "meta"}, NEW w \in {"meta", "unapply"},
         w = "meta" => op.at = "manifest",
         op' = [op EXCEPT !.at = w], UNCHANGED <<meta, dirs, baks, olds, torn>>
  PROVE  DepotInv'
<1>1. op \in SwitchOp
  BY OpIs
<1>2. /\ op' \in SwitchOp /\ op'.kind = op.kind /\ op'.current = op.current /\ op'.at = w
      /\ op'.todo = op.todo /\ op'.applied = op.applied
  BY <1>1 DEF SwitchOp
<1>3. Targets' /\ op.at # "cleanup" /\ op'.at # "cleanup"
  BY <1>1, <1>2, DepotUnfold DEF Targets
<1>4. ASSUME ~torn PROVE BackedUp' /\ Moved' /\ PassedBy'
  <2>1. BackedUp'
    BY <1>2 DEF BackedUp
  <2>2. Moved'
    BY <1>1, <1>2, <1>4, DepotUnfold DEF Moved
  <2>3. PassedBy'
    BY <1>1, <1>2, <1>4, DepotUnfold DEF PassedBy
  <2> QED
    BY <2>1, <2>2, <2>3
<1> QED
  BY <1>1, <1>2, <1>3, <1>4, DepotUnfold, SwitchesStep

LEMMA UndoStep ==
  ASSUME DepotInv, LayoutFails \/ RewriteManifests \/ MetadataFails
  PROVE  DepotInv'
<1>1. PICK w \in {"meta", "unapply"} :
        /\ op.kind \in {"release", "rollback"} /\ op.at \in {"layout", "manifest", "meta"}
        /\ w = "meta" => op.at = "manifest"
        /\ op' = [op EXCEPT !.at = w] /\ UNCHANGED <<meta, dirs, baks, olds, torn>>
  BY DEF LayoutFails, RewriteManifests, MetadataFails, Undo, Switching
<1> QED
  BY <1>1, PlaceStep

(* The new metadata describe what the two loops have moved. *)
LEMMA WriteMetadataStep ==
  ASSUME DepotInv, writeDepotMetadata
  PROVE  DepotInv'
<1> DEFINE m == NextMeta(op.kind, op.current)
<1>1. /\ op.kind \in {"release", "rollback"} /\ op.at = "meta" /\ validateVersionOrder(m)
      /\ meta' = m /\ op' = [op EXCEPT !.at = "cleanup"]
      /\ dirs' = dirs /\ baks' = baks /\ olds' = olds /\ torn' = torn
  BY DEF writeDepotMetadata, Switching
<1>2. op \in SwitchOp /\ op.current \in Releases
  BY <1>1, OpIs DEF SwitchOp
<1>3. op.current = meta
  BY <1>1, <1>2, DepotUnfold DEF ReadStaysCurrent
<1>4. op' \in SwitchOp /\ op'.at = "cleanup" /\ op'.kind = op.kind /\ op'.applied = op.applied
  BY <1>1, <1>2 DEF SwitchOp
<1>5. m \in Releases
  BY <1>1, <1>2, NextMetaFacts
<1>6. DepotTyped'
  BY <1>1, <1>4, <1>5, DepotUnfold DEF DepotTyped, validateVersionOrder
<1>7. ReadStaysCurrent' /\ Targets'
  BY <1>2, <1>4, OpApart, DepotUnfold DEF ReadStaysCurrent, Targets
<1>8. UploadPlaced' /\ BackedUp' /\ Moved' /\ PassedBy'
  BY <1>4, OpApart DEF UploadPlaced, BackedUp, Moved, PassedBy
<1>9. ASSUME ~torn PROVE dirs = m
  <2>1. \A t \in DOMAIN Layout(op.kind) : dirs[t] = meta[Layout(op.kind)[t]]
    <3>1. Moved /\ PassedBy
      BY <1>9, DepotUnfold
    <3>2. \A t \in DOMAIN Layout(op.kind) \ op.applied : meta[Layout(op.kind)[t]] = NoBuild
      BY <1>1, <1>2, <3>1 DEF PassedBy
    <3> QED
      BY <1>1, <1>2, <3>1, <3>2 DEF Moved
  <2>2. /\ \A c \in Paths(op.kind) \ DOMAIN Layout(op.kind) : dirs[c] = NoBuild
        /\ \A c \in Channels \ Paths(op.kind) : dirs[c] = meta[c]
    BY <1>1, <1>2, <1>9, DepotUnfold DEF Moved
  <2>3. \A c \in Channels : dirs[c] = m[c]
    BY <1>1, <1>2, <1>3, <2>1, <2>2, NextMetaFacts
  <2> HIDE DEF m
  <2> QED
    BY <1>5, <2>3, DepotUnfold DEF Releases
<1>10. ~torn' => Agree'
  BY <1>1, <1>9 DEF Agree
<1> QED
  BY <1>6, <1>7, <1>8, <1>10 DEF DepotInv

LEMMA CleanupBackupsStep ==
  ASSUME DepotInv, cleanupBackups
  PROVE  DepotInv'
<1>1. /\ op.kind \in {"release", "rollback"} /\ op.at = "cleanup" /\ op' = NoOp
      /\ meta' = meta /\ dirs' = dirs /\ olds' = olds /\ torn' = torn
  BY DEF cleanupBackups, Switching
<1>2. baks' \in Releases
  BY DepotUnfold DEF cleanupBackups, Releases
<1>3. op \in SwitchOp
  BY <1>1, OpIs
<1>4. ~torn' => dirs' = meta'
  BY <1>1, <1>3, DepotUnfold DEF Agree
<1> QED
  BY <1>1, <1>2, <1>4, DepotUnfold, OrderUnchanged, EndsStep

(* The undo of the second loop. *)
LEMMA RestoreAppliedStep ==
  ASSUME DepotInv, NEW t \in Channels, RestoreApplied(t)
  PROVE  DepotInv'
<1> DEFINE L == DOMAIN Layout(op.kind)
           src == Layout(op.kind)[t]
<1>1. /\ op.kind \in {"release", "rollback"} /\ op.at = "unapply" /\ t \in op.applied
      /\ op' = [op EXCEPT !.applied = @ \ {t}] /\ meta' = meta /\ olds' = olds
      /\ \/ /\ baks' = [baks EXCEPT ![src] = dirs[t]] /\ dirs' = [dirs EXCEPT ![t] = NoBuild]
            /\ torn' = torn
         \/ torn' = TRUE /\ baks' = baks /\ dirs' = dirs
  BY DEF RestoreApplied, Switching
<1>2. op \in SwitchOp
  BY <1>1, OpIs
<1>3. /\ op' \in SwitchOp /\ op'.kind = op.kind /\ op'.current = op.current /\ op'.at = "unapply"
      /\ op'.applied = op.applied \ {t}
  BY <1>1, <1>2 DEF SwitchOp
<1>4. /\ Paths(op.kind) \subseteq Channels /\ L \subseteq Paths(op.kind)
      /\ \A u \in L : Layout(op.kind)[u] \in Paths(op.kind)
      /\ \A u, v \in L : Layout(op.kind)[u] = Layout(op.kind)[v] => u = v
  BY <1>1, LayoutFacts
<1>5. op.applied \subseteq L /\ t \in L /\ src \in Paths(op.kind) /\ src \in Channels
  BY <1>1, <1>2, <1>4, DepotUnfold DEF Targets
<1>6. dirs' \in Releases /\ baks' \in Releases /\ torn' \in BOOLEAN
  <2> HIDE DEF src
  <2> QED
    BY <1>1, <1>5, DepotUnfold DEF Releases
<1>7. Targets' /\ op.at # "cleanup" /\ op'.at # "cleanup"
  BY <1>1, <1>3, <1>5 DEF Targets
<1>8. ASSUME ~torn' PROVE BackedUp' /\ Moved' /\ PassedBy'
  <2>1. /\ baks' = [baks EXCEPT ![src] = dirs[t]] /\ dirs' = [dirs EXCEPT ![t] = NoBuild] /\ ~torn
    BY <1>1, <1>8
  <2>2. BackedUp' /\ PassedBy'
    BY <1>3 DEF BackedUp, PassedBy
  <2>3. /\ \A u \in op.applied : /\ dirs[u] = meta[Layout(op.kind)[u]]
                                 /\ baks[Layout(op.kind)[u]] = NoBuild
        /\ \A u \in L \ op.applied :
             dirs[u] = NoBuild /\ baks[Layout(op.kind)[u]] = meta[Layout(op.kind)[u]]
        /\ \A c \in Paths(op.kind) \ L : dirs[c] = NoBuild
        /\ \A c \in Paths(op.kind) : \/ \E u \in L : Layout(op.kind)[u] = c
                                     \/ baks[c] = meta[c]
        /\ \A c \in Channels \ Paths(op.kind) : dirs[c] = meta[c]
    BY <1>1, <1>2, <2>1, DepotUnfold DEF Moved
  <2> HIDE DEF src, L
  <2>4. /\ dirs'[t] = NoBuild /\ baks'[src] = meta[src]
        /\ \A c \in Channels : c # t => dirs'[c] = dirs[c]
        /\ \A c \in Channels : c # src => baks'[c] = baks[c]
    <3>1. dirs[t] = meta[src]
      BY <1>1, <2>3 DEF src
    <3> QED
      BY <1>5, <2>1, <3>1, DepotUnfold DEF Releases
  <2>5. \A u \in L : u # t => Layout(op.kind)[u] # src
    BY <1>4, <1>5 DEF src
  <2>6. \A u \in op.applied \ {t} :
          dirs'[u] = meta[Layout(op.kind)[u]] /\ baks'[Layout(op.kind)[u]] = NoBuild
    BY <1>4, <1>5, <2>3, <2>4, <2>5
  <2>7. \A u \in L \ (op.applied \ {t}) :
          dirs'[u] = NoBuild /\ baks'[Layout(op.kind)[u]] = meta[Layout(op.kind)[u]]
    BY <1>4, <1>5, <2>3, <2>4, <2>5 DEF src
  <2>8. /\ \A c \in Paths(op.kind) \ L : dirs'[c] = NoBuild
        /\ \A c \in Channels \ Paths(op.kind) : dirs'[c] = meta[c]
    BY <1>4, <1>5, <2>3, <2>4
  <2>9. \A c \in Paths(op.kind) : (\E u \in L : Layout(op.kind)[u] = c) \/ baks'[c] = meta[c]
    BY <1>4, <1>5, <2>3, <2>4
  <2>10. Moved'
    BY <1>1, <1>3, <2>6, <2>7, <2>8, <2>9 DEF Moved, L
  <2> QED
    BY <2>2, <2>10
<1> QED
  BY <1>1, <1>2, <1>3, <1>6, <1>7, <1>8, DepotUnfold, SwitchesStep

(* Once nothing is applied, every backup is what the metadata name. *)
LEMMA RestoreBackupsStep ==
  ASSUME DepotInv, RestoreBackups
  PROVE  DepotInv'
<1> DEFINE P == Paths(op.kind)
           back == {c \in P : baks[c] # NoBuild /\ dirs[c] = NoBuild}
<1>1. /\ op.kind \in {"release", "rollback"} /\ op.at = "unapply" /\ op.applied = {}
      /\ op' = NoOp /\ meta' = meta /\ olds' = olds
  BY DEF RestoreBackups, Switching
<1>2. PICK done \in SUBSET back :
        /\ dirs' = [c \in Channels |-> IF c \in done THEN baks[c] ELSE dirs[c]]
        /\ baks' = [c \in Channels |-> IF c \in done THEN NoBuild ELSE baks[c]]
        /\ torn' = (torn \/ done # back)
  BY DEF RestoreBackups
<1>3. op \in SwitchOp
  BY <1>1, OpIs
<1>4. /\ P \subseteq Channels /\ DOMAIN Layout(op.kind) \subseteq P
      /\ \A t \in DOMAIN Layout(op.kind) : Layout(op.kind)[t] \in P
  BY <1>1, LayoutFacts
<1> HIDE DEF P
<1>5. dirs' \in Releases /\ baks' \in Releases /\ torn' \in BOOLEAN
  BY <1>2, DepotUnfold DEF Releases
<1>6. ASSUME ~torn' PROVE dirs' = meta'
  <2>1. ~torn /\ done = back
    BY <1>2, <1>6
  <2>2. Moved
    BY <2>1, DepotUnfold
  <2>3. \A c \in P : dirs[c] = NoBuild /\ baks[c] = meta[c]
    BY <1>1, <1>3, <2>2 DEF Moved, P
  <2>4. \A c \in Channels \ P : dirs[c] = meta[c]
    BY <1>1, <1>3, <2>2 DEF Moved, P
  <2>5. \A c \in Channels : dirs'[c] = meta[c]
    BY <1>2, <1>4, <2>1, <2>3, <2>4
  <2> QED
    BY <1>1, <1>5, <2>5, DepotUnfold DEF Releases
<1> QED
  BY <1>1, <1>5, <1>6, DepotUnfold, OrderUnchanged, EndsStep

-----------------------------------------------------------------------------
LEMMA InfoStep ==
  ASSUME DepotInv, PutDepotInfo \/ PutDepotInfoWrite
  PROVE  DepotInv'
<1>1. CASE PutDepotInfo
  <2>1. /\ op = NoOp /\ op' = [kind |-> "info", at |-> "meta", current |-> meta]
        /\ meta' = meta /\ dirs' = dirs /\ baks' = baks /\ olds' = olds /\ torn' = torn
    BY <1>1 DEF PutDepotInfo, Begin
  <2>2. op' \in InfoOp /\ op'.current = meta
    BY <2>1, DepotUnfold DEF InfoOp
  <2>3. DepotTyped'
    BY <2>1, <2>2, DepotUnfold DEF DepotTyped, validateVersionOrder
  <2>4. ReadStaysCurrent' /\ Targets'
    BY <2>1, <2>2, OpApart DEF ReadStaysCurrent, Targets
  <2>5. UploadPlaced' /\ BackedUp' /\ Moved' /\ PassedBy'
    BY <2>2, OpApart DEF UploadPlaced, BackedUp, Moved, PassedBy
  <2>6. ~torn' => Agree'
    BY <2>1, DepotUnfold DEF Agree
  <2> QED
    BY <2>3, <2>4, <2>5, <2>6 DEF DepotInv
<1>2. CASE PutDepotInfoWrite
  <2>1. /\ op.kind = "info" /\ meta' = op.current /\ op' = NoOp
        /\ dirs' = dirs /\ baks' = baks /\ olds' = olds /\ torn' = torn
    BY <1>2 DEF PutDepotInfoWrite
  <2>2. op \in InfoOp /\ meta' = meta /\ (~torn => dirs = meta)
    BY <2>1, OpIs, DepotUnfold DEF ReadStaysCurrent, Agree
  <2> QED
    BY <2>1, <2>2, DepotUnfold, OrderUnchanged, EndsStep
<1> QED
  BY <1>1, <1>2

LEMMA DepotStart == DepotInit => DepotInv
<1> SUFFICES ASSUME DepotInit PROVE DepotInv
  OBVIOUS
<1>1. /\ meta \in Releases /\ validateVersionOrder(meta) /\ dirs = meta
      /\ baks = Empty /\ olds = Empty /\ op = NoOp /\ torn = FALSE
  BY DEF DepotInit, Releases
<1>2. Empty \in Releases
  BY DEF Empty, Releases
<1>3. DepotTyped
  BY <1>1, <1>2 DEF DepotTyped
<1> QED
  BY <1>1, <1>3, OpApart DEF DepotInv, ReadStaysCurrent, Targets, UploadPlaced, BackedUp, Moved,
                             PassedBy, Agree

LEMMA DepotNextKeeps == DepotInv /\ [DepotNext]_depotVars => DepotInv'
<1> SUFFICES ASSUME DepotInv, [DepotNext]_depotVars PROVE DepotInv'
  OBVIOUS
<1>1. CASE UNCHANGED depotVars
  BY <1>1 DEF depotVars, DepotInv, DepotTyped, validateVersionOrder, ReadStaysCurrent, Targets,
              UploadPlaced, BackedUp, Moved, PassedBy, Agree
<1>2. CASE OpStarts
  BY <1>2, UploadTarStep, SwitchBeginsStep, InfoStep DEF OpStarts
<1>3. CASE UploadSwapFails
  BY <1>3, UploadSwapFailsStep
<1>5. CASE DepotCrash
  <2>1. Abandon /\ meta' = meta /\ dirs' = dirs /\ baks' = baks /\ olds' = olds
    BY <1>5 DEF DepotCrash
  <2> QED
    BY <2>1, AbandonStep, DepotUnfold
<1>4. CASE UploadPlaceFails
  BY <1>4, UploadUndoStep DEF UploadPlaceFails
<1> QED
  BY <1>1, <1>2, <1>3, <1>4, <1>5, UploadSwapStep, UploadPlaceStep, UploadMetaStep, BackupChannelStep,
     BackupFailsStep, ApplyLayoutStep, RestoreAppliedStep, UndoStep, WriteMetadataStep,
     CleanupBackupsStep, RestoreBackupsStep, InfoStep DEF DepotNext, OpStep

(* What the users see is the metadata. *)
LEMMA SeenIsMeta == DepotInv => Seen = meta
BY DepotUnfold DEF Seen, Agree

(* Every step leaves the metadata alone or is one of the abstract steps. *)
LEMMA MetaStep ==
  ASSUME DepotInv, [DepotNext]_depotVars
  PROVE  \/ meta' = meta
         \/ \E c \in Channels, b \in Builds :
              meta' = [meta EXCEPT ![c] = b] /\ validateVersionOrder(meta')
         \/ /\ meta["beta"] # NoBuild /\ meta["testing"] # NoBuild
            /\ meta' = NextMeta("release", meta)
         \/ /\ meta["rollback"] # NoBuild
            /\ meta' = NextMeta("rollback", meta) /\ validateVersionOrder(meta')
<1>1. CASE UploadMeta
  <2>1. op \in UploadOp /\ op.current = meta
    BY <1>1, OpIs, DepotUnfold DEF UploadMeta, ReadStaysCurrent
  <2>2. op.chan \in Channels /\ op.build \in Builds
    BY <2>1 DEF UploadOp
  <2> QED
    BY <1>1, <2>1, <2>2 DEF UploadMeta, UploadNext
<1>2. CASE writeDepotMetadata
  <2>1. /\ op.kind \in {"release", "rollback"} /\ op.at = "meta"
        /\ meta' = NextMeta(op.kind, op.current) /\ validateVersionOrder(meta')
    BY <1>2 DEF writeDepotMetadata, Switching
  <2>2. /\ op.current = meta
        /\ op.kind = "release" => meta["beta"] # NoBuild /\ meta["testing"] # NoBuild
        /\ op.kind = "rollback" => meta["rollback"] # NoBuild
    BY <2>1, OpIs, DepotUnfold DEF ReadStaysCurrent
  <2> QED
    BY <2>1, <2>2
<1>3. CASE PutDepotInfoWrite
  BY <1>3, OpIs, DepotUnfold DEF PutDepotInfoWrite, ReadStaysCurrent
<1>4. CASE UNCHANGED depotVars
  BY <1>4 DEF depotVars
<1>5. CASE OpStarts
  BY <1>5 DEF OpStarts, uploadTar, releaseDepot, rollbackDepot, PutDepotInfo
<1>6. CASE \/ UploadSwap \/ UploadSwapFails \/ UploadPlace \/ UploadPlaceFails
           \/ \E c \in Channels : \/ BackupChannel(c) \/ BackupFails(c)
                                  \/ ApplyLayout(c) \/ RestoreApplied(c)
           \/ LayoutFails \/ RewriteManifests \/ MetadataFails
           \/ cleanupBackups \/ RestoreBackups \/ DepotCrash
  BY <1>6 DEF UploadSwap, UploadSwapFails, UploadPlace, UploadPlaceFails, BackupChannel, BackupFails,
              ApplyLayout, RestoreApplied, LayoutFails, RewriteManifests, MetadataFails,
              cleanupBackups, RestoreBackups, DepotCrash
<1> QED
  BY <1>1, <1>2, <1>3, <1>4, <1>5, <1>6 DEF DepotNext, OpStep

LEMMA OrderedSame ==
  ASSUME NEW r \in Releases
  PROVE  validateVersionOrder(r) <=> Abstract!Ordered(r)
<1>1. \A a, b \in Builds : a >= b <=> b <= a
  BY DepotAssumption
<1>2. /\ r["stable"] \in Builds \cup {NoBuild} /\ r["beta"] \in Builds \cup {NoBuild}
      /\ r["testing"] \in Builds \cup {NoBuild}
  BY DEF Releases, Channels
<1> QED
  BY <1>1, <1>2 DEF validateVersionOrder, Abstract!Ordered

LEMMA ReleasedSame ==
  ASSUME NEW r \in Releases
  PROVE  /\ NextMeta("release", r) = Abstract!Released(r)
         /\ NextMeta("rollback", r) = Abstract!RolledBack(r)
<1>1. /\ NextMeta("release", r) \in Releases
      /\ NextMeta("release", r)["stable"] = r["beta"] /\ NextMeta("release", r)["beta"] = r["testing"]
      /\ NextMeta("release", r)["rollback"] = r["stable"]
      /\ NextMeta("release", r)["testing"] = NoBuild
  BY NextMetaFacts, LayoutTables DEF Channels
<1>2. /\ NextMeta("rollback", r) \in Releases
      /\ NextMeta("rollback", r)["stable"] = r["rollback"]
      /\ NextMeta("rollback", r)["rollback"] = r["stable"]
      /\ NextMeta("rollback", r)["beta"] = r["beta"]
      /\ NextMeta("rollback", r)["testing"] = r["testing"]
  BY NextMetaFacts, LayoutTables DEF Channels
<1>3. NextMeta("release", r) = Abstract!Released(r)
  BY <1>1 DEF Abstract!Released, Abstract!Channels, Releases, Channels
<1>4. NextMeta("rollback", r) = Abstract!RolledBack(r)
  BY <1>2 DEF Abstract!RolledBack, Releases, Channels
<1> QED
  BY <1>3, <1>4

(* The versions of the channels stay in order and the directories typed,   *)
(* whichever step of an upload, a release or a rollback fails              *)
(* (validateVersionOrder before every write of gizclaw/firmware).          *)
THEOREM DepotTypeCorrect == DepotSpec => []DepotTypeOK
<1>1. DepotInv => DepotTypeOK
  BY DepotUnfold DEF DepotTypeOK, Releases
<1> QED
  BY <1>1, DepotStart, DepotNextKeeps, PTL DEF DepotSpec

(* Uploads, releases and rollbacks change the depot completely or not at   *)
(* all: the directories moved one by one, their undo and the metadata      *)
(* implement the atomic depot (uploadTar, prepareSwitch, restore and       *)
(* writeDepotMetadata of gizclaw/firmware).                                *)
THEOREM DepotIsAtomic == DepotSpec => ImplementsAtomicDepot
<1>1. DepotInit => Abstract!Init
  <2> SUFFICES ASSUME DepotInit PROVE Abstract!Init
    OBVIOUS
  <2>1. Seen = meta /\ meta \in Releases /\ validateVersionOrder(meta)
    BY DepotStart, SeenIsMeta, DepotUnfold
  <2>2. Abstract!Ordered(meta)
    BY <2>1, OrderedSame
  <2> QED
    BY <2>1, <2>2 DEF Abstract!Init, Releases, Abstract!Channels, Channels
<1>2. DepotInv /\ DepotInv' /\ [DepotNext]_depotVars => [Abstract!Next]_Seen
  <2> SUFFICES ASSUME DepotInv, DepotInv', [DepotNext]_depotVars PROVE [Abstract!Next]_Seen
    OBVIOUS
  <2>1. Seen = meta /\ Seen' = meta' /\ meta \in Releases /\ meta' \in Releases
    <3>1. Seen' = meta'
      BY DEF DepotInv, Seen, Agree
    <3>2. meta' \in Releases
      BY DEF DepotInv, DepotTyped
    <3> QED
      BY <3>1, <3>2, SeenIsMeta, DepotUnfold
  <2>2. CASE meta' = meta
    BY <2>1, <2>2
  <2>3. ASSUME NEW c \in Channels, NEW b \in Builds,
               meta' = [meta EXCEPT ![c] = b], validateVersionOrder(meta')
        PROVE  Abstract!Next
    <3>1. Abstract!Ordered(meta')
      BY <2>1, <2>3, OrderedSame
    <3>2. Abstract!Put(c, b)
      BY <2>1, <2>3, <3>1 DEF Abstract!Put, Abstract!Ordered
    <3> QED
      BY <3>2 DEF Abstract!Next, Abstract!Channels, Channels
  <2>4. CASE /\ meta["beta"] # NoBuild /\ meta["testing"] # NoBuild
             /\ meta' = NextMeta("release", meta)
    BY <2>1, <2>4, ReleasedSame DEF Abstract!Next, Abstract!Release
  <2>5. CASE /\ meta["rollback"] # NoBuild
             /\ meta' = NextMeta("rollback", meta) /\ validateVersionOrder(meta')
    <3>1. Abstract!Ordered(meta')
      BY <2>1, <2>5, OrderedSame
    <3>2. Abstract!Rollback
      BY <2>1, <2>5, <3>1, ReleasedSame DEF Abstract!Rollback, Abstract!Ordered
    <3> QED
      BY <3>2 DEF Abstract!Next
  <2> QED
    BY <2>2, <2>3, <2>4, <2>5, MetaStep
<1> QED
  BY <1>1, <1>2, DepotStart, DepotNextKeeps, PTL
     DEF DepotSpec, ImplementsAtomicDepot, Abstract!Spec
=============================================================================
