---------------------------- MODULE PeerManager -----------------------------
(***************************************************************************)
(* Manager (gizclaw/manager.go) and PeerService.ServeConn: which           *)
(* connection a device is reached by.  Every connection is served by a     *)
(* goroutine of its own that ensures a gear record, marks the peer online  *)
(* and, at its end, offline; a device that reconnects is served twice for  *)
(* a while.  RefreshGear loads the record, asks the device over the active *)
(* connection and stores the whole record again.                           *)
(*                                                                         *)
(* lastSeenAt, which TouchPeer sets, is only reported and left out.  A     *)
(* link is one call of ServeConn: the accept loop calls it once more for a *)
(* Conn that giznet's Listener hands out again (server.go:132,             *)
(* giznet/listener.go:73), which is left out.                              *)
(***************************************************************************)
EXTENDS GearStore

CONSTANTS
  Device,     \* the gear whose connections are modelled
  NoLink

ASSUME PeerManagerAssumption == Device \in Gears /\ NoLink \notin Links

VARIABLES
  activePeer,  \* activePeers[Device]: its conn and whether it has a client, or NoLink
  serve,       \* connection -> where ServeConn is
  refresh,     \* request -> where RefreshGear is, before the record is stored
  lastMark,    \* history: the connection that was marked online last
  givenUp      \* history: connections RefreshGear found disconnected

peerOnly == <<activePeer, serve, refresh, lastMark, givenUp>>
peerVars == <<storeVars, peerOnly>>

Offline == [conn |-> NoLink, client |-> FALSE]

NewManager ==
  /\ activePeer = Offline
  /\ serve = [l \in Links |-> "new"]
  /\ refresh = [r \in Requests |-> NoRequest]
  /\ lastMark = NoLink
  /\ givenUp = {}

-----------------------------------------------------------------------------
(* ServeConn *)
ServeConn(l) ==
  /\ serve[l] = "new"
  /\ IF gears[Device] # NoGear
       THEN serve' = [serve EXCEPT ![l] = "mark"] /\ UNCHANGED storeVars
       ELSE serve' = [serve EXCEPT ![l] = "ensure"] /\ EnsureConnectedGear(l, Device)
  /\ UNCHANGED <<activePeer, refresh, lastMark, givenUp>>

EnsurePeerGear(l) ==
  /\ serve[l] = "ensure" /\ req[l].at = "idle"
  /\ serve' = [serve EXCEPT ![l] = "mark"]
  /\ UNCHANGED <<storeVars, activePeer, refresh, lastMark, givenUp>>

(* The record could not be stored: the connection is not served *)
EnsureFails(l) ==
  /\ serve[l] = "ensure"
  /\ StoreFails(l)
  /\ serve' = [serve EXCEPT ![l] = "ended"]
  /\ UNCHANGED <<activePeer, refresh, lastMark, givenUp>>

MarkPeerOnline(l) ==
  /\ serve[l] = "mark"
  /\ serve' = [serve EXCEPT ![l] = "online"]
  /\ activePeer' = [conn |-> l, client |-> FALSE]
  /\ lastMark' = l
  /\ UNCHANGED <<storeVars, refresh, givenUp>>

(* mutant: whoever leaves takes the peer offline *)
MarkPeerOfflineAny(l) == activePeer' = Offline

MarkPeerOffline(l) == activePeer' = IF activePeer.conn = l THEN Offline ELSE activePeer

ServeEnds(l) ==
  /\ serve[l] = "online"
  /\ serve' = [serve EXCEPT ![l] = "ended"]
  /\ MarkPeerOffline(l)
  /\ UNCHANGED <<storeVars, refresh, lastMark, givenUp>>

-----------------------------------------------------------------------------
(* RefreshGear *)
LoadGear(r) ==
  /\ req[r].at = "idle" /\ refresh[r].at = "idle" /\ gears[Device] # NoGear
  /\ refresh' = [refresh EXCEPT ![r] = [at |-> "active", gear |-> gears[Device]]]
  /\ UNCHANGED <<storeVars, activePeer, serve, lastMark, givenUp>>

ActivePeer(r) ==
  /\ refresh[r].at = "active"
  /\ refresh' = [refresh EXCEPT ![r] =
       IF activePeer = Offline THEN NoRequest
       ELSE [at |-> "client", gear |-> @.gear, conn |-> activePeer.conn]]
  /\ UNCHANGED <<storeVars, activePeer, serve, lastMark, givenUp>>

peerPublicClientForConn(r) ==
  /\ refresh[r].at = "client"
  /\ IF activePeer.conn # refresh[r].conn
       THEN refresh' = [refresh EXCEPT ![r] = NoRequest] /\ UNCHANGED activePeer
       ELSE /\ activePeer' = [activePeer EXCEPT !.client = TRUE]
            /\ refresh' = [refresh EXCEPT ![r].at = "ask"]
  /\ UNCHANGED <<storeVars, serve, lastMark, givenUp>>

(* The device answers: something is new and is saved, or there is nothing to save.  What
   it does not report stays as it was. *)
RefreshSave(r, ids) ==
  /\ refresh[r].at = "ask" /\ (ids = {} => refresh[r].gear.ids = {})
  /\ Goto(r, "put", Device, [refresh[r].gear EXCEPT !.ids = ids])
  /\ refresh' = [refresh EXCEPT ![r] = NoRequest]
  /\ UNCHANGED <<gears, byId, gearMu, activePeer, serve, lastMark, givenUp>>

RefreshNothing(r) ==
  /\ refresh[r].at = "ask"
  /\ refresh' = [refresh EXCEPT ![r] = NoRequest]
  /\ UNCHANGED <<storeVars, activePeer, serve, lastMark, givenUp>>

(* ErrDeviceOffline: the connection that was asked is gone *)
RefreshOffline(r) ==
  /\ refresh[r].at = "ask"
  /\ MarkPeerOffline(refresh[r].conn)
  /\ givenUp' = givenUp \cup {refresh[r].conn}
  /\ refresh' = [refresh EXCEPT ![r] = NoRequest]
  /\ UNCHANGED <<storeVars, serve, lastMark>>

(* Whoever is storing a record goes on *)
StoreStep(r) ==
  /\ \/ create(r) \/ put(r) \/ writeGear(r)
     \/ r \in Requests /\ StoreFails(r)
  /\ UNCHANGED peerOnly

PeerNext ==
  \/ \E l \in Links : \/ ServeConn(l) \/ EnsurePeerGear(l) \/ EnsureFails(l)
                     \/ MarkPeerOnline(l) \/ ServeEnds(l)
  \/ \E r \in Requests :
       \/ LoadGear(r) \/ ActivePeer(r) \/ peerPublicClientForConn(r)
       \/ RefreshNothing(r) \/ RefreshOffline(r)
       \/ \E ids \in SUBSET Identifiers : RefreshSave(r, ids)
  \/ \E a \in Actors : StoreStep(a)

PeerSpec == GearStoreInit /\ NewManager /\ [][PeerNext]_peerVars

-----------------------------------------------------------------------------
(* Types; the record exists before its peer is online. *)
PeerTypeOK ==
  /\ activePeer \in [conn: Links \cup {NoLink}, client: BOOLEAN]
  /\ serve \in [Links -> {"new", "ensure", "mark", "online", "ended"}]
  /\ givenUp \subseteq Links
  /\ activePeer # Offline => gears[Device] # NoGear

(* The device is reached by the connection that came online last, as long as that one
   is served and no refresh found it dead: the end of an older connection, or a refresh
   that failed on one, neither takes it offline nor leaves a dead one behind. *)
LatestConnActive ==
  activePeer.conn = IF lastMark # NoLink /\ serve[lastMark] = "online" /\ lastMark \notin givenUp
                    THEN lastMark ELSE NoLink
=============================================================================
