---------------------------- MODULE MCComponents ----------------------------
(***************************************************************************)
(* Small instances of the components that share no state with one another: *)
(* the noise session, the point-to-point Conn, its Listener with the       *)
(* SessionManager, the ServiceMux of a peer, the giznet Listener; of the   *)
(* server the gear store, the peer manager on top of it, the firmware      *)
(* depot and the public login; the buffers of the streams, and of audio    *)
(* the ring of a track and a mixer with several readers.  A behaviour runs *)
(* one of them, the one in focus; the others stay as they were made.       *)
(***************************************************************************)
EXTENDS CoreConn, CoreListener, ServiceMux, GiznetListener, PeerManager, FirmwareDepot,
        PublicLogin, Buffers, NoiseSession, PcmMixer, TrackRing

CONSTANT Focus    \* the components this instance runs

VARIABLE focus

(* Links are interchangeable: they are numbered as they come through MarkPeerOnline or
   end without it.  No behaviour is lost up to a renaming of links. *)
LinkNumber == CHOOSE n \in [Links -> 1 .. Cardinality(Links)] :
                \A l, m \in Links : n[l] = n[m] => l = m
LinksInOrder ==
  \A l, m \in Links :
    LinkNumber[l] < LinkNumber[m] /\ serve'[m] \in {"online", "ended"} =>
      serve'[l] \in {"online", "ended"}

networkVars == <<connVars, listenerVars, smVars, gizVars>>
serverVars == <<peerVars, depotVars, loginVars, bufVars>>
mediaVars == <<vars, mixerVars, ringVars>>
allVars == <<networkVars, serverVars, mediaVars, focus>>

AllInit ==
  /\ focus \in Focus
  /\ newConn /\ ListenerInit /\ ServiceMuxInit /\ Listen
  /\ GearStoreInit /\ NewManager /\ DepotInit /\ NewLoginManager
  /\ NewBuffer /\ Init /\ MixerInit /\ TrackRingInit
  /\ focus # "depot" => \A c \in DOMAIN meta : meta[c] = NoBuild
  /\ focus # "buffer" => bkind = CHOOSE k \in BufKinds : TRUE
  /\ focus # "login" => \A a \in Assertions : exp[a] = MaxClock

NetworkNext ==
  \/ focus = "conn" /\ ConnNext /\ UNCHANGED <<listenerVars, smVars, gizVars>>
  \/ focus = "listener" /\ ListenerNext /\ UNCHANGED <<connVars, smVars, gizVars>>
  \/ focus = "services" /\ ServiceMuxNext /\ UNCHANGED <<connVars, listenerVars, gizVars>>
  \/ focus = "giznet" /\ GiznetNext /\ UNCHANGED <<connVars, listenerVars, smVars>>

ServerNext ==
  \/ focus = "gears" /\ GearStoreNext /\ UNCHANGED <<peerOnly, depotVars, loginVars, bufVars>>
  \/ focus = "peers" /\ PeerNext /\ UNCHANGED <<depotVars, loginVars, bufVars>> /\ LinksInOrder
  \/ focus = "depot" /\ DepotNext /\ UNCHANGED <<peerVars, loginVars, bufVars>>
  \/ focus = "login" /\ LoginNext /\ UNCHANGED <<peerVars, depotVars, bufVars>>
  \/ focus = "buffer" /\ BufNext /\ UNCHANGED <<peerVars, depotVars, loginVars>>

MediaNext ==
  \/ focus = "session" /\ Next /\ UNCHANGED <<mixerVars, ringVars>>
     /\ (corrupted' > 0 => calls' <= 2)   \* bound: a corrupted packet among the first calls
     /\ (calls' > 4 => \E w \in Workers : wpc'[w] = "idle")   \* bound: overlap of workers
  \/ focus = "mixer" /\ MixerNext /\ UNCHANGED <<vars, ringVars>>
     /\ \A t \in Tracks : ~track'[t].fade
  \/ focus = "ring" /\ TrackRingNext /\ UNCHANGED <<vars, mixerVars>>

AllNext ==
  \/ NetworkNext /\ UNCHANGED <<serverVars, mediaVars, focus>>
  \/ ServerNext /\ UNCHANGED <<networkVars, mediaVars, focus>>
  \/ MediaNext /\ UNCHANGED <<networkVars, serverVars, focus>>

AllSpec == AllInit /\ [][AllNext]_allVars

(* Every variable of the components has its type. *)
AllTypeOK ==
  /\ ConnTypeOK /\ ManagerTypeOK /\ ListenerTypeOK /\ ServiceMuxTypeOK /\ GiznetTypeOK
  /\ GearStoreTypeOK /\ PeerTypeOK /\ DepotTypeOK /\ LoginTypeOK /\ BufTypeOK
  /\ TypeOK /\ MixerTypeOK /\ RingTypeOK
=============================================================================
