# Formal models of gizclaw-go

TLA+ models, TLC configurations and TLAPS proofs for the concurrent parts of
`gizclaw-go`: the encrypted UDP transport in `pkg/giznet`, and the state the server keeps
about its devices in `pkg/gizclaw` (gear records, active peers, firmware depots, logins), with
the buffers and the audio mixer that its streams of media pass through.
Every definition is translated from the source; `PROJECT.json` ("map") names the lines
each one stands for.

## 1. Inventory

The repository is a Go server, client and agent runtime. All traffic between devices and
the server goes over `giznet`, a stack of small concurrent components:

```
 gizclaw server / client          HTTP and RPC handlers, gear and firmware stores
        |  streams, datagrams
 giznet.Listener / Conn           peer events -> Accept, one Conn per service-mux generation
        |
 core.ServiceMux                  services of a peer, a KcpMux each
        |
 kcp.KcpMux -> kcp.KCPConn        OPEN/DATA/CLOSE frames -> one KCP instance per stream
        |
 core.UDP                         peer table, handshakes, receive pipeline, Close
        |
 noise.Session, ReplayFilter      transport encryption, nonces, replay window
        |
      UDP socket
```

| component | state | operations | hard behaviour | correct when |
|---|---|---|---|---|
| `noise` replay filter | bitmap of words, `maxNonce` | `CheckAndUpdate` | word and bit shifts with carry; many workers | it accepts exactly the fresh nonces of the window |
| `noise.Session` | send counter, filter, state | `Encrypt`, `Decrypt`, `Expire` | concurrent callers outside the lock; lossy, duplicating network; counter at its limit | no nonce is used twice, nothing is delivered twice |
| `core.UDP` peer table | `peers`, `byIndex`, `pending`, sessions, mux pointer | handshake handlers, `Connect`, transport handler, `Close`, mux generations | handlers split over two locks; duplicated responses; timeout against a late answer; `Close` while workers run | live sessions stay routed, a mux implies a session, no mux is forgotten, `Close` returns |
| `core.UDP` receive pipeline | packet pool, reference counts, two bounded queues | `ioLoop`, dispatch, `decryptWorker`, `ReadPacket` | structs shared by three goroutines and reused; full queues; shutdown | no use after release, no leak, order kept, no stuck reader |
| `kcp.KCPConn` | channels, receive buffer, condition variable, close flags | `Read`, `Write`, `Input`, `runLoop`, deadlines, `Close` | lost wake-ups; `runLoop` closing itself; abandoned writes | the stream is conserved, calls return |
| `kcp.KcpMux` | stream table, accept queue, active count, idle timers | `Open`, `Accept`, frame input, stream `Close`, `StopAccepting`, `Close` | late and duplicated frames, id reuse, stale timers | the active count is exact, queued streams are reachable, closed ones leave, `Accept` returns |
| `core.ServiceMux` | services, their `KcpMux`, accepting flags | get or create, `CloseService`, `StopAcceptingService`, `Close` | double-checked creation against close | what was ended stays ended |
| `giznet.Listener`, `Conn` | event queue, established map | `Accept`, `Dial`, `Close`, release | dropped events, stale generations, overlapping look-ups | a peer has one active `Conn` |
| `core.Conn` | current and previous session, pending handshake | `Dial`, accept, `Send`, `Recv`, `Tick`, rekey, `Close` | simultaneous rekeys, late responses, a tick that acts on an old decision | a handshake becomes one session, which has the index its initiation named |
| `core.Listener`, `SessionManager` | routes, accept queue; sessions by index and by key | receive loop, `Accept`, `Close`; create, register, remove, expire | closing channels under a sender; index reuse | the two maps are inverse |
| `pkg/buffer` | storage, head, tail, condition variable or notify channel | `Read`, `Write`, `Next`, `Add`, `Discard`, `Reset`, closes | one condition for two sides; copying over the end, overwriting | FIFO, a ring keeps the latest, nobody sleeps with work to do |
| `gizclaw` gear store | records and indices in a KV store | ensure, register, approve, block, change, delete | read-modify-write, two transactions, failures, crashes | indices point to records that agree, creation replaces nothing |
| `gizclaw` peer manager | active connection of a gear | `ServeConn`, `RefreshGear` | a device that reconnects is served twice | the latest connection is the active one |
| `gizclaw` firmware depot | channel directories and metadata | upload, info, release, rollback | several renames, then metadata; failing undo; crashes | a change happens completely or not at all |
| `gizclaw` public login | used assertions, sessions | login | two uses at once, expiry, restart | an assertion opens one session |
| `pkg/audio/pcm` mixer | list of tracks, their inputs with a ring each, notify channels, silence | `CreateTrack`, `Write`, track and mixer closes, fades, `Mixer.Read` | a `Read` that unlocks between look and drop, waits and callback; writers that share one token | native audio at the head is played, sleepers are woken, a removed track is reported once, a ring is a FIFO |
| stores, agent, genx, codecs, cmd | - | - | sequential, numeric or I/O bound | not a target of this project |

`PROJECT.json` lists every component with its status, and under "hazards" what can go
wrong at which line. Each hazard names the properties that watch it, or says why none does.

## 2. Modules

| module | models | role |
|---|---|---|
| `ReplayWindow` | `noise/replay.go` | pure operators; a word is the set of its 1-bits, so shifts and carry are kept |
| `AntiReplay` | - | abstract specification: an at-most-once channel |
| `NoiseSession` | `noise/session.go` | state machine over `ReplayWindow`; implements `AntiReplay` |
| `NoiseSessionProofs`, `UDPPeersProofs`, `PacketPipelineProofs`, `KcpProofs`, `CoreProofs`, `ServerProofs`, `BuffersProofs`, `MixerProofs` | - | theorems about the modules they extend (section 4) |
| `UDPPeers` | `core/udp.go`, `core/peer.go` | peer table, handshakes, mux generations, `Close` |
| `PacketPipeline` | `core/udp.go` | packet ownership from socket to `ReadPacket` |
| `KCPConn` | `kcp/conn.go` | stream connection around `runLoop` |
| `KcpMux` | `kcp/kcp_mux.go` | the streams of one service |
| `ServiceMux` | `core/service_mux.go` | the services of one peer |
| `CoreConn` | `core/conn.go`, `core/dial.go` | one point-to-point connection and its rekeys |
| `SessionManager` | `core/manager.go` | sessions by index and by key |
| `CoreListener` | `core/listener.go` | receive loop and `Close`; extends `SessionManager` |
| `GiznetListener` | `giznet/listener.go`, `giznet/conn.go` | the handles an application has for its peers |
| `GearStore` | `gizclaw/gear/store_ops.go` | gear records and the indexes by serial number and IMEI |
| `PeerManager` | `gizclaw/manager.go` and `ServeConn` | active connections; extends `GearStore` |
| `AtomicDepot` | - | abstract specification: releases that change at once |
| `FirmwareDepot` | `gizclaw/firmware` | renames, undo and metadata; implements `AtomicDepot` |
| `PublicLogin` | `gizclaw/publiclogin/server.go` | assertions, sessions and their expiry |
| `Buffers` | `pkg/buffer` | `BlockBuffer`, `RingBuffer` and `Buffer` |
| `PcmMixer` | `audio/pcm/mixer.go`, `track.go`, `track_ctrl.go`, and `Soxr.Read` | tracks, writers and `Mixer.Read` |
| `AudioFifo` | - | abstract specification: a bounded queue of samples |
| `TrackRing` | `trackRingBuf` of `audio/pcm/track.go` | the storage of an input with its indices; implements `AudioFifo` |
| `MC*` | - | instances for TLC |

**NoiseSession.** `Encrypt` is three actions (state check under the lock; the atomic
`Add`, with the exhaustion test; the seal), `Decrypt` three (state check; `CheckAndUpdate`
under the filter's mutex; `Open`). `sealed` and `delivered` count uses per nonce and are
history variables. The network is the set of sealed packets, from which any copy may arrive
at any time, plus a bounded number of packets that fail authentication; as in the code these
consume their nonce. The counter has width `NonceMod` (2^64 in the code).

**UDPPeers.** One action is one critical section of `u.mu` or `peer.mu`. A goroutine's
locals between two sections are in `goroutine[g]`. `session` and `previous` hold the local
index of a session, `mux` a generation number (0 is nil). Both handshake handlers share
`InstallSession` and `RegisterIndex`, which are the same code twice. Indices are unique
(`GenerateIndex` draws 32 random bits; collisions are ignored). The remote is the
environment. `Close` is: set `closing` and take the snapshot, close the muxes, clear the
pointers and set `closed`, wait for the workers. Abstractions: the snapshot is one step
although the code visits peers one by one; a handler may start between `closed` and a
worker's exit, as the `select` in `decryptWorker` allows; the `ioLoop` goroutine, which
`Close` also waits for, is in `PacketPipeline`.

**PacketPipeline.** One action is one step another goroutine can see. `sync.Pool` is a
finite set of structs that is never emptied by the collector; `BatchSize` 1 is
`ioLoopSingle`. `processPacket` is a choice between data and error here; its effects on peers are
in `UDPPeers`. `closed` and `closeChan` are set in one step; datagrams may still be read
afterwards until the socket is closed, and dispatch then meets the closed channel.

**KCPConn.** `sync.Cond` is modelled as Go implements it: `Wait` takes a ticket while the
mutex is held, `Broadcast` wakes the ticket holders and needs no mutex. The KCP library
is external: a FIFO from `Input` to `Recv`, and a log of `Send`. `Recv` fails on a message
longer than its buffer (`LargeUnits`), and `Send` may refuse. A unit of data is a message; a
`Read` takes any number of them. The poll timer is a stuttering step. The write deadline
is an arbitrary timeout; the read deadline is compared with a bounded clock. `MaxUnits` bounds what
`Input` accepts and stops `Input` at the place where it queues a unit.

**KcpMux.** One action is one critical section of `KcpMux.mu`. The remote is the environment:
any frame may arrive at any time, which includes loss, duplication, reordering and frames of
streams long gone. Entries are named by incarnation, because timers and calls that captured a
stream id may find another entry under it; ids are computed modulo `IdSpace`. Frames sent to the
remote are not recorded, only whether the send failed. Data inside a stream is in `KCPConn`.

**ServiceMux.** A call is: find or make the `serviceState`, then make its `KcpMux` under the
lock with a second test, then use it; `CloseService`, `StopAcceptingService` and `Close` go on
beside it. Of a `KcpMux` only "open" and "accepting" are kept here.

**CoreConn.** One end of a connection, made by `Dial` or by a listener. `Recv`, the maintenance tick,
a background rekey, senders and `Close` run at the same time. The tick decides under the read lock and
acts later, as in the code. Time is not modelled: what may have expired is a choice. A handshake
and the index drawn for it are one fresh number; a retransmission is a new handshake with the
old index. Every initiation sent may be answered at any time and any number of times, and a response that
answers none may come under the index that is waited for: it fails to verify.

**SessionManager, CoreListener.** The manager's two maps are one map in each direction between
indices and keys. The listener's receive loop reads, routes and delivers in separate steps;
`Close` closes each inbound channel and each connection in separate steps while it holds the
lock. Random local indices of connections may coincide.

**GiznetListener.** The layer below is reduced to the generation number of a peer's service mux,
as in `UDPPeers`. `Accept` and `Dial` look up, make and register a handle in the code's
order; an event that finds the queue full is lost.

**GearStore, PeerManager.** A request holds a copy of the record between reading and storing it.
Storing is two transactions (stale index entries out, then record and entries in) under the
server's lock; each may fail, and a crash drops all goroutines between any two steps. Serial
number and IMEIs of a gear are one set of identifiers, and `byId` stands for `by-sn` and `by-imei`,
the two indexes whose keys do not end in the public key, so that two gears can compete for an entry. The
other indexes are left out. `PeerManager` adds
the connections of one device and `RefreshGear`, which stores a record it loaded before it
asked the device. A link is one call of `ServeConn`; the accept loop may serve a `Conn` twice, when the
giznet `Listener` hands it out for a second event (`giznet/listener.go:73`), and this is left out.

**FirmwareDepot, AtomicDepot.** An operation holds the depot's lock and moves directories one
rename at a time, in any order of Go's maps; each step may fail, the undo as well, and the
server may crash. The refinement maps the abstract `releases` to `Seen`: the directories while no
operation runs, the metadata during one. Between operations it therefore demands that directories
and metadata agree. Three ends are excepted, after which only the metadata must change atomically:
a crash, a failed undo, and an error in the first loop of `prepareSwitch`, which has no undo. The
model notes such an end in `torn` at the step that makes it; an undo that succeeds does not, also that of an
upload, so it must bring the directories back to the metadata.

**PublicLogin.** The clock is read before the lock and compared with claims and key deadlines, so
expiry may fall between any two steps; a restart drops the requests and keeps the store. The wall
clock does not go back.

**Buffers.** The n-th value written is the number n, so order, loss and duplication can be seen in the
storage. The copies of `Read` and `Write` are kept slice by slice, with their wrap-around and, for
`RingBuffer`, the overwriting of whole turns. `sync.Cond` is a queue of sleepers that `Signal`
wakes from the front; `writeNotify` is a channel of one token. `Next` is `Read` of one value, and `Add` of
`BlockBuffer` and `Buffer` is `Write` of one; `RingBuffer.Add` has code of its own.

**PcmMixer.** A `Read` is: take `mx.mu`, look at the list (or end, or give silence, or wait for a track), go round the
tracks with the lock held, report what was removed without it, and return or wait for a write. Inside a track the look at
the ring, which takes `trb.mu` alone, and the drop of the input that follows are two steps, and so are the last look at a track and
its removal: writers and closes run between them. An input has its format, a number of units in its ring, the token of
`readNotify` and, for other formats than the output's, what the resampler has left over. The resampler is external: from what
it reads it makes any number of units, or fails, and an empty ring is its end of file, as `readAndProcess` has it, unless the
ring was closed within a sample (`split`), which is an error. An error removes the track. Making an input for another format may fail too, after the last
one was closed (`NewInputFails`). Inputs that were dropped
stay in the model's sequence, before `first`, so that what was lost in them can be seen. `MixerCloseWrite` and
`MixerCloseWithError` visit all tracks in one step, since they hold `mx.mu` and a track is locked by one call at a time.
The gains and the sums of samples are left out: a frame is data or silence.

**TrackRing, AudioFifo.** `PcmMixer` counts units; `TrackRing` keeps the values, with `head`, with `tail` that runs up to a turn
ahead, and with the two copies of `write` and of `read`. The refinement reads the queue off the storage (`Queued`) and says
that a write appends as much of its slice as fits and a read takes the oldest.

**Instances.** The components `NoiseSession`, `CoreConn`, `CoreListener`, `ServiceMux`, `GiznetListener`, `GearStore`,
`PeerManager`, `FirmwareDepot`, `PublicLogin`, `Buffers`, `TrackRing` and, with several readers, `PcmMixer` share no state
with one another, so
`MCComponents` runs one of them in each behaviour (`focus`) and a single TLC run checks them all.
`MCKCPConn` likewise chooses per behaviour between the reading side and the writing side; the runs
about its findings use all methods where they need them. `MCKcpMux` allows a third stream entry
only under an id that both earlier ones had.

## 3. Runs

| run | shows | bounds |
|---|---|---|
| `udp_handshake` | live sessions stay routed, no worker blocks on `done` | 1 peer, 2 workers, 1 Connect caller, 3 session indices |
| `udp_mux` | mux implies session, no orphan mux, `Close` returns | 2 workers, 1 Connect caller, 1 application, 1 index, 2 calls |
| `packet_pipeline` | packet ownership, order, no stuck reader | 3 structs, batch 2, queues of 1, 3 datagrams, 2 workers, 1 reader |
| `kcp_conn` | stream conserved, data wakes readers, writes once and in order, `Write` and `Close` return | 2 readers, 2 units, 2 ticks, 1 closer; or 2 writers of 2 and 1 calls, 2 closers, queue of 1 |
| `kcp_mux` | active count exact, queued streams reachable, closed ones leave, `Accept` returns, `Close` empties the table | 4 ids, backlog 1, 1 active stream, 3 entries, 1 goroutine each for `Accept`, input and `Close` |
| `components` | the twelve components below, each by itself | see below |
| `pcm_mixer` | native audio at the head played, sleeping writers served, a new track wakes a reader that waits for one (`mixer.go:388`; not one that waits for a write, 320), `Write` returns | 1 track, 1 reader, 2 writers, 2 formats, ring of 1, chunks up to 2, 2 writes, 2 inputs |
| `udp_stale_close` | **finding**: an overtaken close notice closes the new session's mux | 2 workers, 2 indices |
| `udp_close_leak` | **finding**: a handshake during `Close` leaves an open mux | 1 index |
| `kcp_close_wakeup` | **finding**: `Close` can miss a reader about to wait | 1 reader, 1 closer |
| `kcp_large_message` | **finding**: a message over 64 KiB blocks the stream | 2 units, the first too large |
| `core_listener_panic` | **finding**: `Listener.Close` can close an inbound channel just before `deliverPacket` sends on it | 1 index, 1 connection |

The run `components`:

| focus | property | bounds |
|---|---|---|
| `session` | `FilterExact`, `NonceUsedOnce`, `ImplementsAntiReplay` (also: delivered once) | 2 senders, 2 workers, window of 2 words of 2 bits, 7 nonces, 6 calls, 1 corrupted packet (while at most 2 calls were made), workers overlap while at most 4 were |
| `conn` | `EstablishedHasCurrent`, `HandshakesNotMixed` | 4 handshakes, 1 queued packet |
| `listener` | `MapsInverse` | 2 keys, 2 indices, accept queue of 1, 2 connections |
| `services` | `EndedStaysEnded` | 1 service, 2 users, 2 enders, 2 service states |
| `giznet` | `OneActiveConn` | 1 peer, 2 callers, 2 events, 3 handles, 3 generations |
| `gears` | `StoreSound` | 2 gears with the same identifier, 2 requests |
| `peers` | `LatestConnActive` | 1 device, 3 connections (interchangeable: numbered in the order they are marked online or end unmarked), 2 requests |
| `depot` | `ImplementsAtomicDepot` | 2 builds, 2 operations from any depot of ordered releases |
| `login` | `OneSessionPerAssertion` | 2 requests, 2 assertions, session TTL 2, clock up to 3 |
| `buffer` | `BufferInOrder`, `BufferWakes` | each of the three buffers, 2 places, 1 reader, 1 writer, 5 values, slices up to 4 |
| `ring` | `RingIsFifo` | storage of 3, slices up to 4, 12 values |
| `mixer` | `ReportedOnce` | 2 tracks, 2 readers, 1 writer, 1 write, ring of 1, auto-close, no fades |
| all | `AllTypeOK` | - |

Why the bounds are enough. The window needs two words for the carry and more nonces than
positions to slide out of it: with a window of four the fifth nonce that is sealed slides the
first one out, and the sixth call meets the exhaustion test (`NonceMod - 2` is `MaxNonce`). Three indices are the least with which a session is rotated out of
`previous` while another handshake overlaps, which is where the index map can go wrong. One
peer is enough there because no handler touches two peers. Queues of one packet overflow
as soon as two packets are under way, and three structs for three datagrams in batches of
two force a struct to be reused while others are queued. Two readers are needed for one to
take the data the other was woken for; two closers for `closeOnce`. Three stream entries under one id
let a timer or a call of the first meet the second while the third is queued. Four handshakes are
a first session, a rekey in each direction and one retransmission. Two gears that report
one identifier compete for its index key; three connections are one more than "old and new",
so that an end of the oldest meets a refresh on the second. Two depot operations start from every
depot that earlier ones can have built, so the second also starts from what a torn or undone first one
left. A clock that outlives an assertion by a tick is enough for its key to expire. Slices of four values in
two places wrap, overwrite and exceed the buffer by a whole turn. One reader and one writer are what every
use of a buffer in the repository has, and what `BufferWakes` needs. Two writers on a ring of one unit share its token, and a chunk of
two makes each come back for the rest; two inputs are a change of format. Two tracks are the least of which a `Read` removes one
while another comes, and two readers can find the same track gone. Storage of three with slices of four has
every position of head and tail, every crossing of the end and every cut. All counters stop at
their bounds, so behaviours end: deadlock is not checked, and "somebody is stuck" is
stated by the liveness properties instead.

Each property of a passing run has a mutant in `PROJECT.json`: a definition of the
code changed as a plausible bug would, under which TLC finds the property violated.

**Fairness.** `UDPPeers`: a worker inside a handler, a mux method, `Connect` and `Close` keep
running (weak fairness); a worker at its `select` eventually takes the closed `closeChan`
(strong fairness: Go chooses among ready cases at random, and after `Close` the queue
receives nothing more). `PacketPipeline`: dispatch, workers and a `ReadPacket` under way keep
running; datagrams need never arrive. `KCPConn`: every goroutine inside a call runs and armed
timers fire; `DrainRecv` is strongly fair because it competes for `recvMu` and Go's mutex is
starvation-free. No call has to be made, the clock may stop, and no idle timeout has to
happen. The calls are finitely many in each instance, so `select` needs no fairness per case.
`KcpMux`: a stream `Close` that waits is woken or times out, a popped or stopped `Accept` goes on, a
handler that must still remove a stream does so, and `StopAccepting` and `Close` finish what they
began; no frame has to arrive and no idle timer has to fire. `PcmMixer`: the reader is a playback loop, which
calls `Read` again and goes on inside it, and a `Write` under way goes on; nobody has to create, write or close, and no fade has
to end. The run `components` states no liveness.

## 4. Proofs

Every safety property that a run checks is also a theorem, for every value of the constants that
satisfies the named assumptions: any number of peers, workers, packets, readers, streams, gears,
requests, connections or tracks, any capacity, window or storage size. One proof module covers a component
or a group of them:

| module | components | theorems |
|---|---|---|
| `NoiseSessionProofs` | replay window, session | `SlideExact`, `TypeCorrect`, `FilterIsExact`, `AtMostOnceDelivery`, `NonceNeverReused`, `SessionImplementsAntiReplay` |
| `UDPPeersProofs` | peer table | `PeersTypeCorrect`, `SessionsStayIndexed`, `DoneIsNeverFull`, `EstablishedMeansSession`, `NoMuxOrphaned` |
| `PacketPipelineProofs` | receive pipeline | `PipelineTypeCorrect`, `ReleasedNeverUsed`, `PacketsNotLost`, `ReadySeparatesAlways`, `SingleReaderInOrder` |
| `KcpProofs` | KCP connection, stream mux | `ConnTypeCorrect`, `NoUnitLost`, `WritesLeaveInOrder`, `MuxTypeCorrect`, `ActiveStreamsExact`, `QueuedStaysReachable`, `ClosedStaysEmpty` |
| `CoreProofs` | session manager, core listener, core connection, giznet listener, service mux | `ManagerMapsInverse`, `ListenerMapsInverse`, `EstablishedConnCanSend`, `ConnHandshakesNotMixed`, `AtMostOneActiveConn`, `ServicesStayEnded` |
| `ServerProofs` | gear store, peer manager, public login, firmware depot | `StoreStaysSound`, `LatestConnStaysActive`, `PeersKeepStoreSound`, `AssertionBuysOnce`, `DepotTypeCorrect`, `DepotIsAtomic` |
| `BuffersProofs` | buffers | `BufferTypeCorrect`, `ValuesInOrder`, `NobodySleepsWithWork` |
| `MixerProofs` | audio mixer, ring of a track | `MixerTypeCorrect`, `NativeHeadIsPlayed`, `SleepersAreServed`, `CreatedTrackWakes`, `EachReportedOnce`, `RingTypeCorrect`, `RingImplementsFifo` |

A few theorems have a hypothesis of their own. `NonceNeverReused` and
`SessionImplementsAntiReplay` need `MaxCalls <= NonceMod`, which is the code's limit: the counter goes on
after exhaustion, and after 2^64 calls it would wrap. `NobodySleepsWithWork` needs one reader
and one writer, as every use of a buffer in the repository has; with several writers it is false (section 5).
`CreatedTrackWakes` needs one reader, the playback loop: a second `Read` may take the token.

None of the properties is inductive alone. What each proof adds, and why:

* **Session.** `RecvInv` says that the bitmap *records* the consumed nonces (a bit of the window is
  set exactly if its nonce was consumed, and none above the maximum was), that two workers past the
  check hold different nonces, and that a delivered nonce is consumed and in no worker's
  hands. `SlideExact` carries it through `CheckAndUpdate`: after `slideWindow` the bit at position `d` is
  the one that was at `d - shift`, below `shift` the bits are clear. Its proof writes a position as word and bit
  and separates the bits that stay in the moved word from the carry. `FullInv` adds the sender: a nonce in
  use lies below the number of calls and belongs to one sender.
* **Peer table** (`PeersInv`). A session index is drawn once and is in one place: waiting (`PendingApart`), with one
  worker (`AnswersApart`, `InstallsApart`), current or previous in one peer (`HeldApart`), or on its way
  out (`RotatedApart`). Only then is what a worker deletes from `byIndex`, after it gave `peer.mu` back, no
  session a peer still holds. For the muxes: what `Close` is about to clear it has closed (`Muxes`).
* **Pipeline** (`PipelineInv`). `Counted`: a packet's count is the number of its owners, and `Owners`: it is held at most once
  on the output path and once on the decrypt path. So a decrement to zero is the last access.
  `ReadyLast` orders filling a packet before closing its `ready`, and `Ordered` relates what a reader
  has, `outputChan` and what `ioLoop` has not yet queued to the order of arrival.
* **KCP connection** (`ConnInv`). Reading needs no more than the queues' types: each step moves units from the
  front of one queue to the end of the next. Writing needs that a queued request has a number its writer has
  reached, below the current one while that waits to be queued (`MadeIn`); this keeps a request that was
  given up in front of later ones (`OrderedIn`),
  and what waits in `writeCh` behind what was sent (`SentFirst`).
* **Stream mux** (`MuxInv`). An entry is in the table under its own id only (`OwnId`), so a removal by id takes the
  stream meant; it is never both queued and active (`QueuedOrActive`), so each path moves the
  counter once. The counter is a cardinality, and the proof uses the finite-set theorems.
* **Session manager, core listener** (`ManagerInv`, `ListenerInv`). The two maps with their types are inductive; the
  allocator's wrap to 1 and not to 0 needs arithmetic of its own (`IndexAfterInRange`).
* **Core connection** (`ConnInv`). A fresh handshake is in one place (`OneHolder`) and what the goroutines hold
  between the lock sections is typed (`LocalsTyped`); from these follows `EstablishedHasCurrent`. For the action property
  `HandshakesNotMixed` the proof adds `Indexed`: the initiations on the wire and the response that `Recv` works on agree on the local index of
  each handshake, although `localIdx` itself changes under a pending one.
* **Giznet listener** (`GiznetInv`). What a caller carries between its look-up and its registration is typed
  (`CallersTyped`), and the entry of a peer is a `Conn` that was made for it (`RegisteredExist`).
* **Service mux** (`ServiceInv`). The `serviceState`s in use were made (`OnlyMade`); a call that ends a service leaves the mark
  that `ensureKcpMux` reads when it makes the mux later (`Marks`); until `Close` takes the services every state is
  registered, and after that no mux is made and the open ones are among those it has still to close (`CloseFindsAll`).
* **Gear store** (`StoreInv`). The goroutine between the checks and the last write is the one with the lock (`StoreLock`), and
  between the two transactions no index entry leads to the gear (`Unindexed`).
* **Peer manager** (`PeersInv`). A connection that a refresh asks was online once and none comes online twice, so giving it
  up cannot take a later one offline (`AskedWasOnline`). `PeersKeepStoreSound` shows that the manager's records, stored next to
  others, keep `StoreSound`.
* **Public login** (`LoginInv`). The key of an assertion that bought a session is in the store until the assertion has
  expired (`Spent`), and the request between its look-up and its write is the one with the lock, so its assertion is
  still unused (`LoginLock`).
* **Firmware depot** (`DepotInv`). Unless torn, each directory is where the metadata and the progress of the operation say
  (`UploadPlaced`, `BackedUp`, `Moved`, `PassedBy`), the operation's copy of the metadata is current, and
  directories agree with the metadata when the lock is free. `Seen` is then the metadata (`SeenIsMeta`), so only `writeDepotMetadata` and
  the torn ends are steps of `AtomicDepot`; all others stutter.
* **Buffers** (`BufInv`). `InPlace`: the place at distance `d` from `head` holds the `d`-th of the stored values. Each copy is
  stated as what it puts at every distance, which turns the cases of the code (across the end of the storage or not, less than a turn
  or several) into arithmetic without modulus; `OverwriteIs` is the largest of these lemmas. `SleepInv`: a goroutine
  queues once on the condition and only inside a call, so with one reader and one writer a single `Signal` empties the queue.
* **Audio mixer** (`MixInv`). What a `Read` saw must still hold when it acts on it, so the proof is about a relation, `TrackGoes`: flags only
  rise, a closed input only drains, and a closed track gets no more inputs. Every call but the reader's own keeps it,
  so an input found closed and empty is empty when it is dropped, and a track found at its end has ended when it is
  removed (`Placed`). `OneRound`: one `Read` at most is in a round, as it holds `mx.mu`. `SleepersServed` is carried by the same relation
  (`TrackServes`): no call but a writer's own leaves a ring without data, token and close that had one of them.
  `ReportInv` adds to `ReportedOnce` that a track not made is nowhere and that a `Read` outside its round and callback has
  nothing to report (`GoneKept`).
* **Ring of a track** (`RingTypeOK`, which is inductive). `PutStores` says what the two copies of `write` leave in each place of the storage, in the three
  cases of where `tail` and the end of the slice are; `TakeIs` the same for `read` and the turn back. From these each
  operation is shown to be the one of `AudioFifo` on `Queued` (`PutRefines`, `TakeRefines`).

Assumptions. All are `ASSUME`s of the component's module, and TLC evaluates them in each run. Bounds are naturals; capacities
that the code makes positive are positive (`WindowAssumption`, `ConnAssumption`, `KcpMuxAssumption`,
`BuffersAssumption`, `MixerAssumption`, `TrackRingAssumption`, ...). `nil` values are none of the things they stand beside (`NilAssumption`, `NoPacketAssumption`,
`NilRecordAssumption`, `PeerManagerAssumption`, ...). Goroutines of different kinds are different (`GoroutinesDistinct`,
`GearStoreAssumption`, `BuffersAssumption`), and "free" is no request (`LoginAssumption`). `Readers` of the pipeline and the
goroutines of a stream mux are finite sets, as running goroutines are, so that owners can be counted.

Only model-checked: liveness (`CloseTerminates`, `ReaderNotStuck`, `DataWakesReader`, `CallsReturn`, `ClosedStreamsLeave`,
`AcceptReturns`, `WritesReturn`), since liveness under fairness and `ENABLED` are outside the prover; and the five violations, which are behaviours TLC
exhibits. `AllTypeOK` conjoins the types of the components of `MCComponents`; its parts are proved one by one, for each
component under its own specification. The types of the other modules and `DeliveredOnce`, which `ImplementsAntiReplay`
contains, are proved and left out of the runs.

## 5. Not modelled

Within the modelled components: cryptography (its verdicts are inputs), wire encodings and payload
framing, statistics and timestamps, keepalives and `SetSession` of `core.Conn`, direct packets of
`ServiceMux`, the sending path of `core.UDP`, collisions of session indices in `UDPPeers`. `KCPConn` does not
model congestion, retransmission or sizes of messages other than "too long". `GearStore` leaves out
configuration and the indices over it, `FirmwareDepot` the contents of archives and the OTA
download, which takes no lock and opens a file after it read the metadata (`resolveOTAFile`).

The models also show behaviour that no text of the repository excludes, so it is neither a property nor a
finding: overlapping handshakes leave a dead index in `byIndex` (`core/udp.go:847`); a `Connect` that times
out overwrites the state of a peer that was just established (`core/udp.go:1057`); `SetReadDeadline`
broadcasts without `recvMu` and can be missed (`kcp/conn.go:274`); a rekey of a `core.Conn` that waits for its response loses its
index when an initiation of the peer crosses it (`core/conn.go:757`), so the response is refused (594) and the rekey is
retransmitted under the new index (1120); a `core.Conn` closed while it answers an
initiation becomes established again (`core/conn.go:757`); two changes of one gear record can lose
one of them (`gear/store_ops.go:158`); a dropped event hides a connection from `Accept`
(`giznet/listener.go:48`); a `BlockBuffer` with
several writers can wake the wrong side and leave everybody asleep, and `Discard`, `Reset` and `RingBuffer.Write` wake
nobody (`block_buffer.go:79`, `ring_buffer.go:121`).

Of the mixer the model contains four behaviours at odds with its comments, for which no property is stated. `Soxr.Read`
calls a ring that is empty for a moment exhausted (`resampler.go:121`), so a resampled input is dropped, and a chunk that a `Write` stores
before `head.Close` (`track.go:71`) is lost although it succeeded. An error of `Soxr.Read`, as for an odd byte left when its ring is closed (`sample_reader.go:50`), goes through
`track.Read` (`track.go:75`) and removes the track (`mixer.go:418`), with the native audio that was written behind it; `NativeHeadPlayed` is therefore about native inputs
that have come to the head. With `WithAutoClose` a `Read` can wait for ever
(`mixer.go:320`) when its last track failed while the token of an earlier close was still there, because the second `CloseWithError` returns
early (`track.go:91`). Tracks closed by `Mixer.CloseWithError` are never reported, because later `Read`s return at once (`mixer.go:365`).

`PcmMixer` leaves out gains, labels and the sums of samples, and `TrackRing` the calls around the ring, which are in `PcmMixer`.

Whole parts without a model, most of the repository's lines: about 18 000 lines are generated API
bindings; examples, song and prompt tables, codecs, the resampling library and cgo wrappers are data or numeric code; the
command line, the resource servers (CRUD over a store), the adapters to model providers and the
agent runtime translate and forward, and keep little state of their own that several goroutines change.
`kcp/service.go` is not used by the stack above. A state machine of these would restate the
code and check nothing. The share of lines the map covers is low for that reason.

## 6. Plan

1. Two-ended models: a pair of `UDPPeers`, and of `CoreConn`, whose ends agree on a session after
   crossing handshakes.
2. Proofs about these: that both ends of a session hold the same keys, from the invariants of one end.
3. More of the server: the records of `gizclaw` that several requests change, as `GearStore` has them,
   where two of them share state.
