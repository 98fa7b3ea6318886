# TLA+ models of vilan-peer

vilan-peer is a virtual-LAN client. It registers with a rendezvous server over
UDP, reads Ethernet frames from a TAP device and relays them through the
server. Where the NAT allows, it sends them instead over a direct UDP link to
the peer, which it builds by hole punching. A second feature tunnels serial
ports to a peer over TCP. This directory holds TLA+ models of the client's
concurrent core and the TLC configurations that check them. `PROJECT.json`
lists the components, the runs, a mutant for every checked property, the map
from every definition to the source lines it models, the findings and the
hazards.

## 1. The system and the modules

| Part | Source | Module |
|---|---|---|
| NAT traversal engine (`P2pService`) | `src/service/p2p_service.go`, `data_handler.go`, the punch branch of `msg_handler.go` | `P2pEngine`, and its abstract specification `LinkLifecycle` |
| Control session (`RuntimeService` state machine) and the virtual interface (`TunTapService`) | `src/service/runtime_service.go`, `tuntap_service.go`, the server branch of `msg_handler.go`, `src/wails-app.go` | `ControlSession` |
| Peer directory and link-info cache | `src/service/runtime_service.go` | `Directory` |
| Remote configuration request and response | `src/service/runtime_service.go` | `ConfigRequest` |
| Frame codec, stream side | `src/serial/protocol/protobuf.go` (the same code is in `src/netty/codec/format/protobuf.go`) | `FrameCodec` |
| Serial-port tunnel | `src/serial/` | `SerialBridge` |
| GUI settings form, with the address text helpers | `src/wails-app.go`, `src/common/utils.go` | `GuiForms` |
| Packet ciphers and their use by the session | `src/common/security.go`, `initCrypt`, `EncryptMsg`, `DecryptMsg` in `runtime_service.go` | `Cipher` |
| Encrypted data path of one UDP socket's codec | `src/netty/codec/format/protobuf.go` (UDP branch), `tuntap_service.go`, `data_handler.go`, `msg_handler.go` | `DataPath` |

How they interact:

* **Boot and Restart.** The GUI calls `RuntimeService.Start` at boot and `Restart` later.
* **stateCheck.** `Start` launches a `stateCheck` goroutine. It connects the
  server socket, sends the auth request, and reconnects or re-authenticates
  every three seconds.
* **Registration.** `ProcessAuthResponse` runs on the server socket's reader.
  On an accepting AuthAck it:
  * sets `Ok`;
  * starts the TAP interface (whose `readTap` goroutine re-creates the device
    on read errors);
  * resets the P2P maps;
  * requests the group directory.
* **Frame forwarding.** Frames read from the TAP device go to
  `TryForwardMessage`. That function sends them over an active direct link,
  or relays them and may start a punch.
* **Directory and link listing.** Both are paged request/response exchanges
  through the server, and cookies tell responses apart.
* **Configuration.** `UpdateConfig` sends a config to a peer and waits up to
  two seconds on a channel. `ProcessConfigAck`, on the server reader, sends
  the answer into that channel.
* **Serial tunnel.** `PortService` keeps one `ClientContext` per remote peer
  and one `ServerContext` per incoming connection. Commands wait on result
  channels with a timeout.

The components are separate modules because their interaction is narrow: a
call such as `ResetP2PSocks` or `SendGroupPeersRequest` from
`ProcessAuthResponse`. Each module abstracts the others to the inputs they
give it.

## 2. How each module corresponds to the code

Every action is a whole handler. Its guards come from the code's early
returns, and its primed variables from the handler's assignments, including
the calls it makes. `PROJECT.json`'s map names the lines of every definition.

**P2pEngine.**

*State.*
* The four `sync.Map`s (`punchSocks`, `p2pTrySocks`, `p2pSocks`,
  `hisP2PFailInfo`) are functions from MACs to a socket identity, or to
  `None`.
* A socket identity stands for a Bootstrap together with its context. Its
  record holds the state (free, up, down), kind, peer, handler, age, try
  count and ping count.
* `inflight[s]` is the program counter of a `P2PSuccess` call, which is split
  at its Load, Store and Delete.

*Actions.* `TryForwardMessage`, `ProcessP2PTrigger`, `ProcessP2PAck` (through
`DeliverAck` and `DuplicateAck`), the socket callbacks, `PeerStateChanged`,
`ResetP2PSocks`, `Start`, `Stop` with `stopP2pSockets`, and one whole
`stateCheck` pass.

*Time.* Time advances by `Tick`. Ages saturate at caps at or above every
threshold they are compared with, so every comparison in the code has the
same outcome.

*Refinement.* `LinkLifecycle` is the abstract promise of spec sections 2
and 4.3: per address, a set of stages (`punch`, `pending`, `active`). A stage
may be torn down at any step, and entered only in protocol order: a punch
only while nothing is pending or active, a pending link only from a punch
socket, an active link by promotion or by a peer's probe. `P2pEngine` maps
its maps onto stages (`LinkStages`). A pending entry whose `P2PSuccess` has
already stored it as the active link counts as promoted, because the engine's
`Delete` of it comes later. `LifecycleRefined` is `Lifecycle!Spec` as a
property; with three sockets a duplicated ack breaks it (the
`p2p_dup_ack_lifecycle` finding), so it is checked as a violation run.
Pending/active mutual exclusion is not part of the abstract specification,
because the engine does not keep it (see the `p2p_active_links_live`
finding).

*Merged steps.* `ProcessP2PAck`'s `LocalSock == nil` test is `HasLocalSock`:
`newPunchSock` sets `LocalSock` when its Connect returns, and the model
merges that with the Connect, so a stored punch context has it. The window in
which the punch socket's HandleActive has sent the trigger and the answer
arrives before `newPunchSock` sets `LocalSock` is not explored.
`PeerStateChanged`'s Delete and two Load/Stop/Delete runs are one step, as
are one `stateCheck` pass and `Stop`; `P2PSuccess` is the only call split at
its map calls.

*Punch sockets on Stop.* `stopP2pSockets` switches on the type of
`punchSocks`' values, and that switch never matches. `TeardownPunch == {}`
is therefore the set of punch sockets Stop stops (see section 5).

**ControlSession.**

*State.*
* `peerState` uses the code's numbering, since the code compares states.
* The server socket, the TAP service record (`tap`: state, tapper, and a
  multiset of readTap goroutines by place), and the queues to and from the
  server.
* `loops`: stateCheck goroutines as a multiset of places (first check, loop,
  exit).

*Actions.*
* `Boot` (wails-app.go), `StartService` and `StopService`.
* `Restart` as three steps: Stop, TunTap restart, Start. The GUI's goroutine
  can interleave with the loop between them.
* `StateCheckFirst`, `StateCheck`, `LoopExit` and `LoopDefer`: the loop's
  first pass, a timer pass, the exit test and the deferred
  `running = false`.
* The server-socket callbacks, the auth exchange and the readTap goroutine
  (`ReaderStart`, `ReaderLoop`, `ReaderExit`).

*Environment.* The server and the network: loss, duplication, outages and
socket exceptions. Every fault spends one unit of `MaxFaults`.

**Directory.**

*Directory state.* `groupPeers` and `groupPeerCookie`, the server's truth,
the requests and the datagrams in flight.

*Directory actions.* `SendGroupPeersRequest` with `ClearMap`,
`ProcessGroupPeersResponse` and `ProcessPeerStateChanged`.

*Link listing state.*
* The cache `linkInfos` and its cookie.
* The queried peer's clock `sec`, since the cookie is
  `rand.Seed(now seconds); rand.Uint32() + 1`, modelled as `sec + 1`.
* `lq`, the `GetLinkInfos` call.

*Link listing actions.* `GetLinkInfos` (delete, request), `LinkPoll` (one
100 ms poll), the peer's `ProcessPeerLinksRequest` (pages tagged with the
cookie) and `ProcessPeerLinksResponse`.

**ConfigRequest.**
* Each UI call's program counter, `configSend` (MAC to channel), the messages
  in flight, and the read loop blocked on a send.
* `UpdateConfig`/`sendConfig` are split where the channel is registered,
  after the message has been sent. `Receive` and `Timeout` are the two cases
  of the select, each merged with the `delete(configSend, mac)` that
  follows it: nothing else of the caller runs in between.

**FrameCodec.**
* Varint encode and decode are RECURSIVE operators.
* `readAndDeal`, with its loop and its deferred recover, is the recursive
  operator `DealLoop` over a record `[lo, hi, fl, out]`.
* `HandleRead(n)` appends a read of n bytes of the sender's stream. Every
  split of the stream into reads is explored.
* `HandOn` reads `data[0]`, and `data[1]` only when `data[0]` is 0xF8 (the
  `&&` short-circuits): an empty payload or a one-byte 0xF8 panics
  (`HandOnPanics`); any other one-byte payload is consumed, and
  `proto.Unmarshal` rejects it.

**GuiForms.** Pure operators, no variables.
* A uint32 or uint64 is a function from bit positions to {0, 1}, so the
  code's shifts, masks and byte orders are exact beyond TLC's 31-bit
  integers. A text the code formats or parses is the sequence of numbers its
  fields spell.
* `Uint32toIpV4`, `IpV4toUint32` (with `ParseInt(_, 10, 16)` and the
  `(IP << 8) | uint32(val)` fold), `MaskBitLen` (RECURSIVE `OnesFrom`),
  `Uint64ToMacStr` and `MacStrToUint64` (little-endian) follow utils.go.
* `GetConfig` formats the stored configuration, the mask as
  `0xFFFFFFFF << (32 - IpMask)`. `SaveConfig(app, conf, written)` takes the
  early returns in order, copies `app` and writes the form's fields over it,
  and applies the restart test `NeedRestart`. `written` is whether the file
  write succeeded. `CopyAppConfigTo`'s error return is dead there: it fails
  only on a nil target, and `config.NewConfig()` never returns one.
* The text conversions are kept because `FormRoundTrip` is about them: the
  form shows formatted texts, and saving parses them back.
* The properties are predicates of one input. `MCFrameCodec` checks them
  the way a recursive definition is checked against a reference: its Init
  chooses one input (`sample`), a configuration or a cipher input, and no
  step changes it. The codec's reads run only from the state with no input, so
  the codec run and these checks do not multiply.

**Cipher.** Pure operators, no variables.
* A text is a sequence of bytes. The block ciphers are abstracted: a
  ciphertext byte is the record of the key, the IV, its position and the
  plaintext byte it hides. What the code adds around them is kept: the
  PKCS#7 padding (`Padding`, `Padded`), the key copy into a zeroed buffer
  (`KeyBytes`), the key length choice whose 24-byte branch is dead
  (`AesKeyLen`), the size checks against the 2048-byte `txBuffer`, and which
  failures return an error, panic or are recovered (`Result`).
* `NewAesCrypt`, `NewDesCrypt` and RSA return a nil pointer on failure,
  stored in the `Crypt` interface (`NilCrypt`); `InitCrypt` follows
  `initCrypt`, whose `r.crypt == nil` fallback such a value never takes.
  RSA's key files are reduced to whether they could be loaded.
* `EncryptMsg` and `DecryptMsg` take the session's early returns and then
  dispatch on the cipher. `AesEncrypt` and `AesDecrypt` are the group
  password's obfuscation in the auth request.
* `MCFrameCodec` checks `CipherRoundTrip` over every cipher type (an unknown
  one included), passwords of 0, 1, 8, 9, 16, 17 and 33 bytes, and payloads
  at every block and buffer boundary up to 2048 bytes.

**DataPath.**
* *State.* The TAP frames not yet read, the peer's datagrams not yet read
  (a set: UDP may reorder them), the codec's `txBuffer`, each goroutine's
  position and its message's `Data` (its own bytes, or a slice of
  `txBuffer`), the datagrams sent and the frames written to the TAP device.
* *Actions.* The TAP goroutine: `WriteEncrypt` (readTap, tapData2Net,
  PostTunTapData, then HandleWrite up to `EncryptMsg` and
  `m.Data = v.txBuffer[:l]`) and `WriteMarshal` (`proto.Marshal`, the
  header, the send). The read loop: `ReadDecrypt` (HandleRead's UDP branch
  up to `msg.Data = v.txBuffer[:l]`) and `ReadDeliver` (the handler's
  `WriteData2TunTap(msg.Data)`). `Refused` names the TAP frames whose
  `EncryptMsg` fails although a cipher is set (the session fell below
  `StateConnOk` after `PostTunTapData`'s test, or the cipher's Encode
  returned an error): HandleWrite keeps `m.Data` and sends it in clear.
  Payloads are model values, a buffer holds
  `Sealed(p)` or `Clear(p)`. Frames without data never touch `txBuffer` and
  are left out, as are the statistics.

**SerialBridge.**

*State.*
* The local `clientCtx` entry, the ClientContext's handler, `msgResult`
  channels and the auth flags.
* The remote `serverCtx` entry, the ports each ServerContext opened, and
  the ports with a saved configuration (`saved`: an Open saves it whether
  or not the port opened, and GetConfig answers only for an open or saved
  port).
* Per TCP connection, two FIFO queues whose ends close separately.

*Actions.* One UI goroutine calls `ConnectRemote`, `DisConnectRemote`,
`OpenPort`, `ClosePort`, `GetPortConfig`, `SetPortConfig`,
`GetConnectedPorts` and `GetRemotePortList` one at a time.
`GetConnectedPorts` only reads the local list, but connects first when
there is no context. Both read loops, both stateCheck loops,
the command timers and connection breaks interleave with it.

*stateCheck.* Both sides refresh a context's `LastReceive` for a frame
from any connection of the peer, and both ends of an authorised connection
ping on ReadIdle. A context is therefore silent (`ClientSilent`,
`ServerSilent`) only when no up connection with auth remains, the client's
own connection aside, which also counts while its AuthAck is on the way.

*Merged steps.* `ConnectRemote` creates, starts and stores the context in
one step; `ClosePort` whose write fails returns through
`PortService.ClosePort`'s `portCtx` test, as the code does. Receive merges
the local `OpenPort` of the serial device, which is taken to succeed.
`PeerStateChanged` is the `clientCtx` half of `deleteContext`: the
`serverCtx` half closes the remote context of the local peer id, which this
one-direction model does not have.

## 3. Runs

At most one run is kept per question. Bounds are the smallest values at
which every branch of every action is taken.

| Run | cfg | Expect | What it shows |
|---|---|---|---|
| p2p_safety | MCP2pEngine.cfg | pass | No group address is linked. A pending link gets at most `P2pTryCount` probes. Every recorded failure backs the peer off (`FailureBacksOff`, an action property). Every pending link is eventually promoted or dropped (`PendingResolves`), and every silent active link is eventually evicted (`SilentLinkEvicted`). |
| p2p_active_links_live | MCP2pEngine_ActiveLinksLive.cfg | violation | A PeerStateChanged between P2PSuccess's Load and Store leaves a stopped socket as the active link. |
| p2p_dup_ack_lifecycle | MCP2pEngine_Lifecycle.cfg | violation | The engine does not implement `LinkLifecycle` (`LifecycleRefined`): a duplicated ack stores a second pending link while P2PSuccess promotes the first. |
| session_recovers | MCControlSession.cfg | pass | Once faults stop, a running session that is not Ok becomes Ok. This covers reconnects, lost acks, rejections, a failed TAP start and Restart. |
| session_single_statecheck | MCControlSession_SingleStateCheck.cfg | violation | Restart can leave two stateCheck loops running at once. |
| config_reader_stranded | MCConfigRequest_ReaderNeverStranded.cfg | violation | A late ack blocks the server read loop on a channel nobody receives from. |
| directory_current | MCDirectory.cfg | pass | With in-order delivery, a quiet directory matches the server, whatever the link-listing calls do meanwhile. |
| codec_stream_splits | MCFrameCodec.cfg | pass | For every split of a stream of well-formed frames into reads, every frame is handed on once and in order. Saving the settings form unchanged keeps the stored configuration and does not restart (`FormRoundTrip`). Every payload a configured cipher accepts decrypts back to itself (`CipherRoundTrip`). |
| codec_oversize_stalls | MCFrameCodec_Oversize.cfg | violation | A header above the ceiling is never consumed, so no later frame is handed on. |
| serial_pairing_stale | MCSerialBridge.cfg | violation | A paired remote port does not stay reachable (`PairedPortsHeld`): a late MsgAuth replaces the live ServerContext, and pings keep both stale contexts alive. |
| serial_orphan_port | MCSerialBridge_OrphanFree.cfg | violation | A remote serial port can be held by a ServerContext that is no longer in `serverCtx`, so nothing closes it. |
| datapath_shared_buffer | MCDataPath.cfg | violation | With a cipher configured, a datagram can be sent carrying the plaintext of a frame the read loop just decrypted into the shared `txBuffer`. |

Bounds and why they are enough:

* **P2pEngine.** One peer and one group MAC. Two sockets (one punch, one
  direct) in the passing run, three in the violation runs: the third is what
  lets a duplicated ack make a second pending link while the first is being
  promoted.
* **P2pEngine timers.** `P2pTryCount` 2 is a probe, then exhaustion. The ages
  `PunchTimeout` 1, `LinkHeartbeat` 0 and `Offline` 2 keep every comparison
  distinct; `FailCeiling` 3 lets a failure count reach the ceiling after
  being backed off twice.
* **P2pEngine faults.** One duplicated ack. The safety and liveness
  properties share one run (about three minutes).
* **ControlSession.**
  * `Heartbeat` 0 and `Offline` 4 keep the code's order
    (Offline > Heartbeat + 3).
  * `MaxStarts` 2 allows boot plus one Restart.
  * `MaxReaders` 2 bounds the live readTap goroutines. A TAP start that
    would exceed it is not explored.
  * `MaxFaults` 1.
* **Directory.**
  * Two peers, under `SYMMETRY PeerSymmetry`. This is sound because every
    action and both invariants treat the members alike.
  * Two requests, two presence changes and one lost datagram.
  * Two pages per listing and two polls.
  * Two `GetLinkInfos` calls, and one second of time. That second is enough
    for two listings to share a cookie, and for a later one to get a new
    cookie.
* **ConfigRequest.** Two callers, one destination, two calls each and one
  fault. These values reach a second call overwriting the first one's slot,
  and a late ack. The module has only its violation run: a caller always
  returns through its timer, which is not worth a run of its own.
* **FrameCodec.** The ceiling is scaled from 2 MiB to 129 bytes. A 128-byte
  payload then has a two-byte header that a read can split, and a 130-byte
  one is above the ceiling.
* **GuiForms.**
  * Configurations: every mask length 0 to 32, both IP modes, addresses
    0, 10.0.0.5 and 192.168.1.100 (above 2^31), and three MACs: zero, one
    with distinct bytes, and all ones.
  * Encryption with and without a password, including the refused case.
  * Server addresses are dotted quads only. A host name would be refused by
    `SaveConfig`, and the unchanged configuration kept.
* **Cipher.** The payload lengths 15, 16, 17, 245, 246, 2031, 2032 and 2047
  straddle the AES and DES blocks, RSA's 245-byte limit and the buffer;
  password lengths 16 and 17 straddle the AES key length choice.
* **DataPath.** Two TAP frames and two peer frames: one of each already
  lets a read land between the other goroutine's two steps. `EncryptMsg`
  refuses one TAP frame, so a frame sent in clear on that error path is told
  apart from one the race sends.
* **SerialBridge.** One port, two connections, two UI calls and one fault.
  This is enough for a timed-out connect followed by a retry, and for a late
  MsgAuth of the first connection after the second's.

Every property of a passing run has a mutant in `PROJECT.json`: a plausible
bug in a mapped definition that TLC catches under the run's own cfg.

## 4. Fairness

Weak fairness is assumed only of steps the code schedules itself:

* the `time.After` loops (stateCheck in every component), while they run;
* goroutines that finish what they started: P2PSuccess, readTap, Restart's
  steps, the read loops;
* the passage of time;
* in ControlSession, the server answering what reaches it and the network
  coming back up. Together with the fault budget, this makes
  `SessionRecovers` a statement about any finite run of faults;
* in ConfigRequest, the destination and the server relaying what reaches
  them (no liveness property of it is checked at present);
* in SerialBridge, the UI goroutine finishing its call, the timers, both
  read loops, both connection-close callbacks and both stateCheck loops.
  `PairedPortsHeld` is violated under this fairness: the stuck state is one
  in which every fair step has been taken.

Nothing is assumed fair of the user, and the UI's next call is its own
choice. Directory and FrameCodec are checked for safety only.

## 5. Findings

* **`p2p_active_links_live`** (`p2p_service.go:377`). P2PSuccess's Load,
  Store and Delete are separate. A teardown in between makes a stopped socket
  the active link, against spec §5.
* **`session_single_statecheck`** (`runtime_service.go:171`). stateCheck
  re-reads `r.running` and `r.cancelContext`, and its first pass ignores
  cancellation. After a Restart, the old loop keeps running beside the new
  one, or its deferred `running = false` stops the new one.
* **`config_reader_stranded`** (`runtime_service.go:680`). ProcessConfigAck
  sends on an unbuffered channel after the caller timed out. This blocks the
  server read loop, against spec §9.
* **`codec_oversize_stalls`** (`serial/protocol/protobuf.go:87`). An oversize
  header is never consumed, against spec §4.1 and §8.
* **`datapath_shared_buffer`** (`netty/codec/format/protobuf.go:231`).
  HandleWrite encrypts into the codec's `txBuffer` and marshals a slice of
  it afterwards; the read loop decrypts into the same buffer. A datagram
  read in between makes the node send the peer's decrypted frame in clear,
  and lose its own. The same race can hand the TAP device a frame the
  writer just encrypted. Against spec §4.1 ("the encrypt operation is
  invoked before length-prefixing").
* **`serial_orphan_port`** (`serial_service.go:120`). SetServerHandle
  overwrites a ServerContext without stopping it. After a timed-out connect,
  a port is left open with no owner.
* **`p2p_dup_ack_lifecycle`** (`p2p_service.go:329`). ProcessP2PAck stores a
  new pending link over the old one without stopping it. With the ack
  delivered twice, P2PSuccess stores the first link as active while the
  second is pending, and its Delete then drops the second without stopping
  its socket.
* **`serial_pairing_stale`** (`serial_service.go:146`). A context deleted
  while its WaitAuth was pending closes its connection, but the server still
  reads the MsgAuth it sent, after the next context's. That stale
  ServerContext replaces the live one, which holds the port the user then
  opens. Pings on the live connection refresh both `serverCtx[peer]` and
  `clientCtx[peer]` by peer id (lines 154, 421), so neither stateCheck ever
  fires, and the client's frames for that port go to a context that holds
  none.

Found while modelling, with no run:

* **AES with a password longer than 16 bytes** (`security.go:62`). The key
  is 32 bytes and the whole key is the CBC IV, so every Encode panics (HandleWrite
  recovers, and the frame is dropped) and every Decode returns an empty
  payload. `CipherRoundTrip` only speaks of payloads Encode accepts.
* **RSA sends large frames in clear** (`security.go:245`). A frame of more
  than 245 bytes makes Encode fail, and HandleWrite then sends `m.Data`
  unencrypted.
* **Nil ciphers** (`runtime_service.go:354`). A failed NewAesCrypt,
  NewDesCrypt or NewRsaCrypt is a typed nil, so `r.crypt != nil` holds, the
  "running without encryption" fallback never happens and every Encode
  panics.
* **Unchecked unpadding** (`security.go:74`, `131`). Decode trusts the last
  byte; a corrupted datagram gives a negative or oversized length.

* **Punch sockets on Stop** (`p2p_service.go:143`). Stop never stops punch
  sockets, because the type switch in `stopP2pSockets` never matches.
* **Datagram branch of the codec.** `num >= rn-2` drops payloads of two bytes
  or fewer. The 2048-byte receive buffer truncates datagrams below
  `MaxPacketSize`. These contradict the round-trip claim of spec line 133.

* **Peer list order** (`wails-app.go:246`). compareIP compares the digit
  strings as numbers, so 10.0.0.12/24 sorts after 10.0.1.2/24, while
  sortPeers's comment promises ascending addresses. A sort is a unit test's
  job; the project does not model sortPeers.
* **Address parsing** (`utils.go:163`). A field of 256 to 32767, or a
  negative one, spills into the neighbouring octets, so `SaveConfig` stores
  10.0.0.256 as 10.0.1.0.
* **Settings saved after a server assignment** (`wails-app.go:350`). A form
  opened before the server assigned the MAC writes the zero MAC back on
  save, which restarts the service.
* **Peer name** (`wails-app.go:357`). The restart test ignores the name, and
  the running service keeps its own copy of the configuration, so a rename
  does not reach the server until the next restart.

Except the punch sockets on Stop, the address parsing, the peer list order
and the peer name, which a unit test shows directly, these are listed as
hazards in `PROJECT.json`.

## 6. Not modelled, and why

* **UDP/TCP transport and socket reuse** (`netty/transport`, `netty/reuse`):
  abstracted to a Connect that succeeds or fails.
* **Cipher key files** (`NewRsaCrypt`, `CreateRsaKey`): key generation and
  file I/O, reduced to whether the keys load. The block ciphers themselves
  are abstracted to records.
* **Configuration and logger:** file I/O and formatting. The config
  defaults fix the meaning of the constants.
* **GUI and tray:** apart from the settings form (GuiForms), only their calls to Start, Stop, Restart, UpdateConfig and the
  serial operations are modelled. The form is not composed with
  ControlSession: SaveConfig's restart result is the trigger of
  `RestartStop`, which ControlSession leaves to the user. The log history
  and the event emitters only format output.
* **The TAP drivers** under `src/tuntap` and the routes: they call the OS.
  Frame forwarding (`tapData2Net`, `PostTunTapData`) appears only as the
  TAP goroutine's step into the codec in DataPath.
* **`ReConnectRemote`:** nothing calls it.
* **The serial read goroutines and `virtual_com.go`.**
* **The datagram branch of the codec,** beyond DataPath's data frames: the
  header checks are not repeated there.
* **Composition of the modules.** ControlSession does not call P2pEngine's
  ResetP2PSocks or Directory's request; each module abstracts these calls.
